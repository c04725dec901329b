CONSTANTS
  Scalar = {1, 2}
  FullId <- MCFullId
  H1 <- MCH1
  KEY_SIZE = 2
  U8Max = 3
  MasterKey <- MCMasterKey
  Text <- MCText
  Requests <- MCRequests
  Holdings <- MCHoldings
  PublicKeyLists <- MCPublicKeyLists
  MaxEncryptions = 1
  MaxDamages = 1
  MaxDecryptions = 1
SPECIFICATION Spec
INVARIANTS
  TypeOK
  AcceptsExactly
  DecryptSound
  BoundFieldsIntact
  OtherFieldsIntact
  Availability
  EnoughKeys
  KeysRight
  PublicKeysRight
PROPERTIES
  ImplementsVault
CHECK_DEADLOCK FALSE
