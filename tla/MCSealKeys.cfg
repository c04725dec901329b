CONSTANTS
  Scalar = {1, 2}
  FullId <- MCFullId
  H1 <- MCH1
  KEY_SIZE = 2
  U8Max = 3
  MasterKey <- MCMasterKey
  Text <- MCText
  Requests <- MCRequests
  Holdings <- MCHoldings
  PublicKeyLists <- MCPublicKeyLists
  MaxEncryptions = 2
  MaxDamages = 0
  MaxDecryptions = 0
SPECIFICATION Spec
INVARIANTS
  KeysNeverReused
CHECK_DEADLOCK FALSE
