CONSTANTS
  Scalar = {1, 2}
  FullId <- MCFullId
  H1 <- MCH1
  KEY_SIZE = 2
  U8Max = 3
  MasterKey <- MCMasterKey
  Text <- MCText
  Requests <- MCFewRequests
  Holdings <- MCHoldings
  PublicKeyLists <- MCPublicKeyLists
  MaxEncryptions = 1
  MaxDamages = 0
  MaxDecryptions = 1
SPECIFICATION Spec
INVARIANTS
  CorruptedShareUndetected
CHECK_DEADLOCK FALSE
