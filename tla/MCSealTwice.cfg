CONSTANTS
  Scalar = {1, 2}
  FullId <- MCFullId
  H1 <- MCH1
  KEY_SIZE = 2
  U8Max = 3
  MasterKey <- MCMasterKey
  Text <- MCText
  Requests <- MCTwiceRequests
  Holdings <- MCHoldings
  PublicKeyLists <- MCPublicKeyLists
  MaxEncryptions = 1
  MaxDamages = 0
  MaxDecryptions = 2
SPECIFICATION Spec
INVARIANTS
  Consistency
CHECK_DEADLOCK FALSE
