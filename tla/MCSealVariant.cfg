CONSTANTS
  Scalar = {1, 2}
  FullId <- MCFullId
  H1 <- MCH1
  KEY_SIZE = 2
  U8Max = 3
  MasterKey <- MCMasterKey
  Text <- MCText
  Requests <- MCFewRequests
  Holdings <- MCHoldings
  PublicKeyLists <- MCPublicKeyLists
  MaxEncryptions = 1
  MaxDamages = 1
  MaxDecryptions = 1
SPECIFICATION Spec
INVARIANTS
  PlaintextReturned
CHECK_DEADLOCK FALSE
