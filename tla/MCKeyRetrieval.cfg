CONSTANTS
  Scalar = {1}
  FullId <- MCFullId
  H1 <- MCH1
  KEY_SIZE = 2
  U8Max = 3
  Server <- MCServer
  Faulty = {"c"}
  ServerSeed <- MCServerSeed
  Hkdf <- MCHkdf
  Index <- MCIndex
  RegisteredIndex = 0
  Secret <- MCSecret
  Draw = {3}
  Request <- MCRequest
  OtherIds <- MCOtherIds
  MaxPairs = 2
  MaxUnderWay = 4
SPECIFICATION Spec
INVARIANTS
  TypeOK
  KeptKeysRight
  AcceptsGoodAnswers
  EncryptedCheckAgrees
  OpensAtOnce
PROPERTIES
  KeysFromFreshAnswers
  ImplementsKeyring
CHECK_DEADLOCK FALSE
