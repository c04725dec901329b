CONSTANTS
  U8Max = 3
  SeedLength = 2
  MaxHeader = 2
  MaxSigned = 6
  MaxAud = 1
  FieldNumbers = {"number"}
  AddressSeed <- MCAddressSeed
  Account <- MCAccount
  Forms <- MCFewForms
  Epochs = {100}
  Randomness = {"number"}
  Salts = {"salt"}
  Issuers = {}
  Seeds = {}
  MaxAttempts = 1
  MaxTokens = 1
  MaxLogins = 1
  MaxSignatures = 0
  MaxDerived = 0
SPECIFICATION Spec
INVARIANTS
  EveryKeyLoginWorks
CHECK_DEADLOCK FALSE
