CONSTANTS
  U8Max = 3
  SeedLength = 2
  MaxHeader = 2
  MaxSigned = 6
  MaxAud = 1
  FieldNumbers = {"number"}
  AddressSeed <- MCAddressSeed
  Account <- MCAccount
  Forms <- MCFewForms
  Epochs = {100}
  Randomness = {"number"}
  Salts = {"salt"}
  Issuers <- MCIssuers
  Seeds <- MCSeeds
  MaxAttempts = 0
  MaxTokens = 0
  MaxLogins = 0
  MaxSignatures = 0
  MaxDerived = 2
SPECIFICATION Spec
INVARIANTS
  AddressesDistinct
CHECK_DEADLOCK FALSE
