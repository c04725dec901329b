CONSTANTS
  U8Max = 3
  SeedLength = 2
  MaxHeader = 2
  MaxSigned = 6
  MaxAud = 1
  FieldNumbers = {"number"}
  AddressSeed <- MCAddressSeed
  Account <- MCAccount
  Forms <- MCForms
  Epochs = {100}
  Randomness = {"number", "letters"}
  Salts = {"salt"}
  Issuers = {}
  Seeds = {}
  MaxAttempts = 2
  MaxTokens = 2
  MaxLogins = 2
  MaxSignatures = 1
  MaxDerived = 0
SPECIFICATION Spec
INVARIANTS
  TypeOK
  OwnTokens
  AddressPerAccount
  SignatureHasAddress
  Ed25519LoginWorks
CHECK_DEADLOCK FALSE
