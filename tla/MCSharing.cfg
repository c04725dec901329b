CONSTANTS
  Secrets <- MCSecrets
  RandomBytes <- MCRandomBytes
  Parameters <- MCParameters
  Holders <- MCHolders
  Damages <- MCDamages
  Candidates <- MCCandidates
  MaxHanded = 4
SPECIFICATION Spec
INVARIANTS
  TypeOK
  Reconstructs
  RecoversEveryShare
  ReconstructionsAgree
  DamageShows
  HidesBelowThreshold
CHECK_DEADLOCK FALSE
