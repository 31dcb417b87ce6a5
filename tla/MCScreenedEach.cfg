CONSTANTS
  AsciiTokens <- MCAsciiTokens
  Forms <- MCForms
  FilterSlots = 16
  ShuftiSizes = {4, 5, 6, 7, 8}
  BucketSlots = 8
  EachSizes = {3, 4, 5}
  EachMinBytes = 4
  CertSizes = {4, 5}
  CertMaxUnits = 5
  WordBytes = 2
  LongMin = 4
  InteriorMax = 64
  PairLens = {5}
  PairAt = 2
  Inputs <- MCLiteralInputs
  SetInputs <- MCSetInputs
SPECIFICATION Spec
INVARIANT
  VerdictIsRight
PROPERTY
  ImplementsEach
