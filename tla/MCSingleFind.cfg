CONSTANTS
  Pending = Pending
  AsciiTokens <- MCAsciiTokens
  Forms <- MCForms
  FilterSlots = 16
  ShuftiSizes = {4, 5, 6, 7, 8}
  BucketSlots = 8
  LongMin = 4
  InteriorMax = 64
  PairLens = {4, 5}
  PairAt = 2
  StaticMin = 4
  SampleMax = 3
  RunBlocks = {0, 2, 4}
  MaxParts = 4
  MaxDelta = 3
  Block = 3
  Inputs <- MCInputs
SPECIFICATION Spec
INVARIANT
  WidthIsExact
PROPERTY
  ImplementsFind
