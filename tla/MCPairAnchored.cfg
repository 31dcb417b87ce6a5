CONSTANTS
  Pending = Pending
  AsciiTokens <- MCAsciiTokens
  Forms <- MCForms
  FilterSlots = 16
  ShuftiSizes = {4, 5, 6, 7, 8}
  BucketSlots = 8
  AnchorSlots = 8
  MinBytes = 1
  PatternSets <- MCPatternSets
  Haystacks <- MCHaystacks
SPECIFICATION Spec
INVARIANTS
  BestSoFar
PROPERTIES
  ImplementsFind
