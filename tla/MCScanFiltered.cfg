CONSTANTS
  Pending = Pending
  AsciiTokens <- MCAsciiTokens
  Forms <- MCForms
  FilterSlots = 6
  ShuftiSizes = {1, 2, 3, 4, 5, 6}
  BucketSlots = 4
  PatternSets <- MCPatternSets
  Haystacks <- MCHaystacks
  InlineStarts = 2
  MinBytes = 2
SPECIFICATION Spec
INVARIANTS
  SkipsNoMatch
  RingKnowsStarts
PROPERTIES
  ImplementsFind
