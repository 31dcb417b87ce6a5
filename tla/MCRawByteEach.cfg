CONSTANTS
  AsciiTokens <- MCRawAsciiTokens
  Forms <- MCRawForms
  FilterSlots = 16
  ShuftiSizes = {4, 5, 6, 7, 8}
  BucketSlots = 8
  LeadRows = 2
  NodeLimit = 96
  AnchorGroups = 8
  PairForms = 4
  StartOffsets = 4
  ConfirmGroups = 3
  UnitCapacity = 16
  OriginMinBytes = 9
  PatternSets <- MCPatternSets
  Haystacks <- MCHaystacks
SPECIFICATION Spec
INVARIANTS
  ReplayFollowsText
  AnchorsDecide
PROPERTIES
  ImplementsEach
