CONSTANTS
  AsciiTokens <- MCAsciiTokens
  Matchers <- MCPatternSets
  EachHaystacks <- MCHaystacks
SPECIFICATION FairEachSpec
PROPERTY ImplementsEach
PROPERTY EachReturns
