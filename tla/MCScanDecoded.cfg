CONSTANTS
  Pending = Pending
  AsciiTokens <- MCAsciiTokens
  PatternSets <- MCPatternSets
  Haystacks <- MCHaystacks
  InlineStarts = 2
  Block = 2
  StaleStarts = {9}
SPECIFICATION FairSpec
INVARIANTS
  TypeOK
  StateTracksText
  BestOfSeen
  RingHolds
PROPERTIES
  ImplementsFind
  Terminates
