CONSTANTS
  AsciiTokens <- MCAsciiTokens
  TokenBytes <- MCTokenBytes
  Inputs <- MCInputs
  SampleBytes = 4
  MaxHigh = 4
  LookaheadBytes = 16
  TailBytes = 3
  LongBytes = 16
SPECIFICATION Spec
INVARIANTS
  CutsBetweenUnits
  SingleIsLeftmost
  NothingLost
  ReportsMatch
  OnlyTrailingIsMissed
PROPERTY
  SpansMoveOn
