CONSTANTS
  AsciiTokens <- MCAsciiTokens
  TokenBytes <- MCTokenBytes
  Inputs <- MCSetsInputs
  SampleBytes = 4
  MaxHigh = 4
  LookaheadBytes = 16
  TailBytes = 3
  LongBytes = 16
SPECIFICATION Spec
INVARIANT LeftmostMatch
