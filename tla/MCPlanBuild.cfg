CONSTANTS
  k = k
  K = K
  kelvin = kelvin
  s = s
  e = e
  E = E
  bad = bad
  NoTable = NoTable
  AsciiTokens = {}
  Letters <- MCLetters
  SimpleFold <- MCSimpleFold
  Width <- MCWidth
  PatternLists <- MCPatternLists
  MaxDense = 30
SPECIFICATION FairSpec
INVARIANTS
  TokensAreOrbits
  OutputIsPreferred
  PlanIsAutomaton
  WindowsCoverMatches
PROPERTIES
  EveryPlanIsBuilt
