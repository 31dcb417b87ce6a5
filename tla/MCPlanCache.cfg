\* Three goroutines; scheduled fairly.
CONSTANTS
  a = a
  b = b
  lone = lone
  s1 = s1
  s2 = s2
  c1 = c1
  c2 = c2
  c3 = c3
  NoNeedle = NoNeedle
  NoEntry = NoEntry
  Needles <- MCNeedles
  Slots <- MCSlots
  SlotOf <- MCSlotOf
  Callers <- MCCallers
SPECIFICATION FairCacheSpec
INVARIANTS
  CacheTypeOK
  ReturnsOwnPlan
  RecentIsInItsSlot
PROPERTIES
  CompilesOnce
  ImplementsLookup
  FirstCallReturns
