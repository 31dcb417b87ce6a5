------------------------- MODULE PlainSearch_proofs -------------------------
(***************************************************************************)
(* The search that no filter screens, from its entry points to the kernels *)
(* below it.                                                               *)
(*                                                                         *)
(* IndexFold and ContainsFold search with a plan of their own needle, for  *)
(* any number of goroutines, needles and slots and for any hash            *)
(* (PlanCache).                                                            *)
(*                                                                         *)
(* The general loop of Matcher.Each implements its contract, for every     *)
(* pattern set and haystack: the cursor stays between units, empty matches *)
(* and matches wider or narrower than their patterns notwithstanding       *)
(* (MatcherEach).                                                          *)
(*                                                                         *)
(* The unfiltered executors find the leftmost match of the lowest index,   *)
(* for every pattern set, haystack, ring size and block size               *)
(* (ScanDecoded).                                                          *)
(*                                                                         *)
(* The wrappers of the kernels land where their screens say and load no    *)
(* byte behind the haystack, for every wrapper that BlockAssumption allows *)
(* and blocks of any size (BlockScan).                                     *)
(***************************************************************************)
EXTENDS PlanCache, MatcherEach, ScanDecoded, BlockScan, FoldPlan_proofs

-----------------------------------------------------------------------------
(***************************************************************************)
(* The inductive invariant.  TypeOK and ReturnsOwnPlan are not inductive:  *)
(* one has to know of every entry, wherever it is, that its plan belongs   *)
(* to its needle, and of every caller what its location says of its local  *)
(* entry.                                                                  *)
(***************************************************************************)
Sound(e) == e # NoEntry => e.plan = e.needle

EntriesSound ==
  /\ Sound(recent)
  /\ \A i \in Slots : Sound(slot[i])
  /\ \A c \in Callers : Sound(entry[c])

\* Where the local entry is set, it is one for the needle of the call.
HasEntry == {"warmRecent", "storeSlot", "storeRecent", "return"}

LocalsOK ==
  \A c \in Callers :
    /\ pc[c] = "idle" <=> want[c] = NoNeedle
    /\ pc[c] \in HasEntry => entry[c] # NoEntry /\ entry[c].needle = want[c]

\* The unshared needles whose plan is, or was once, in the cache.
Published ==
  /\ RecentIsInItsSlot
  /\ \A c \in Callers :
       pc[c] \in {"warmRecent", "storeRecent"} /\ want[c] \in Unshared
         => Cached(want[c])
  /\ \A c \in Callers : \A n \in missed[c] :
       n \in Unshared /\ (Cached(n) \/ (pc[c] = "storeSlot" /\ want[c] = n))

CacheIInv == CacheTypeOK /\ EntriesSound /\ LocalsOK /\ DirectMapped /\ Published

(***************************************************************************)
(* The variables keep their types.  LoadSlot and Compile use the argument  *)
(* of the call, which LocalsOK says there is.                              *)
(***************************************************************************)
LEMMA TypeStep == CacheTypeOK /\ LocalsOK /\ [CacheNext]_cacheVars => CacheTypeOK'
<1> SUFFICES ASSUME CacheTypeOK, LocalsOK, [CacheNext]_cacheVars PROVE CacheTypeOK'
  OBVIOUS
<1> USE CacheAssumption DEF CacheTypeOK, Locations, Goto
<1>1. CASE UNCHANGED cacheVars
  BY <1>1 DEF cacheVars
<1>2. ASSUME NEW c \in Callers, Call(c) PROVE CacheTypeOK'
  BY <1>2 DEF Call
<1>3. ASSUME NEW c \in Callers, LoadRecent(c) PROVE CacheTypeOK'
  BY <1>3 DEF LoadRecent, Hit
<1>4. ASSUME NEW c \in Callers, LoadSlot(c) PROVE CacheTypeOK'
  <2>1. want[c] \in Needles
    BY <1>4 DEF LoadSlot, LocalsOK
  <2>2. slot[SlotOf[want[c]]] \in Entries \cup {NoEntry}
    BY <2>1
  <2>3. entry' \in [Callers -> Entries \cup {NoEntry}]
    BY <1>4, <2>2 DEF LoadSlot
  <2>4. pc' \in [Callers -> Locations]
    BY <1>4 DEF LoadSlot
  <2> QED BY <1>4, <2>3, <2>4 DEF LoadSlot
<1>5. ASSUME NEW c \in Callers, WarmRecent(c) PROVE CacheTypeOK'
  BY <1>5 DEF WarmRecent
<1>6. ASSUME NEW c \in Callers, Compile(c) PROVE CacheTypeOK'
  <2>1. want[c] \in Needles
    BY <1>6 DEF Compile, LocalsOK
  <2>2. [needle |-> want[c], plan |-> want[c]] \in Entries
    BY <2>1 DEF Entries
  <2>3. entry' \in [Callers -> Entries \cup {NoEntry}]
    BY <1>6, <2>2 DEF Compile
  <2>4. missed' \in [Callers -> SUBSET Needles]
    BY <1>6 DEF Compile, Unshared
  <2> QED BY <1>6, <2>3, <2>4 DEF Compile
<1>7. ASSUME NEW c \in Callers, StoreSlot(c) PROVE CacheTypeOK'
  BY <1>7 DEF StoreSlot
<1>8. ASSUME NEW c \in Callers, StoreRecent(c) PROVE CacheTypeOK'
  BY <1>8 DEF StoreRecent
<1>9. ASSUME NEW c \in Callers, Return(c) PROVE CacheTypeOK'
  BY <1>9 DEF Return
<1> QED
  BY <1>1, <1>2, <1>3, <1>4, <1>5, <1>6, <1>7, <1>8, <1>9 DEF CacheNext, Step

(***************************************************************************)
(* A caller changes its own location, argument and local entry only.       *)
(***************************************************************************)
LEMMA LocalsStep == CacheTypeOK /\ LocalsOK /\ [CacheNext]_cacheVars => LocalsOK'
<1> SUFFICES ASSUME CacheTypeOK, LocalsOK, [CacheNext]_cacheVars PROVE LocalsOK'
  OBVIOUS
<1> USE CacheAssumption DEF CacheTypeOK, LocalsOK, HasEntry, Goto
<1>1. CASE UNCHANGED cacheVars
  BY <1>1 DEF cacheVars
<1>2. ASSUME NEW c \in Callers, Call(c) PROVE LocalsOK'
  BY <1>2 DEF Call
<1>3. ASSUME NEW c \in Callers, LoadRecent(c) PROVE LocalsOK'
  BY <1>3 DEF LoadRecent, Hit
<1>4. ASSUME NEW c \in Callers, LoadSlot(c) PROVE LocalsOK'
  BY <1>4 DEF LoadSlot, Hit
<1>5. ASSUME NEW c \in Callers, WarmRecent(c) PROVE LocalsOK'
  BY <1>5 DEF WarmRecent
<1>6. ASSUME NEW c \in Callers, Compile(c) PROVE LocalsOK'
  <2>1. [needle |-> want[c], plan |-> want[c]] \in Entries
    BY <1>6 DEF Compile, Entries
  <2>2. [needle |-> want[c], plan |-> want[c]] # NoEntry
    BY <2>1
  <2> QED BY <1>6, <2>2 DEF Compile
<1>7. ASSUME NEW c \in Callers, StoreSlot(c) PROVE LocalsOK'
  BY <1>7 DEF StoreSlot
<1>8. ASSUME NEW c \in Callers, StoreRecent(c) PROVE LocalsOK'
  BY <1>8 DEF StoreRecent
<1>9. ASSUME NEW c \in Callers, Return(c) PROVE LocalsOK'
  BY <1>9 DEF Return
<1> QED
  BY <1>1, <1>2, <1>3, <1>4, <1>5, <1>6, <1>7, <1>8, <1>9 DEF CacheNext, Step

(***************************************************************************)
(* Entries are copied from one place to another; only Compile makes one,   *)
(* and gives it the plan of its needle.                                    *)
(***************************************************************************)
LEMMA EntriesStep ==
  CacheTypeOK /\ LocalsOK /\ EntriesSound /\ [CacheNext]_cacheVars => EntriesSound'
<1> SUFFICES ASSUME CacheTypeOK, LocalsOK, EntriesSound, [CacheNext]_cacheVars PROVE EntriesSound'
  OBVIOUS
<1> USE CacheAssumption DEF CacheTypeOK, EntriesSound, Sound
<1>1. CASE UNCHANGED cacheVars
  BY <1>1 DEF cacheVars
<1>2. ASSUME NEW c \in Callers, Call(c) PROVE EntriesSound'
  BY <1>2 DEF Call
<1>3. ASSUME NEW c \in Callers, LoadRecent(c) PROVE EntriesSound'
  BY <1>3 DEF LoadRecent
<1>4. ASSUME NEW c \in Callers, LoadSlot(c) PROVE EntriesSound'
  <2>1. SlotOf[want[c]] \in Slots
    BY <1>4 DEF LoadSlot, LocalsOK
  <2> QED BY <1>4, <2>1 DEF LoadSlot
<1>5. ASSUME NEW c \in Callers, WarmRecent(c) PROVE EntriesSound'
  BY <1>5 DEF WarmRecent
<1>6. ASSUME NEW c \in Callers, Compile(c) PROVE EntriesSound'
  BY <1>6 DEF Compile
<1>7. ASSUME NEW c \in Callers, StoreSlot(c) PROVE EntriesSound'
  BY <1>7 DEF StoreSlot
<1>8. ASSUME NEW c \in Callers, StoreRecent(c) PROVE EntriesSound'
  BY <1>8 DEF StoreRecent
<1>9. ASSUME NEW c \in Callers, Return(c) PROVE EntriesSound'
  BY <1>9 DEF Return
<1> QED
  BY <1>1, <1>2, <1>3, <1>4, <1>5, <1>6, <1>7, <1>8, <1>9 DEF CacheNext, Step

(***************************************************************************)
(* What the two Stores leave in the slots and in recent.                   *)
(***************************************************************************)
LEMMA SlotsStep ==
  CacheTypeOK /\ LocalsOK /\ DirectMapped /\ [CacheNext]_cacheVars => DirectMapped'
<1> SUFFICES ASSUME CacheTypeOK, LocalsOK, DirectMapped, [CacheNext]_cacheVars PROVE DirectMapped'
  OBVIOUS
<1> USE CacheAssumption DEF CacheTypeOK, DirectMapped
<1>1. ASSUME NEW c \in Callers, StoreSlot(c) PROVE DirectMapped'
  <2>1. entry[c].needle = want[c]
    BY <1>1 DEF StoreSlot, LocalsOK, HasEntry
  <2>2. slot' = [slot EXCEPT ![SlotOf[want[c]]] = entry[c]]
    BY <1>1 DEF StoreSlot
  <2> QED BY <2>1, <2>2
<1>2. CASE UNCHANGED slot
  BY <1>2
<1> QED
  BY <1>1, <1>2 DEF CacheNext, Step, cacheVars, Call, LoadRecent, LoadSlot, WarmRecent,
                    Compile, StoreRecent, Return

\* An unshared needle that is in its slot stays there: StoreSlot alone writes
\* slots, and writes that slot for no other needle.
LEMMA CachedStays ==
  ASSUME CacheTypeOK, LocalsOK, [CacheNext]_cacheVars, NEW n \in Unshared, Cached(n)
  PROVE  Cached(n)'
<1> USE CacheAssumption DEF CacheTypeOK, Cached, Unshared
<1>1. ASSUME NEW c \in Callers, StoreSlot(c) PROVE Cached(n)'
  <2>1. /\ entry[c] # NoEntry
        /\ entry[c].needle = want[c]
        /\ want[c] \in Needles
    BY <1>1 DEF StoreSlot, LocalsOK, HasEntry
  <2>2. slot' = [slot EXCEPT ![SlotOf[want[c]]] = entry[c]]
    BY <1>1 DEF StoreSlot
  <2>3. CASE SlotOf[want[c]] = SlotOf[n]
    BY <2>1, <2>2, <2>3
  <2>4. CASE SlotOf[want[c]] # SlotOf[n]
    BY <2>2, <2>4
  <2> QED BY <2>3, <2>4
<1>2. CASE UNCHANGED slot
  BY <1>2
<1> QED
  BY <1>1, <1>2 DEF CacheNext, Step, cacheVars, Call, LoadRecent, LoadSlot, WarmRecent,
                    Compile, StoreRecent, Return

LEMMA PublishedStep ==
  CacheTypeOK /\ LocalsOK /\ DirectMapped /\ Published /\ [CacheNext]_cacheVars => Published'
<1> SUFFICES ASSUME CacheTypeOK, LocalsOK, Published, [CacheNext]_cacheVars PROVE Published'
  OBVIOUS
<1>0. \A n \in Unshared : Cached(n) => Cached(n)'
  BY CachedStays
<1>a. \A n \in Unshared : n \in Needles
  BY DEF Unshared
<1> USE CacheAssumption, <1>0, <1>a DEF CacheTypeOK, Published, RecentIsInItsSlot
<1>1. CASE UNCHANGED cacheVars
  BY <1>1 DEF cacheVars, Cached
<1>2. ASSUME NEW c \in Callers, Call(c) PROVE Published'
  BY <1>2 DEF Call, Goto
<1>3. ASSUME NEW c \in Callers, LoadRecent(c) PROVE Published'
  BY <1>3 DEF LoadRecent, Goto
<1>4. ASSUME NEW c \in Callers, LoadSlot(c) PROVE Published'
  <2>1. pc'[c] = "warmRecent" => Cached(want[c])
    BY <1>4 DEF LoadSlot, Hit, Cached, Goto
  <2> QED BY <1>4, <2>1 DEF LoadSlot, Goto
<1>5. ASSUME NEW c \in Callers, WarmRecent(c) PROVE Published'
  <2>1. entry[c].needle = want[c]
    BY <1>5 DEF WarmRecent, LocalsOK, HasEntry
  <2> QED BY <1>5, <2>1 DEF WarmRecent, Goto
<1>6. ASSUME NEW c \in Callers, Compile(c) PROVE Published'
  <2>1. \A d \in Callers : missed'[d] \subseteq missed[d] \cup ({want[c]} \cap Unshared)
    BY <1>6 DEF Compile
  <2>2. \A d \in Callers : d # c => missed'[d] = missed[d]
    BY <1>6 DEF Compile
  <2>3. /\ pc' = [pc EXCEPT ![c] = "storeSlot"] /\ want' = want /\ recent' = recent
        /\ pc[c] = "compile"
    BY <1>6 DEF Compile, Goto
  <2>4. \A d \in Callers : \A n \in missed'[d] :
          n \in Unshared /\ (Cached(n)' \/ (pc'[d] = "storeSlot" /\ want'[d] = n))
    BY <2>1, <2>2, <2>3
  <2> QED BY <2>3, <2>4
<1>7. ASSUME NEW c \in Callers, StoreSlot(c) PROVE Published'
  <2>1. /\ entry[c] # NoEntry
        /\ entry[c].needle = want[c]
        /\ want[c] \in Needles
    BY <1>7 DEF StoreSlot, LocalsOK, HasEntry
  <2>2. Cached(want[c])'
    BY <1>7, <2>1 DEF StoreSlot, Cached
  <2> QED BY <1>7, <2>2 DEF StoreSlot, Goto
<1>8. ASSUME NEW c \in Callers, StoreRecent(c) PROVE Published'
  <2>1. entry[c].needle = want[c]
    BY <1>8 DEF StoreRecent, LocalsOK, HasEntry
  <2> QED BY <1>8, <2>1 DEF StoreRecent, Goto
<1>9. ASSUME NEW c \in Callers, Return(c) PROVE Published'
  BY <1>9 DEF Return, Goto
<1> QED
  BY <1>1, <1>2, <1>3, <1>4, <1>5, <1>6, <1>7, <1>8, <1>9 DEF CacheNext, Step

LEMMA CacheInitHolds == CacheInit => CacheIInv
BY CacheAssumption DEF CacheInit, CacheIInv, CacheTypeOK, Locations, EntriesSound, Sound,
   LocalsOK, HasEntry, DirectMapped, Published, RecentIsInItsSlot

-----------------------------------------------------------------------------
(***************************************************************************)
(* The inductive invariant holds of every reachable state, whatever the    *)
(* interleaving of the callers of cachedSinglePlan.                        *)
(***************************************************************************)
THEOREM CacheInvariance == CacheSpec => []CacheIInv
<1>1. CacheIInv /\ [CacheNext]_cacheVars => CacheIInv'
  BY TypeStep, LocalsStep, EntriesStep, SlotsStep, PublishedStep DEF CacheIInv
<1> QED BY CacheInitHolds, <1>1, PTL DEF CacheSpec

(***************************************************************************)
(* Type correctness of the cache's state.                                  *)
(***************************************************************************)
THEOREM CacheTypeCorrect == CacheSpec => []CacheTypeOK
<1>1. CacheIInv => CacheTypeOK
  BY DEF CacheIInv
<1> QED BY CacheInvariance, <1>1, PTL

(***************************************************************************)
(* A call of cachedSinglePlan is answered with a plan of its own needle.   *)
(***************************************************************************)
THEOREM AnswersRight == CacheSpec => []ReturnsOwnPlan
<1>1. CacheIInv => ReturnsOwnPlan
  BY DEF CacheIInv, EntriesSound, Sound, LocalsOK, HasEntry, ReturnsOwnPlan
<1> QED BY CacheInvariance, <1>1, PTL

(***************************************************************************)
(* Slots hold what hashes to them, and recent never holds the only copy.   *)
(***************************************************************************)
THEOREM StoresInPlace == CacheSpec => [](DirectMapped /\ RecentIsInItsSlot)
<1>1. CacheIInv => DirectMapped /\ RecentIsInItsSlot
  BY DEF CacheIInv, Published
<1> QED BY CacheInvariance, <1>1, PTL

(***************************************************************************)
(* No caller compiles twice a needle without a colliding one.              *)
(***************************************************************************)
THEOREM CompilesAtMostOnce == CacheSpec => CompilesOnce
<1> DEFINE Once ==
      \A c \in Callers :
        pc[c] = "loadSlot" /\ pc'[c] = "compile" /\ want[c] \in Unshared
          => want[c] \notin missed[c]
<1>1. CacheIInv /\ [CacheNext]_cacheVars => Once
  <2> SUFFICES ASSUME CacheIInv, [CacheNext]_cacheVars, NEW c \in Callers,
                      pc[c] = "loadSlot", pc'[c] = "compile"
               PROVE  want[c] \notin missed[c]
    OBVIOUS
  <2>1. LoadSlot(c)
    <3>1. \A d \in Callers : (Call(d) \/ Step(d) \/ Return(d)) => d = c
      BY DEF Step, Call, LoadRecent, LoadSlot, WarmRecent, Compile, StoreSlot,
             StoreRecent, Return, Goto, CacheIInv, CacheTypeOK
    <3>2. Call(c) \/ Step(c) \/ Return(c)
      BY <3>1 DEF CacheNext, cacheVars
    <3> QED BY <3>2 DEF Step, Call, LoadRecent, WarmRecent, Compile, StoreSlot,
               StoreRecent, Return
  <2>2. ~Cached(want[c])
    BY <2>1 DEF LoadSlot, Hit, Cached, Goto, CacheIInv, CacheTypeOK
  <2> QED BY <2>2 DEF CacheIInv, Published
<1>2. CacheIInv /\ [CacheNext]_cacheVars => [Once]_cacheVars
  BY <1>1
<1> QED BY CacheInvariance, <1>2, PTL DEF CacheSpec, CompilesOnce

-----------------------------------------------------------------------------
(***************************************************************************)
(* The cache implements the lookup contract: Call asks, Return returns,    *)
(* the three steps that reach "return" answer, the others are invisible.   *)
(***************************************************************************)
THEOREM CacheRefinement == CacheSpec => ImplementsLookup
<1> DEFINE answers == [c \in Callers |->
                         IF pc[c] = "return" THEN entry[c].plan ELSE NoNeedle]
<1>1. CacheInit => Lookup!Init
  BY DEF CacheInit, Lookup!Init
<1>2. CacheIInv /\ [CacheNext]_cacheVars => [Lookup!Next]_(Lookup!vars)
  <2> SUFFICES ASSUME CacheIInv, [CacheNext]_cacheVars PROVE [Lookup!Next]_(Lookup!vars)
    OBVIOUS
  <2>0. /\ CacheTypeOK
        /\ \A c \in Callers :
             pc[c] \in HasEntry => /\ entry[c] # NoEntry
                                   /\ entry[c].plan = want[c]
                                   /\ want[c] \in Needles
    BY DEF CacheIInv, EntriesSound, Sound, LocalsOK, HasEntry, CacheTypeOK
  <2> USE CacheAssumption, <2>0
  <2>1. CASE UNCHANGED cacheVars
    BY <2>1 DEF cacheVars, Lookup!vars
  <2>2. ASSUME NEW c \in Callers, Call(c) PROVE Lookup!Next
    <3>1. PICK n \in Needles :
            /\ pc[c] = "idle"
            /\ want' = [want EXCEPT ![c] = n]
            /\ pc' = [pc EXCEPT ![c] = "loadRecent"]
            /\ entry' = entry
      BY <2>2 DEF Call, Goto
    <3>2. want[c] = NoNeedle
      BY <3>1 DEF CacheIInv, LocalsOK
    <3>3. answers' = answers
      BY <3>1 DEF CacheTypeOK
    <3> QED BY <3>1, <3>2, <3>3 DEF Lookup!Next, Lookup!Ask
  <2>3. ASSUME NEW c \in Callers, pc[c] \notin {"idle", "return"}, want' = want,
               pc' = [pc EXCEPT ![c] = "return"],
               \A d \in Callers \ {c} : entry'[d] = entry[d],
               entry'[c].plan = want[c]
        PROVE  Lookup!Next
    <3>1. want[c] \in Needles
      BY <2>3 DEF CacheIInv, LocalsOK, CacheTypeOK
    <3>2. answers' = [answers EXCEPT ![c] = want[c]]
      BY <2>3 DEF CacheTypeOK
    <3>3. answers[c] = NoNeedle
      BY <2>3
    <3> QED BY <2>3, <3>1, <3>2, <3>3 DEF Lookup!Next, Lookup!Answer
  <2>4. ASSUME NEW c \in Callers, pc[c] # "return", want' = want,
               NEW l \in Locations \ {"return"}, pc' = [pc EXCEPT ![c] = l],
               \A d \in Callers \ {c} : entry'[d] = entry[d]
        PROVE  UNCHANGED Lookup!vars
    <3>1. answers' = answers
      BY <2>4 DEF CacheTypeOK
    <3> QED BY <2>4, <3>1 DEF Lookup!vars
  <2>5. ASSUME NEW c \in Callers, LoadRecent(c) PROVE [Lookup!Next]_(Lookup!vars)
    <3>1. CASE Hit(recent, want[c])
      <4>1. entry' = [entry EXCEPT ![c] = recent] /\ recent.plan = want[c]
        BY <2>5, <3>1 DEF LoadRecent, Hit, CacheIInv, EntriesSound, Sound
      <4> QED BY <2>3, <2>5, <3>1, <4>1 DEF LoadRecent, Goto, CacheTypeOK
    <3>2. CASE ~Hit(recent, want[c])
      BY <2>4, <2>5, <3>2 DEF LoadRecent, Goto, Locations
    <3> QED BY <3>1, <3>2
  <2>6. ASSUME NEW c \in Callers, LoadSlot(c) PROVE UNCHANGED Lookup!vars
    BY <2>4, <2>6 DEF LoadSlot, Goto, Locations, CacheTypeOK
  <2>7. ASSUME NEW c \in Callers, WarmRecent(c) \/ StoreRecent(c) PROVE Lookup!Next
    BY <2>3, <2>7 DEF WarmRecent, StoreRecent, Goto, HasEntry
  <2>8. ASSUME NEW c \in Callers, Compile(c) \/ StoreSlot(c) PROVE UNCHANGED Lookup!vars
    BY <2>4, <2>8 DEF Compile, StoreSlot, Goto, Locations, CacheTypeOK
  <2>9. ASSUME NEW c \in Callers, Return(c) PROVE Lookup!Next
    <3>1. /\ pc[c] = "return"
          /\ want' = [want EXCEPT ![c] = NoNeedle]
          /\ pc' = [pc EXCEPT ![c] = "idle"]
          /\ entry' = [entry EXCEPT ![c] = NoEntry]
      BY <2>9 DEF Return, Goto
    <3>2. answers[c] # NoNeedle
      BY <3>1 DEF HasEntry
    <3>3. answers' = [answers EXCEPT ![c] = NoNeedle]
      BY <3>1 DEF CacheTypeOK
    <3> QED BY <3>1, <3>2, <3>3 DEF Lookup!Next, Lookup!Return
  <2> QED
    BY <2>1, <2>2, <2>5, <2>6, <2>7, <2>8, <2>9 DEF CacheNext, Step
<1> QED BY CacheInvariance, <1>1, <1>2, PTL DEF CacheSpec, ImplementsLookup, Lookup!Spec

-----------------------------------------------------------------------------
(***************************************************************************)
(* The loop of Matcher.Each.                                               *)
(***************************************************************************)
EachTyped ==
  /\ IsPatternSet(patterns) /\ IsHaystack(haystack)
  /\ bytewise \in BOOLEAN
  /\ bytewise => ByteUnits(haystack)
  /\ stage \in {"find", "yield", "done"}
  /\ stage # "done" => result = "none"

\* The cursor is where the unit starts that the contract goes on with.
CursorBetweenUnits ==
  stage # "done" => Resumed \in 0..haystack.n /\ position = haystack.off[Resumed]

\* What is yielded next is the contract's next match, with its width.
Yields(id, u) ==
  /\ Enumeration!IsNext(Resumed, id, u)
  /\ match = [pattern |-> id, start |-> haystack.off[u]]
  /\ width = haystack.off[u + Len(patterns[id])] - haystack.off[u]

YieldsNext ==
  stage = "yield" => \E id \in Ids(patterns), u \in Resumed..haystack.n : Yields(id, u)

EachIInv == EachTyped /\ CursorBetweenUnits /\ YieldsNext

-----------------------------------------------------------------------------
\* The contract's vocabulary is that of the loop.
LEMMA EachVocabulary ==
  /\ Enumeration!IsPatternSet(patterns) <=> IsPatternSet(patterns)
  /\ Enumeration!IsHaystack(haystack) <=> IsHaystack(haystack)
  /\ Enumeration!Ids(patterns) = Ids(patterns)
  /\ Enumeration!NoYield = NoYield
  /\ \A id, u : Enumeration!Occurs(patterns, haystack, id, u) <=> Occurs(patterns, haystack, id, u)
  /\ \A u, id, v, other : Enumeration!Before(u, id, v, other) <=> Before(u, id, v, other)
BY DEF Enumeration!IsPatternSet, IsPatternSet, Enumeration!Token, Token,
       Enumeration!IsHaystack, IsHaystack, Enumeration!Ids, Ids, Enumeration!NoYield, NoYield,
       Enumeration!Occurs, Occurs, Enumeration!Before, Before

LEMMA HaystackTyped ==
  ASSUME EachTyped
  PROVE  /\ haystack.n \in Nat /\ Bytes(haystack) \in Nat
         /\ haystack.off[0] = 0 /\ Bytes(haystack) = haystack.off[haystack.n]
         /\ \A u \in 0..haystack.n : haystack.off[u] \in 0..Bytes(haystack)
         /\ \A u \in 0..haystack.n : haystack.off[u] = Bytes(haystack) => u = haystack.n
         /\ \A u, v \in 0..haystack.n : u < v => haystack.off[u] < haystack.off[v]
         /\ Ids(patterns) \subseteq Nat
         /\ \A id \in Ids(patterns) : Len(patterns[id]) \in Nat
<1>1. IsHaystack(haystack) /\ IsPatternSet(patterns)
  BY DEF EachTyped
<1>2. haystack.n \in Nat /\ Bytes(haystack) \in Nat
  BY <1>1 DEF IsHaystack, Bytes
<1>3. /\ \A u \in 0..haystack.n : haystack.off[u] \in 0..Bytes(haystack)
      /\ \A u \in 0..haystack.n : haystack.off[u] = Bytes(haystack) => u = haystack.n
  BY <1>1, OffTyped
<1>4. /\ haystack.off[0] = 0 /\ Bytes(haystack) = haystack.off[haystack.n]
      /\ \A u, v \in 0..haystack.n : u < v => haystack.off[u] < haystack.off[v]
  BY <1>1 DEF IsHaystack, Bytes
<1>5. Ids(patterns) \subseteq Nat /\ \A id \in Ids(patterns) : Len(patterns[id]) \in Nat
  BY <1>1 DEF IsPatternSet, Ids
<1> QED BY <1>2, <1>3, <1>4, <1>5

\* The end of so many units is a boundary again.
LEMMA MatchEndIs ==
  ASSUME EachTyped, NEW u \in 0..haystack.n, NEW units \in Nat, u + units <= haystack.n
  PROVE  MatchEnd(haystack.off[u], units) = haystack.off[u + units]
<1>1. UnitAt(haystack, haystack.off[u]) = u
  BY UnitAtOff DEF EachTyped
<1> QED BY <1>1 DEF MatchEnd

\* The width of a match is that of its units, in folded and in exact plans.
LEMMA WidthIs ==
  ASSUME EachTyped, NEW id \in Ids(patterns), NEW u \in 0..haystack.n, Occurs(patterns, haystack, id, u)
  PROVE  /\ u + Len(patterns[id]) \in 0..haystack.n
         /\ WidthOf([pattern |-> id, start |-> haystack.off[u]])
              = haystack.off[u + Len(patterns[id])] - haystack.off[u]
<1> DEFINE units == Len(patterns[id])
<1>1. units \in Nat /\ haystack.n \in Nat /\ u + units <= haystack.n
  BY HaystackTyped DEF Occurs
<1>2. u + units \in 0..haystack.n
  BY <1>1
<1>3. CASE bytewise
  <2>1. haystack.off[u] = u /\ haystack.off[u + units] = u + units
    BY <1>2, <1>3, ByteUnitsOff DEF EachTyped, ByteUnits
  <2> QED BY <1>1, <1>2, <1>3, <2>1 DEF WidthOf
<1>4. CASE ~bytewise
  BY <1>1, <1>2, <1>4, MatchEndIs DEF WidthOf
<1> QED BY <1>2, <1>3, <1>4

\* Behind a match that is not empty the search resumes at its end.
LEMMA ResumedBehind ==
  ASSUME EachTyped, NEW u \in 0..haystack.n, NEW e \in 0..haystack.n, NEW l,
         l.start = haystack.off[u], l.width = haystack.off[e] - haystack.off[u]
  PROVE  (CHOOSE w \in 0..haystack.n :
            /\ l.start + l.width <= haystack.off[w]
            /\ \A v \in 0..(w - 1) : haystack.off[v] < l.start + l.width) = e
<1>1. haystack.n \in Nat /\ \A w \in 0..haystack.n : haystack.off[w] \in Nat
  BY HaystackTyped
<1>2. l.start + l.width = haystack.off[e]
  BY <1>1
<1>3. ASSUME NEW v \in 0..(e - 1) PROVE haystack.off[v] < haystack.off[e]
  BY <1>1, HaystackTyped
<1>4. ASSUME NEW w \in 0..haystack.n, haystack.off[e] <= haystack.off[w],
             \A v \in 0..(w - 1) : haystack.off[v] < haystack.off[e]
      PROVE  w = e
  <2>1. ~(w < e)
    <3>1. w < e => haystack.off[w] < haystack.off[e]
      BY <1>1, HaystackTyped
    <3> QED BY <1>1, <1>4, <3>1
  <2>2. ~(e < w)
    <3>1. e < w => e \in 0..(w - 1)
      BY <1>1
    <3> QED BY <1>1, <1>4, <3>1
  <2> QED BY <1>1, <2>1, <2>2
<1> QED BY <1>1, <1>2, <1>3, <1>4

-----------------------------------------------------------------------------
LEMMA EachInitHolds ==
  ASSUME EachAssumption, EachInit
  PROVE  EachIInv
<1>1. EachTyped
  BY DEF EachInit, EachAssumption, EachTyped
<1>2. Resumed = 0
  BY DEF EachInit, Resumed
<1> QED BY <1>1, <1>2, HaystackTyped DEF EachInit, EachIInv, CursorBetweenUnits, YieldsNext

\* The part that is searched begins at the unit the contract goes on with.
LEMMA SearchesTheRest ==
  ASSUME EachIInv, Find
  PROVE  /\ Resumed \in 0..haystack.n /\ position = haystack.off[Resumed]
         /\ UnitAt(haystack, position) = Resumed
         /\ IsPatternSet(patterns) /\ IsHaystack(haystack) /\ haystack.n \in 0..haystack.n
<1>1. Resumed \in 0..haystack.n /\ position = haystack.off[Resumed] /\ EachTyped
  BY DEF EachIInv, Find, CursorBetweenUnits
<1>2. haystack.n \in 0..haystack.n
  BY <1>1, HaystackTyped
<1> QED BY <1>1, <1>2, UnitAtOff DEF EachTyped

LEMMA FindKeeps ==
  ASSUME EachAssumption, EachIInv, Find, stage' = "yield"
  PROVE  EachIInv'
<1> DEFINE r == Resumed
           rest == Part(haystack, r, haystack.n)
<1>0. /\ r \in 0..haystack.n /\ position = haystack.off[r] /\ UnitAt(haystack, position) = r
      /\ IsPatternSet(patterns) /\ IsHaystack(haystack) /\ haystack.n \in 0..haystack.n /\ EachTyped
  BY SearchesTheRest DEF EachIInv
<1>1. UNCHANGED <<args, position, turn, last>> /\ Resumed' = r
  BY DEF Find, args, Resumed
<1>2. PICK m \in Answers(patterns, rest) \ {NoMatch} :
        /\ IsAnswer(patterns, rest, m)
        /\ match' = [m EXCEPT !.start = @ + position]
        /\ width' = WidthOf(match')
        /\ UNCHANGED result
  <2> HIDE DEF r
  <2> QED BY <1>0 DEF Find, r
<1> HIDE DEF r
<1>3. PICK id \in Ids(patterns), u \in r..haystack.n :
        /\ m = [pattern |-> id, start |-> haystack.off[u] - haystack.off[r]]
        /\ Inside(patterns, haystack, r, haystack.n, id, u)
        /\ \A other \in Ids(patterns), v \in 0..haystack.n :
             Inside(patterns, haystack, r, haystack.n, other, v) => Before(u, id, v, other)
  BY <1>0, <1>2, AnswerInPart
<1>4. u \in 0..haystack.n /\ haystack.n \in Nat /\ r \in Nat
  BY <1>0, HaystackTyped
<1>5. match' = [pattern |-> id, start |-> haystack.off[u]]
  <2>1. haystack.off[u] - haystack.off[r] + position = haystack.off[u]
    BY <1>0, <1>4, HaystackTyped
  <2> QED BY <1>2, <1>3, <2>1
<1>6. r <= u /\ Occurs(patterns, haystack, id, u)
  BY <1>3 DEF Inside
<1>7. width' = haystack.off[u + Len(patterns[id])] - haystack.off[u]
  BY <1>0, <1>2, <1>4, <1>5, <1>6, WidthIs
<1>8. Enumeration!IsNext(r, id, u)
  <2>1. ASSUME NEW other \in Ids(patterns), NEW v \in r..haystack.n, Occurs(patterns, haystack, other, v)
        PROVE  Before(u, id, v, other)
    <3>1. v \in 0..haystack.n /\ r <= v
      BY <1>4
    <3>2. v + Len(patterns[other]) <= haystack.n
      BY <2>1 DEF Occurs
    <3> QED BY <1>3, <2>1, <3>1, <3>2 DEF Inside
  <2> QED BY <1>6, <2>1, EachVocabulary DEF Enumeration!IsNext
<1>9. EachTyped'
  BY <1>0, <1>1, <1>2 DEF EachTyped, args, Find
<1>10. CursorBetweenUnits'
  BY <1>0, <1>1 DEF CursorBetweenUnits, args
<1>11. YieldsNext'
  <2>1. Enumeration!IsNext(r, id, u)'
    BY <1>1, <1>8, EachVocabulary DEF Enumeration!IsNext, args, r
  <2>2. patterns' = patterns /\ haystack' = haystack /\ u \in Resumed'..haystack'.n
    BY <1>1 DEF args
  <2>3. Enumeration!IsNext(Resumed, id, u)'
    BY <2>1 DEF r
  <2>4. Yields(id, u)'
    BY <1>5, <1>7, <2>2, <2>3 DEF Yields
  <2> QED BY <2>2, <2>4 DEF YieldsNext, Ids
<1> QED BY <1>9, <1>10, <1>11 DEF EachIInv

\* A match of no units, and no other, is of no bytes; and what is yielded moves
\* the contract's unit behind it.
LEMMA YieldMovesOn ==
  ASSUME EachIInv, Yielded, UNCHANGED args
  PROVE  \E id \in Ids(patterns), u \in Resumed..haystack.n : \E units \in Nat :
           /\ units = Len(patterns[id]) /\ Enumeration!IsNext(Resumed, id, u)
           /\ u \in 0..haystack.n /\ u + units \in 0..haystack.n
           /\ match.start = haystack.off[u]
           /\ width = 0 <=> units = 0
           /\ width # 0 => match.start + width = haystack.off[u + units]
           /\ last' = [pattern |-> id, start |-> haystack.off[u],
                       width |-> haystack.off[u + units] - haystack.off[u]]
           /\ Resumed' = IF units = 0 THEN u + 1 ELSE u + units
<1> PICK id \in Ids(patterns), u \in Resumed..haystack.n : Yields(id, u)
  BY DEF EachIInv, YieldsNext, Yielded
<1> DEFINE units == Len(patterns[id])
<1>0. /\ EachTyped /\ Resumed \in 0..haystack.n /\ units \in Nat /\ haystack.n \in Nat
      /\ IsPatternSet(patterns) /\ IsHaystack(haystack)
  BY HaystackTyped DEF EachIInv, CursorBetweenUnits, Yielded, EachTyped
<1>1. u \in 0..haystack.n /\ u \in Nat
  BY <1>0
<1>2. Occurs(patterns, haystack, id, u)
  BY EachVocabulary DEF Yields, Enumeration!IsNext
<1>3. u + units \in 0..haystack.n
  BY <1>0, <1>1, <1>2 DEF Occurs
<1>4. match = [pattern |-> id, start |-> haystack.off[u]] /\ width = haystack.off[u + units] - haystack.off[u]
  BY DEF Yields
<1>5. haystack.off[u] \in Nat /\ haystack.off[u + units] \in Nat
  BY <1>1, <1>3, <1>0, HaystackTyped
<1>6. width = 0 <=> units = 0
  <2>1. units = 0 => haystack.off[u + units] = haystack.off[u]
    BY <1>1
  <2>2. units # 0 => haystack.off[u] < haystack.off[u + units]
    <3>1. units # 0 => u < u + units
      BY <1>0, <1>1
    <3> QED BY <1>0, <1>1, <1>3, <3>1, HaystackTyped
  <2> QED BY <1>4, <1>5, <2>1, <2>2
<1>7. match.start + width = haystack.off[u + units]
  BY <1>4, <1>5
<1>8. last' = [pattern |-> id, start |-> haystack.off[u],
               width |-> haystack.off[u + units] - haystack.off[u]]
  BY <1>4 DEF Yielded
<1>9. Resumed' = IF units = 0 THEN u + 1 ELSE u + units
  <2>0. haystack' = haystack /\ patterns' = patterns
    BY DEF args
  <2>1. last' # NoYield
    <3>1. last'.pattern = id /\ id \in Nat
      BY <1>0, <1>8, HaystackTyped
    <3>2. last'.pattern # -1
      BY <3>1
    <3> QED BY <3>2 DEF NoYield
  <2>2. last'.start = haystack.off[u] /\ last'.width = haystack.off[u + units] - haystack.off[u]
    BY <1>8
  <2>3. CASE units = 0
    <3>1. last'.width = 0
      BY <1>4, <1>6, <2>2, <2>3
    <3>2. Resumed' = UnitAt(haystack, last'.start) + 1
      BY <2>0, <2>1, <3>1 DEF Resumed
    <3> QED BY <1>0, <1>1, <2>2, <2>3, <3>2, UnitAtOff
  <2>4. CASE units # 0
    <3>1. last'.width # 0
      BY <1>4, <1>6, <2>2, <2>4
    <3>2. Resumed' = CHOOSE w \in 0..haystack.n :
                       /\ last'.start + last'.width <= haystack.off[w]
                       /\ \A v \in 0..(w - 1) : haystack.off[v] < last'.start + last'.width
      BY <2>0, <2>1, <3>1 DEF Resumed
    <3> DEFINE l == last'
    <3>3. l.start = haystack.off[u] /\ l.width = haystack.off[u + units] - haystack.off[u]
      BY <2>2
    <3>4. Resumed' = CHOOSE w \in 0..haystack.n :
                       /\ l.start + l.width <= haystack.off[w]
                       /\ \A v \in 0..(w - 1) : haystack.off[v] < l.start + l.width
      BY <3>2
    <3> HIDE DEF l
    <3>5. Resumed' = u + units
      BY <1>0, <1>1, <1>3, <3>3, <3>4, ResumedBehind
    <3> QED BY <2>4, <3>5
  <2> QED BY <2>3, <2>4
<1>10. units \in Nat /\ Enumeration!IsNext(Resumed, id, u)
  BY <1>0 DEF Yields
<1> HIDE DEF units
<1> QED BY <1>1, <1>3, <1>4, <1>6, <1>7, <1>8, <1>9, <1>10 DEF units

LEMMA ResumeKeeps ==
  ASSUME EachIInv, Resume
  PROVE  EachIInv'
<1>0. /\ EachTyped /\ Yielded /\ UNCHANGED args /\ stage = "yield"
  BY DEF EachIInv, Resume, Yielded
<1>1. PICK id \in Ids(patterns), u \in Resumed..haystack.n : \E k \in Nat :
        /\ u \in 0..haystack.n /\ u + k \in 0..haystack.n
        /\ match.start = haystack.off[u]
        /\ width = 0 <=> k = 0
        /\ width # 0 => match.start + width = haystack.off[u + k]
        /\ Resumed' = IF k = 0 THEN u + 1 ELSE u + k
  BY <1>0, YieldMovesOn
<1>2. PICK units \in Nat :
        /\ u \in 0..haystack.n /\ u + units \in 0..haystack.n
        /\ match.start = haystack.off[u]
        /\ width = 0 <=> units = 0
        /\ width # 0 => match.start + width = haystack.off[u + units]
        /\ Resumed' = IF units = 0 THEN u + 1 ELSE u + units
  BY <1>1
<1>3. haystack.n \in Nat
  BY <1>0, HaystackTyped
<1>4. CASE AtEnd
  <2>1. stage' = "done"
    BY <1>4 DEF Resume
  <2> QED BY <1>0, <2>1 DEF EachIInv, EachTyped, CursorBetweenUnits, YieldsNext, args
<1>5. CASE ~AtEnd
  <2>1. stage' = "find" /\ position' = ResumeAt /\ UNCHANGED result
    BY <1>5 DEF Resume
  <2>2. Resumed' \in 0..haystack.n /\ ResumeAt = haystack.off[Resumed']
    <3>1. CASE units # 0
      BY <1>2, <3>1 DEF ResumeAt
    <3>2. CASE units = 0
      <4>1. u # haystack.n
        BY <1>0, <1>2, <1>5, <3>2, HaystackTyped DEF AtEnd
      <4>2. u + 1 \in 0..haystack.n /\ u \in 0..(haystack.n - 1) /\ u + 1 <= haystack.n
        BY <1>2, <1>3, <4>1
      <4>3. PastEmpty(haystack.off[u]) = haystack.off[u + 1]
        <5>1. CASE bytewise
          BY <1>0, <4>2, <5>1 DEF PastEmpty, EachTyped, ByteUnits
        <5>2. CASE ~bytewise
          BY <1>0, <1>2, <4>2, <5>2, MatchEndIs DEF PastEmpty
        <5> QED BY <5>1, <5>2
      <4> QED BY <1>2, <3>2, <4>2, <4>3 DEF ResumeAt
    <3> QED BY <3>1, <3>2
  <2>3. CursorBetweenUnits'
    BY <1>0, <2>1, <2>2 DEF CursorBetweenUnits, args
  <2> QED BY <1>0, <2>1, <2>3 DEF EachIInv, EachTyped, YieldsNext, args
<1> QED BY <1>4, <1>5

LEMMA EachStepKeeps ==
  ASSUME EachAssumption, EachIInv, [EachNext]_eachVars
  PROVE  EachIInv'
<1>1. CASE Find
  <2>1. CASE stage' = "yield"
    BY <1>1, <2>1, FindKeeps
  <2>2. CASE stage' = "done"
    BY <1>1, <2>2 DEF Find, EachIInv, EachTyped, CursorBetweenUnits, YieldsNext, args
  <2> QED BY <1>1, <2>1, <2>2 DEF Find
<1>2. CASE Resume
  BY <1>2, ResumeKeeps
<1>3. CASE Stop
  BY <1>3 DEF Stop, Yielded, EachIInv, EachTyped, CursorBetweenUnits, YieldsNext, args
<1>4. CASE EachDone \/ UNCHANGED eachVars
  <2>1. UNCHANGED eachVars
    BY <1>4 DEF EachDone
  <2>2. EachTyped' /\ CursorBetweenUnits'
    BY <2>1 DEF EachIInv, EachTyped, CursorBetweenUnits, Resumed, eachVars, args
  <2>3. YieldsNext'
    <3>1. UNCHANGED <<patterns, haystack, last, stage, match, width>>
      BY <2>1 DEF eachVars, args
    <3>2. Resumed' = Resumed
      BY <3>1 DEF Resumed
    <3>3. ASSUME NEW id, NEW u, Yields(id, u) PROVE Yields(id, u)'
      <4>1. Enumeration!IsNext(Resumed, id, u)'
        BY <3>1, <3>2, <3>3 DEF Yields, Enumeration!IsNext
      <4> QED BY <3>1, <3>3, <4>1 DEF Yields
    <3> QED BY <3>1, <3>2, <3>3 DEF EachIInv, YieldsNext, Ids
  <2> QED BY <2>2, <2>3 DEF EachIInv
<1> QED BY <1>1, <1>2, <1>3, <1>4 DEF EachNext

THEOREM EachInvariance == EachSpec => []EachIInv
<1>1. EachInit => EachIInv
  BY EachAssumption, EachInitHolds
<1>2. EachIInv /\ [EachNext]_eachVars => EachIInv'
  BY EachAssumption, EachStepKeeps
<1> QED BY <1>1, <1>2, PTL DEF EachSpec

-----------------------------------------------------------------------------
\* A call of yield is a step of the contract, whatever yield returns.
LEMMA YieldsAsPromised ==
  ASSUME EachIInv, Resume \/ Stop
  PROVE  Enumeration!Yield
<1>0. EachTyped /\ Yielded /\ UNCHANGED args /\ result = "none" /\ stage = "yield"
  BY DEF EachIInv, Resume, Stop, Yielded, EachTyped
<1>1. PICK id \in Ids(patterns), u \in Resumed..haystack.n : \E k \in Nat :
        /\ k = Len(patterns[id]) /\ Enumeration!IsNext(Resumed, id, u)
        /\ u \in 0..haystack.n
        /\ match.start = haystack.off[u]
        /\ width = 0 <=> k = 0
        /\ last' = [pattern |-> id, start |-> haystack.off[u],
                    width |-> haystack.off[u + k] - haystack.off[u]]
        /\ Resumed' = IF k = 0 THEN u + 1 ELSE u + k
  BY <1>0, YieldMovesOn
<1> DEFINE units == Len(patterns[id])
<1>2. /\ u \in 0..haystack.n
      /\ match.start = haystack.off[u]
      /\ width = 0 <=> units = 0
      /\ last' = [pattern |-> id, start |-> haystack.off[u],
                  width |-> haystack.off[u + units] - haystack.off[u]]
      /\ Resumed' = IF units = 0 THEN u + 1 ELSE u + units
  BY <1>1
<1>3. turn' = ~turn /\ UNCHANGED <<patterns, haystack>>
  BY <1>0 DEF Yielded, args
<1>4. \/ result' \in {"none", "false"}
      \/ Resumed' > haystack.n /\ result' = "true"
  <2>1. CASE Resume /\ AtEnd
    <3>1. u = haystack.n /\ units = 0
      BY <1>0, <1>2, <2>1, HaystackTyped DEF AtEnd
    <3>2. Resumed' > haystack.n
      BY <1>0, <1>2, <3>1, HaystackTyped
    <3> QED BY <2>1, <3>2 DEF Resume
  <2>2. CASE Resume /\ ~AtEnd
    BY <1>0, <2>2 DEF Resume
  <2>3. CASE Stop
    BY <2>3 DEF Stop
  <2> QED BY <2>1, <2>2, <2>3
<1>5. Enumeration!IsNext(Resumed, id, u)
  BY <1>1
<1> QED BY <1>0, <1>2, <1>3, <1>4, <1>5, EachVocabulary DEF Enumeration!Yield

\* The search that finds nothing has nothing left to find.
LEMMA ExhaustedAsPromised ==
  ASSUME EachIInv, Find, stage' = "done"
  PROVE  Enumeration!Exhausted
<1> DEFINE r == Resumed
<1>0. /\ r \in 0..haystack.n /\ position = haystack.off[r] /\ UnitAt(haystack, position) = r
      /\ IsPatternSet(patterns) /\ IsHaystack(haystack) /\ haystack.n \in 0..haystack.n /\ EachTyped
  BY SearchesTheRest DEF EachIInv
<1>1. UNCHANGED <<args, turn, last>> /\ Resumed' = r
  BY DEF Find, args, Resumed
<1>2. IsAnswer(patterns, Part(haystack, UnitAt(haystack, position), haystack.n), NoMatch) /\ result' = "true"
  BY DEF Find
<1>3. \A id \in Ids(patterns), u \in 0..haystack.n : ~Inside(patterns, haystack, r, haystack.n, id, u)
  <2> HIDE DEF r
  <2>1. ASSUME NEW id \in Ids(patterns), NEW u \in r..haystack.n,
               NoMatch = [pattern |-> id, start |-> haystack.off[u] - haystack.off[r]]
        PROVE  FALSE
    <3>1. NoMatch.pattern = id
      BY <2>1
    <3>2. id \in Nat /\ NoMatch.pattern = -1
      BY <1>0, HaystackTyped DEF NoMatch
    <3> QED BY <3>1, <3>2
  <2> QED BY <1>0, <1>2, <2>1, AnswerInPart
<1>4. ASSUME NEW id \in Ids(patterns), NEW u \in r..haystack.n PROVE ~Occurs(patterns, haystack, id, u)
  <2>1. u \in 0..haystack.n /\ r <= u
    BY <1>0, HaystackTyped
  <2> QED BY <1>3, <2>1 DEF Inside, Occurs
<1>5. result = "none"
  BY <1>0 DEF Find, EachTyped
<1> QED BY <1>1, <1>2, <1>4, <1>5, EachVocabulary DEF Enumeration!Exhausted, args

(***************************************************************************)
(* For every pattern set and haystack the matches that Each hands to yield *)
(* are those that repeated calls of Find would return, with the widths     *)
(* they have in the haystack: it implements its contract.                  *)
(***************************************************************************)
THEOREM EachRefinement == EachSpec => ImplementsEach
<1>1. EachIInv /\ EachInit => Enumeration!Init
  BY EachVocabulary DEF EachInit, Enumeration!Init, EachIInv, EachTyped, Resumed
<1>2. EachIInv /\ [EachNext]_eachVars => [Enumeration!Next]_(Enumeration!vars)
  <2> SUFFICES ASSUME EachIInv, [EachNext]_eachVars
               PROVE  Enumeration!Next \/ UNCHANGED Enumeration!vars
    OBVIOUS
  <2>1. CASE Find
    <3>1. CASE stage' = "done"
      BY <2>1, <3>1, ExhaustedAsPromised DEF Enumeration!Next
    <3>2. CASE stage' = "yield"
      BY <2>1, <3>2 DEF Find, Enumeration!vars, Resumed, args
    <3> QED BY <2>1, <3>1, <3>2 DEF Find
  <2>2. CASE Resume \/ Stop
    BY <2>2, YieldsAsPromised DEF Enumeration!Next
  <2>3. CASE EachDone \/ UNCHANGED eachVars
    <3>1. UNCHANGED <<patterns, haystack, last, turn, result>>
      BY <2>3 DEF EachDone, eachVars, args
    <3>2. Resumed' = Resumed
      BY <3>1 DEF Resumed
    <3> QED BY <3>1, <3>2 DEF Enumeration!vars
  <2> QED BY <2>1, <2>2, <2>3 DEF EachNext
<1> QED BY <1>1, <1>2, EachInvariance, PTL DEF EachSpec, ImplementsEach, Enumeration!Spec

-----------------------------------------------------------------------------
(***************************************************************************)
(* The inductive invariant.  StateTracksText, BestOfSeen and RingHolds     *)
(* carry the argument; the rest ties the counters to the haystack: while   *)
(* the unit is computed, not decoded, it is also the byte offset.          *)
(***************************************************************************)
OneByteUnits == \A u \in 0..unit : hay.off[u] = u

Fresh == /\ unit = 0 /\ state = <<>>
         /\ bestUnitStart = -1 /\ best = NoMatch

IInv == /\ TypeOK
        /\ IsMaxUnits(pats, maxUnits)
        /\ exact => ByteUnits(hay)
        /\ phase # "done" => at = hay.off[unit]
        /\ phase = "dispatch" => Fresh
        /\ phase \in {"dispatch", "ascii", "bytes"} => OneByteUnits
        /\ phase = "bytes" => exact
        /\ StateTracksText
        /\ BestOfSeen
        /\ RingHolds
        /\ phase = "done" => IsAnswer(pats, hay, best)

-----------------------------------------------------------------------------
LEMMA RingIsLongEnough ==
  ASSUME ScanAssumption, maxUnits \in Nat
  PROVE  RingLen \in Nat \ {0} /\ RingLen >= maxUnits
BY DEF ScanAssumption, RingLen

-----------------------------------------------------------------------------
\* Whatever the kind of root, the bytes stepped over are ASCII and start no
\* occurrence.
LEMMA SkipSound ==
  ASSUME ScanAssumption, TypeOK, NEW u \in (unit + 1)..hay.n, CanSkip(u)
  PROVE  \A v \in unit..(u - 1) :
           /\ hay.ascii[v]
           /\ \A id \in Ids(pats) : pats[id] # <<>> => ~Occurs(pats, hay, id, v)
<1>0. /\ IsPatternSet(pats) /\ IsHaystack(hay) /\ unit \in 0..hay.n
      /\ hay.n \in Nat /\ AsciiTokens \subseteq Token
  BY DEF TypeOK, IsHaystack, ScanAssumption
<1> SUFFICES ASSUME NEW v \in unit..(u - 1)
             PROVE  /\ hay.ascii[v]
                    /\ \A id \in Ids(pats) : pats[id] # <<>> => ~Occurs(pats, hay, id, v)
  OBVIOUS
<1>1. v \in 0..(hay.n - 1) /\ v \in 0..hay.n
  BY <1>0
<1>2. ASSUME AsciiAt(v), NEW id \in Ids(pats), pats[id] # <<>>, Occurs(pats, hay, id, v)
      PROVE  hay.tok[v] \in RootTokens(pats) \cap AsciiTokens
  <2>1. hay.tok[v] \in RootTokens(pats) /\ hay.tok[v] \in Token
    BY <1>0, <1>1, <1>2, OccurrenceStarts
  <2>2. hay.tok[v] \in AsciiTokens \cup {0}
    BY <1>0, <1>1, <1>2 DEF IsHaystack, AsciiAt
  <2> QED BY <2>1, <2>2 DEF Token
<1>3. CASE \E r, q \in AsciiTokens :
             SinglePair(r, q) /\ FirstStop(LAMBDA w : PairStop(r, q, w), u)
  <2>1. PICK r, q \in AsciiTokens : SinglePair(r, q) /\ ~PairStop(r, q, v)
    BY <1>3 DEF FirstStop
  <2>2. AsciiAt(v) /\ AsciiAt(v + 1) /\ ~(hay.tok[v] = r /\ hay.tok[v + 1] = q)
    BY <2>1 DEF PairStop
  <2>3. ASSUME NEW id \in Ids(pats), pats[id] # <<>>, Occurs(pats, hay, id, v)
        PROVE  FALSE
    <3>1. hay.tok[v] = r
      BY <1>2, <2>1, <2>2, <2>3 DEF SinglePair, SingleRoot
    <3>2. hay.tok[v + 1] = q
      <4>1. OnlyFollows(pats, r, q)
        BY <2>1 DEF SinglePair, OnlyFollows
      <4>2. v + 1 < hay.n /\ hay.tok[v + 1] = q
        BY <1>0, <1>1, <2>3, <3>1, <4>1, OccurrenceStartsWithPair
      <4> QED BY <4>2
    <3> QED BY <2>2, <3>1, <3>2
  <2> QED BY <2>2, <2>3 DEF AsciiAt
<1>4. CASE \E r \in AsciiTokens :
             SingleRoot(r) /\ FirstStop(LAMBDA w : RootStop(r, w), u)
  <2>1. PICK r \in AsciiTokens : SingleRoot(r) /\ ~RootStop(r, v)
    BY <1>4 DEF FirstStop
  <2>2. AsciiAt(v) /\ hay.tok[v] # r
    BY <2>1 DEF RootStop
  <2> QED BY <1>2, <2>1, <2>2 DEF SingleRoot, AsciiAt
<1>5. CASE \A w \in unit..(u - 1) : AsciiAt(w) /\ hay.tok[w] \notin RootTokens(pats)
  BY <1>2, <1>5 DEF AsciiAt
<1> QED BY <1>3, <1>4, <1>5 DEF CanSkip

-----------------------------------------------------------------------------
(***************************************************************************)
(* What an iteration of any of the three loops does, once it is known that *)
(* the start it writes down is the offset of the unit the match starts at. *)
(***************************************************************************)
Kept(out, su) ==
  \/ /\ Improves(out, su)
     /\ bestUnitStart' = su
     /\ best' = [pattern |-> out.pattern, start |-> hay.off[su]]
  \/ /\ ~Improves(out, su)
     /\ bestUnitStart' = bestUnitStart /\ best' = best

Continued ==
  \/ /\ Settled(bestUnitStart', unit)
     /\ phase' = "done" /\ at' = at /\ unit' = unit
  \/ /\ ~Settled(bestUnitStart', unit)
     /\ at' = hay.off[unit + 1] /\ unit' = unit + 1 /\ phase' = phase

Moved ==
  \E next \in Nodes(pats), out \in Outputs(pats) :
    /\ IsAdvance(pats, state, hay.tok[unit], next)
    /\ IsOutput(pats, next, out)
    /\ state' = next
    /\ Kept(out, unit - out.units + 1)
    /\ Continued

Looping == phase \in {"ascii", "decoded", "bytes"}

\* What the invariant says inside a loop, in the form the lemmas need it.
LEMMA InLoop ==
  ASSUME ScanAssumption, IInv, Looping
  PROVE  /\ IsPatternSet(pats) /\ IsHaystack(hay) /\ maxUnits \in Nat
         /\ hay.n \in Nat /\ unit \in 0..hay.n /\ at = hay.off[unit]
         /\ state \in Nodes(pats)
         /\ bestUnitStart \in -1..hay.n
         /\ IsMaxUnits(pats, maxUnits)
         /\ EndsText(hay, unit, state) /\ Tracks(pats, hay, unit, state)
         /\ IsBest(pats, hay, unit, bestUnitStart, best)
BY DEF IInv, Looping, TypeOK, StateTracksText, BestOfSeen, IsHaystack

\* The start an output asks for is one of the last maxUnits units.
LEMMA StartInReach ==
  ASSUME ScanAssumption, IInv, Looping, unit < hay.n,
         NEW next \in Nodes(pats), IsAdvance(pats, state, hay.tok[unit], next),
         NEW out, IsOutput(pats, next, out), out.pattern >= 0,
         NEW su, su = unit - out.units + 1
  PROVE  su \in 0..unit /\ unit - su < maxUnits
<1>0. PICK end \in 0..hay.n : end = unit + 1 /\ unit \in 0..(hay.n - 1)
  BY InLoop
<1>1. EndsText(hay, unit + 1, next)
  BY <1>0, InLoop, AdvanceTracks
<1>2. EndsText(hay, end, next)
  BY <1>0, <1>1
<1>3. /\ out.pattern \in Ids(pats)
      /\ out.units = Len(pats[out.pattern])
      /\ out.units \in 1..end
  BY <1>2, InLoop, OutputOccurs
<1>4. out.units <= maxUnits
  BY <1>3, InLoop DEF IsMaxUnits
<1>5. unit \in Nat /\ out.units \in Nat /\ maxUnits \in Nat
  BY <1>0, <1>3, InLoop
<1>6. \A k \in 1..(unit + 1) : unit - k + 1 \in 0..unit /\ unit - (unit - k + 1) < k
  BY <1>5
<1> QED BY <1>0, <1>3, <1>4, <1>5, <1>6

LEMMA MovedKeeps ==
  ASSUME ScanAssumption, IInv, Looping, unit < hay.n, Moved, UNCHANGED plan
  PROVE  /\ state' \in Nodes(pats)
         /\ unit' \in 0..hay.n /\ at' = hay.off[unit']
         /\ bestUnitStart' \in -1..hay.n
         /\ best' \in [pattern : {-1} \cup Ids(pats), start : -1..Bytes(hay)]
         /\ phase' \in {phase, "done"}
         /\ phase' # "done" =>
              /\ unit' = unit + 1
              /\ EndsText(hay, unit', state') /\ Tracks(pats, hay, unit', state')
              /\ IsBest(pats, hay, unit', bestUnitStart', best')
         /\ phase' = "done" => IsAnswer(pats, hay, best')
<1>0. PICK end \in 0..hay.n : end = unit + 1 /\ unit \in 0..(hay.n - 1)
  BY InLoop
<1>1. PICK next \in Nodes(pats), out \in Outputs(pats) :
        /\ IsAdvance(pats, state, hay.tok[unit], next)
        /\ IsOutput(pats, next, out)
        /\ state' = next
        /\ Kept(out, unit - out.units + 1)
        /\ Continued
  BY DEF Moved
<1>2. PICK su : su = unit - out.units + 1 /\ su = end - out.units
  <2>1. \A id \in Ids(pats) : Len(pats[id]) \in Nat
    BY InLoop DEF IsPatternSet, Ids
  <2>2. out.units \in Nat
    BY <2>1 DEF Outputs, NoOutput
  <2> QED BY <1>0, <2>2
<1>3. EndsText(hay, end, next) /\ Covers(pats, hay, unit, next)
  <2>1. EndsText(hay, unit + 1, next) /\ Covers(pats, hay, unit, next)
    BY <1>0, <1>1, InLoop, AdvanceTracks
  <2> QED BY <1>0, <2>1
<1>4. Tracks(pats, hay, end, next)
  <2>1. ASSUME NEW id \in Ids(pats), NEW start \in 0..hay.n,
               Occurs(pats, hay, id, start), start < end, end < start + Len(pats[id])
        PROVE  end - start <= Len(next)
    <3>1. Len(pats[id]) \in Nat
      BY InLoop DEF IsPatternSet, Ids
    <3>2. start \in 0..unit /\ unit < start + Len(pats[id])
      BY <1>0, <2>1, <3>1, InLoop
    <3>3. unit + 1 - start <= Len(next)
      BY <1>3, <2>1, <3>2 DEF Covers
    <3> QED BY <1>0, <3>3
  <2> QED BY <2>1 DEF Tracks
<1>5. IsBest(pats, hay, end, bestUnitStart', best')
  <2>1. \/ /\ Improvement(out, su, bestUnitStart, best)
           /\ bestUnitStart' = su /\ best' = [pattern |-> out.pattern, start |-> hay.off[su]]
        \/ /\ ~Improvement(out, su, bestUnitStart, best)
           /\ bestUnitStart' = bestUnitStart /\ best' = best
    BY <1>1, <1>2 DEF Kept, Improves, Improvement
  <2> QED BY <1>0, <1>1, <1>2, <1>3, <2>1, InLoop, BestAfterStep
<1>6. /\ bestUnitStart' \in -1..hay.n
      /\ best' \in [pattern : {-1} \cup Ids(pats), start : -1..Bytes(hay)]
  <2>1. best' \in Answers(pats, hay) /\ bestUnitStart' \in {-1} \cup 0..hay.n
    BY <1>5, BestTyped
  <2> QED BY <2>1, InLoop, AnswersAreMatches
<1>7. CASE /\ Settled(bestUnitStart', unit)
           /\ phase' = "done" /\ at' = at /\ unit' = unit
  <2>1. bestUnitStart' \in 0..hay.n /\ bestUnitStart' + maxUnits <= end
    BY <1>0, <1>6, <1>7, InLoop DEF Settled
  <2>2. IsAnswer(pats, hay, best')
    BY <1>5, <2>1, InLoop, BestWhenSettled
  <2> QED BY <1>1, <1>6, <1>7, <2>2, InLoop
<1>8. CASE /\ ~Settled(bestUnitStart', unit)
           /\ at' = hay.off[unit + 1] /\ unit' = unit + 1 /\ phase' = phase
  <2>1. phase' # "done"
    BY <1>8 DEF Looping
  <2> QED BY <1>0, <1>1, <1>3, <1>4, <1>5, <1>6, <1>8, <2>1
<1> QED BY <1>1, <1>7, <1>8 DEF Continued

-----------------------------------------------------------------------------
\* While every unit read is one byte, the computed start is the offset.
LEMMA ComputedStartMoves ==
  ASSUME ScanAssumption, IInv, phase \in {"ascii", "bytes"}, unit < hay.n,
         Consume
  PROVE  Moved
<1>0. Looping
  BY DEF Looping
<1>1. UnitAt(hay, at) = unit
  BY <1>0, InLoop, UnitAtOff
<1>2. PICK next \in Nodes(pats), out \in Outputs(pats) :
        /\ IsAdvance(pats, state, hay.tok[unit], next)
        /\ state' = next
        /\ IsOutput(pats, next, out)
        /\ \/ /\ Improves(out, unit - out.units + 1)
              /\ bestUnitStart' = unit - out.units + 1
              /\ best' = [pattern |-> out.pattern, start |-> unit - out.units + 1]
           \/ /\ ~Improves(out, unit - out.units + 1)
              /\ UNCHANGED <<bestUnitStart, best>>
        /\ Continued
  BY <1>1 DEF Consume, StartOf, Continued
<1>3. Kept(out, unit - out.units + 1)
  <2>1. CASE Improves(out, unit - out.units + 1)
    <3>1. unit - out.units + 1 \in 0..unit
      BY <1>0, <1>2, <2>1, StartInReach DEF Improves
    <3>2. hay.off[unit - out.units + 1] = unit - out.units + 1
      BY <3>1 DEF IInv, OneByteUnits
    <3> QED BY <1>2, <2>1, <3>2 DEF Kept
  <2>2. CASE ~Improves(out, unit - out.units + 1)
    BY <1>2, <2>2 DEF Kept
  <2> QED BY <2>1, <2>2
<1> QED BY <1>2, <1>3 DEF Moved

\* Writing the unit's offset keeps the ring's promise for one unit more.
LEMMA RingWrite ==
  ASSUME ScanAssumption, IInv, phase = "decoded", unit < hay.n,
         starts' = [starts EXCEPT ![unit % RingLen] = at]
  PROVE  /\ starts' \in [0..(RingLen - 1) -> Nat]
         /\ \A u \in 0..unit : unit - u < maxUnits => starts'[u % RingLen] = hay.off[u]
<1>0. /\ Looping /\ unit \in Nat /\ maxUnits \in Nat
      /\ RingLen \in Nat \ {0} /\ maxUnits <= RingLen
      /\ starts \in [0..(RingLen - 1) -> Nat]
      /\ at \in Nat /\ at = hay.off[unit]
  <2>1. Looping
    BY DEF Looping
  <2>2. starts \in [0..(RingLen - 1) -> Nat] /\ at \in Nat /\ maxUnits \in Nat
    BY DEF IInv, TypeOK
  <2>3. unit \in 0..hay.n /\ hay.n \in Nat /\ at = hay.off[unit]
    BY <2>1, InLoop
  <2>4. RingLen \in Nat \ {0} /\ RingLen >= maxUnits
    BY <2>2, RingIsLongEnough
  <2> QED BY <2>1, <2>2, <2>3, <2>4
<1>1. unit % RingLen \in 0..(RingLen - 1)
  BY <1>0, ModRange
<1>2. ASSUME NEW u \in 0..unit, unit - u < maxUnits
      PROVE  starts'[u % RingLen] = hay.off[u]
  <2>1. u \in Nat /\ u % RingLen \in 0..(RingLen - 1)
    BY <1>0, ModRange
  <2>2. CASE u = unit
    BY <1>0, <1>1, <2>2
  <2>3. CASE u # unit
    <3>1. u \in 0..(unit - 1) /\ unit - u < RingLen /\ u - unit < RingLen
      BY <1>0, <1>2, <2>1, <2>3
    <3>2. u % RingLen # unit % RingLen
      BY <1>0, <2>1, <2>3, <3>1, ModDistinct
    <3>3. starts[u % RingLen] = hay.off[u]
      BY <1>2, <3>1 DEF IInv, RingHolds
    <3> QED BY <1>0, <1>1, <2>1, <3>2, <3>3
  <2> QED BY <2>2, <2>3
<1> QED BY <1>0, <1>1, <1>2

\* After the first wider unit it is read from the ring.
LEMMA RingStartMoves ==
  ASSUME ScanAssumption, IInv, phase = "decoded", unit < hay.n,
         starts' = [starts EXCEPT ![unit % RingLen] = at],
         Consume
  PROVE  Moved
<1>0. Looping
  BY DEF Looping
<1>1. UnitAt(hay, at) = unit
  BY <1>0, InLoop, UnitAtOff
<1>2. PICK next \in Nodes(pats), out \in Outputs(pats) :
        /\ IsAdvance(pats, state, hay.tok[unit], next)
        /\ state' = next
        /\ IsOutput(pats, next, out)
        /\ \/ /\ Improves(out, unit - out.units + 1)
              /\ bestUnitStart' = unit - out.units + 1
              /\ best' = [pattern |-> out.pattern,
                          start |-> starts'[(unit - out.units + 1) % RingLen]]
           \/ /\ ~Improves(out, unit - out.units + 1)
              /\ UNCHANGED <<bestUnitStart, best>>
        /\ Continued
  BY <1>1 DEF Consume, StartOf, Continued
<1>3. Kept(out, unit - out.units + 1)
  <2>1. CASE Improves(out, unit - out.units + 1)
    <3>1. PICK su : su = unit - out.units + 1
      OBVIOUS
    <3>2. su \in 0..unit /\ unit - su < maxUnits
      BY <1>0, <1>2, <2>1, <3>1, StartInReach DEF Improves
    <3>3. starts'[su % RingLen] = hay.off[su]
      BY <3>2, RingWrite
    <3> QED BY <1>2, <2>1, <3>1, <3>3 DEF Kept
  <2>2. CASE ~Improves(out, unit - out.units + 1)
    BY <1>2, <2>2 DEF Kept
  <2> QED BY <2>1, <2>2
<1> QED BY <1>2, <1>3 DEF Moved

-----------------------------------------------------------------------------
\* Each action preserves the invariant.
LEMMA InitHolds ==
  ASSUME ScanAssumption, Init
  PROVE  IInv
<1>1. /\ IsPatternSet(pats) /\ IsHaystack(hay)
      /\ hay.n \in Nat /\ hay.off[0] = 0
  BY DEF Init, ScanAssumption, IsHaystack
<1>2. maxUnits \in Nat
  <2>1. \A id \in Ids(pats) : Len(pats[id]) \in Nat
    BY <1>1 DEF IsPatternSet, Ids
  <2> QED BY <2>1 DEF Init
<1>3. starts \in [0..(RingLen - 1) -> Nat]
  BY RingIsLongEnough, <1>2 DEF Init, ScanAssumption
<1>4. NoMatch \in [pattern : {-1} \cup Ids(pats), start : -1..Bytes(hay)]
  <2>1. NoMatch \in Answers(pats, hay)
    BY DEF Answers
  <2> QED BY <1>1, <2>1, AnswersAreMatches
<1>5. TypeOK
  BY <1>1, <1>2, <1>3, <1>4 DEF Init, TypeOK, Phases, Nodes
<1>6. EndsText(hay, 0, <<>>) /\ Tracks(pats, hay, 0, <<>>)
  BY <1>1 DEF EndsText, Tracks
<1> QED BY <1>1, <1>5, <1>6 DEF Init, IInv, Fresh, OneByteUnits, StateTracksText, BestOfSeen, RingHolds

LEMMA DispatchKeeps ==
  ASSUME ScanAssumption, IInv, Dispatch
  PROVE  IInv'
<1>0. /\ TypeOK /\ UNCHANGED <<plan, at, unit, state, starts>>
      /\ phase = "dispatch" /\ Fresh /\ at = hay.off[unit]
      /\ IsPatternSet(pats) /\ IsHaystack(hay)
      /\ hay.n \in Nat /\ 0 \in 0..hay.n
  BY DEF IInv, Dispatch, TypeOK, IsHaystack
<1>1. IsBest(pats, hay, 0, bestUnitStart', best')
  <2>1. \/ EmptyIds(pats) = {} /\ bestUnitStart' = -1 /\ best' = NoMatch
        \/ \E id \in EmptyIds(pats) :
             /\ \A other \in EmptyIds(pats) : id <= other
             /\ bestUnitStart' = 0 /\ best' = [pattern |-> id, start |-> 0]
    BY <1>0 DEF Dispatch, Fresh
  <2> QED BY <1>0, <2>1, BestAtStart
<1>2. /\ bestUnitStart' \in -1..hay.n
      /\ best' \in [pattern : {-1} \cup Ids(pats), start : -1..Bytes(hay)]
  <2>1. best' \in Answers(pats, hay) /\ bestUnitStart' \in {-1} \cup 0..hay.n
    BY <1>1, BestTyped
  <2> QED BY <1>0, <2>1, AnswersAreMatches
<1>3. phase' = IF maxUnits = 0 THEN "done" ELSE IF exact THEN "bytes" ELSE "ascii"
  BY DEF Dispatch
<1>4. TypeOK'
  BY <1>0, <1>2, <1>3 DEF TypeOK, Phases, plan, RingLen
<1>5. phase' = "done" => IsAnswer(pats, hay, best')
  <2> SUFFICES ASSUME maxUnits = 0 PROVE IsAnswer(pats, hay, best')
    BY <1>3
  <2>0. IsMaxUnits(pats, 0)
    BY DEF IInv
  <2>1. CASE EmptyIds(pats) = {}
    <3>1. \A id \in Ids(pats) : FALSE
      <4>1. ASSUME NEW id \in Ids(pats) PROVE FALSE
        <5>1. pats[id] \in Seq(Token) /\ Len(pats[id]) <= 0
          BY <1>0, <2>0 DEF IsPatternSet, Ids, IsMaxUnits
        <5>2. pats[id] = <<>>
          BY <5>1
        <5> QED BY <2>1, <5>2 DEF EmptyIds
      <4> QED BY <4>1
    <3>2. best' = NoMatch
      BY <1>0, <2>1 DEF Dispatch, Fresh
    <3> QED BY <3>1, <3>2 DEF IsAnswer
  <2>2. CASE EmptyIds(pats) # {}
    <3>1. bestUnitStart' = 0
      BY <2>2 DEF Dispatch
    <3>2. IsBest(pats, hay, 0, 0, best')
      BY <1>1, <3>1
    <3>3. 0 \in Nat /\ 0 + 0 <= 0
      OBVIOUS
    <3> QED BY <1>0, <2>0, <3>2, <3>3, BestWhenSettled
  <2> QED BY <2>1, <2>2
<1>6. EndsText(hay, 0, <<>>) /\ Tracks(pats, hay, 0, <<>>)
  BY <1>0 DEF EndsText, Tracks
<1>7. StateTracksText' /\ BestOfSeen' /\ RingHolds'
  BY <1>0, <1>1, <1>3, <1>6 DEF StateTracksText, BestOfSeen, RingHolds, Fresh, plan
<1>8. phase' \in {"dispatch", "ascii", "bytes"} => OneByteUnits'
  BY <1>0 DEF IInv, OneByteUnits, plan
<1> QED BY <1>0, <1>3, <1>4, <1>5, <1>7, <1>8 DEF IInv, plan, ByteUnits

LEMMA SkipAsciiKeeps ==
  ASSUME ScanAssumption, IInv, SkipAscii
  PROVE  IInv'
<1>0. /\ TypeOK /\ UNCHANGED <<plan, state, bestUnitStart, best, starts>>
      /\ phase = "ascii" /\ Looping /\ state = <<>>
      /\ OneByteUnits
  BY DEF IInv, SkipAscii, Looping
<1>1. PICK u \in (unit + 1)..hay.n :
        /\ CanSkip(u)
        /\ \/ /\ Settled(bestUnitStart, u - 1)
              /\ phase' = "done"
              /\ UNCHANGED <<at, unit>>
           \/ /\ ~Settled(bestUnitStart, u - 1)
              /\ at' = at + (u - unit)
              /\ unit' = u
              /\ UNCHANGED phase
  BY DEF SkipAscii
<1>2. u \in 0..hay.n /\ unit <= u /\ unit \in 0..hay.n /\ hay.n \in Nat
  BY <1>0, InLoop
<1>3. \A v \in unit..(u - 1) :
        /\ hay.ascii[v]
        /\ \A id \in Ids(pats) : pats[id] # <<>> => ~Occurs(pats, hay, id, v)
  BY <1>0, <1>1, SkipSound
<1>4. \A w \in 0..u : hay.off[w] = w
  BY <1>0, <1>2, <1>3, InLoop, AsciiRun DEF OneByteUnits
<1>5. /\ EndsText(hay, u, <<>>) /\ Tracks(pats, hay, u, <<>>)
      /\ IsBest(pats, hay, u, bestUnitStart, best)
  <2>1. Tracks(pats, hay, unit, <<>>)
    BY <1>0, InLoop
  <2> QED BY <1>0, <1>2, <1>3, <2>1, InLoop, IdleKeeps
<1>6. CASE Settled(bestUnitStart, u - 1) /\ phase' = "done" /\ UNCHANGED <<at, unit>>
  <2>1. bestUnitStart \in 0..hay.n /\ bestUnitStart + maxUnits <= u
    BY <1>0, <1>2, <1>6, InLoop DEF Settled
  <2>2. IsAnswer(pats, hay, best)
    BY <1>0, <1>2, <1>5, <2>1, InLoop, BestWhenSettled
  <2>3. TypeOK'
    BY <1>0, <1>6 DEF TypeOK, Phases, plan, RingLen
  <2> QED BY <1>0, <1>6, <2>2, <2>3
       DEF IInv, plan, ByteUnits, StateTracksText, BestOfSeen, RingHolds
<1>7. CASE /\ at' = at + (u - unit) /\ unit' = u /\ UNCHANGED phase
  <2>1. at' = u
    <3>1. at = unit
      BY <1>0, InLoop DEF OneByteUnits
    <3> QED BY <1>2, <1>7, <3>1
  <2>2. TypeOK'
    BY <1>0, <1>2, <1>7, <2>1 DEF TypeOK, Phases, plan, RingLen
  <2>3. at' = hay.off[unit']
    BY <1>2, <1>4, <1>7, <2>1
  <2>4. OneByteUnits'
    BY <1>0, <1>4, <1>7 DEF OneByteUnits, plan
  <2>5. StateTracksText' /\ BestOfSeen' /\ RingHolds'
    BY <1>0, <1>5, <1>7 DEF StateTracksText, BestOfSeen, RingHolds, plan
  <2> QED BY <1>0, <1>7, <2>2, <2>3, <2>4, <2>5 DEF IInv, plan, ByteUnits
<1> QED BY <1>1, <1>6, <1>7

\* The ASCII and the exact loop read one unit, of one byte.
LEMMA ByteStepKeeps ==
  ASSUME ScanAssumption, IInv, phase \in {"ascii", "bytes"}, unit < hay.n,
         hay.off[unit + 1] = hay.off[unit] + 1,
         Moved, UNCHANGED <<plan, starts>>
  PROVE  IInv'
<1>0. /\ Looping /\ TypeOK /\ UNCHANGED plan
      /\ phase' \in {phase, "done"} /\ unit \in 0..hay.n /\ hay.n \in Nat
  <2>1. Looping
    BY DEF Looping
  <2> QED BY <2>1, InLoop, MovedKeeps DEF IInv
<1>1. TypeOK'
  <2>1. hay.off[unit'] \in Nat
    BY <1>0, InLoop, MovedKeeps DEF IsHaystack
  <2> QED BY <1>0, <2>1, MovedKeeps DEF TypeOK, Phases, plan, RingLen
<1>2. phase' # "done" => OneByteUnits'
  <2> SUFFICES ASSUME phase' # "done" PROVE OneByteUnits'
    OBVIOUS
  <2>1. unit' = unit + 1 /\ hay' = hay
    BY <1>0, MovedKeeps DEF plan
  <2>2. hay.off[unit + 1] = unit + 1
    BY <1>0 DEF IInv, OneByteUnits
  <2>3. ASSUME NEW u \in 0..(unit + 1) PROVE hay.off[u] = u
    <3>1. CASE u \in 0..unit
      BY <3>1 DEF IInv, OneByteUnits
    <3>2. CASE u = unit + 1
      BY <2>2, <3>2
    <3> QED BY <1>0, <3>1, <3>2
  <2> QED BY <2>1, <2>3 DEF OneByteUnits
<1>3. phase' # "done" => phase' = phase
  BY <1>0
<1> QED BY <1>0, <1>1, <1>2, <1>3, MovedKeeps
     DEF IInv, plan, ByteUnits, StateTracksText, BestOfSeen, RingHolds

LEMMA StepAsciiKeeps ==
  ASSUME ScanAssumption, IInv, StepAscii
  PROVE  IInv'
<1>1. /\ phase = "ascii" /\ Looping /\ unit < hay.n /\ hay.ascii[unit]
      /\ UNCHANGED <<plan, starts>>
  BY DEF StepAscii, AsciiAt, Looping
<1>2. Moved
  BY <1>1, ComputedStartMoves DEF StepAscii
<1>3. hay.off[unit + 1] = hay.off[unit] + 1
  <2>1. unit \in 0..(hay.n - 1)
    BY <1>1, InLoop
  <2> QED BY <1>1, <2>1, InLoop DEF IsHaystack
<1> QED BY <1>1, <1>2, <1>3, ByteStepKeeps

\* at < len(haystack): there is a unit to read.
LEMMA UnitToRead ==
  ASSUME ScanAssumption, IInv, Looping, at < Bytes(hay)
  PROVE  unit < hay.n
<1>1. CASE unit = hay.n
  BY <1>1, InLoop DEF Bytes, IsHaystack
<1> QED BY <1>1, InLoop

LEMMA StepByteKeeps ==
  ASSUME ScanAssumption, IInv, StepByte
  PROVE  IInv'
<1>1. phase = "bytes" /\ Looping /\ UNCHANGED <<plan, starts>>
  BY DEF StepByte, Looping
<1>2. unit < hay.n
  BY <1>1, UnitToRead DEF StepByte
<1>3. Moved
  BY <1>1, <1>2, ComputedStartMoves DEF StepByte
<1>4. hay.off[unit + 1] = hay.off[unit] + 1
  <2>1. unit \in 0..(hay.n - 1)
    BY <1>1, <1>2, InLoop
  <2> QED BY <1>1, <2>1 DEF IInv, ByteUnits
<1> QED BY <1>1, <1>2, <1>3, <1>4, ByteStepKeeps

\* Where the one-byte units end the ring takes over from the arithmetic.
LEMMA EnterDecodedKeeps ==
  ASSUME ScanAssumption, IInv, EnterDecoded
  PROVE  IInv'
<1>0. /\ TypeOK /\ UNCHANGED <<plan, at, unit, state, bestUnitStart, best>>
      /\ phase = "ascii" /\ phase' = "decoded" /\ Looping
      /\ OneByteUnits
  BY DEF IInv, EnterDecoded, Looping
<1>1. /\ unit \in Nat /\ maxUnits \in Nat /\ at = unit
      /\ RingLen \in Nat \ {0} /\ maxUnits <= RingLen
  BY <1>0, InLoop, RingIsLongEnough DEF OneByteUnits
<1> DEFINE first == IF unit - maxUnits + 1 < 0 THEN 0 ELSE unit - maxUnits + 1
           Prior(i) == {prior \in first..(unit - 1) : prior % RingLen = i}
<1>2. first \in Nat /\ first >= unit - maxUnits + 1
  BY <1>1
<1>3. starts' = [i \in 0..(RingLen - 1) |->
                   IF \E prior \in first..(unit - 1) : prior % RingLen = i
                     THEN at - (unit - (CHOOSE prior \in first..(unit - 1) :
                                          prior % RingLen = i))
                     ELSE starts[i]]
  BY DEF EnterDecoded
<1> HIDE DEF first
<1>4. ASSUME NEW u \in first..(unit - 1)
      PROVE  /\ u \in Nat /\ u % RingLen \in 0..(RingLen - 1)
             /\ (CHOOSE prior \in first..(unit - 1) : prior % RingLen = u % RingLen) = u
  <2>1. u \in Nat
    BY <1>1, <1>2
  <2>2. u % RingLen \in 0..(RingLen - 1)
    BY <1>1, <2>1, ModRange
  <2>3. ASSUME NEW w \in first..(unit - 1), w % RingLen = u % RingLen
        PROVE  w = u
    <3>1. w \in Nat /\ w - u < RingLen /\ u - w < RingLen
      BY <1>1, <1>2
    <3> QED BY <1>1, <2>1, <2>3, <3>1, ModDistinct
  <2> QED BY <2>1, <2>2, <2>3
<1>5. starts' \in [0..(RingLen - 1) -> Nat]
  <2>1. ASSUME NEW i \in 0..(RingLen - 1),
               \E prior \in first..(unit - 1) : prior % RingLen = i
        PROVE  at - (unit - (CHOOSE prior \in first..(unit - 1) : prior % RingLen = i)) \in Nat
    <3>1. PICK u \in first..(unit - 1) : u % RingLen = i
      BY <2>1
    <3>2. (CHOOSE prior \in first..(unit - 1) : prior % RingLen = i) = u
      BY <1>4, <3>1
    <3>3. u \in Nat /\ at - (unit - u) = u
      BY <1>1, <1>2
    <3> QED BY <3>2, <3>3
  <2>2. starts \in [0..(RingLen - 1) -> Nat]
    BY <1>0 DEF TypeOK
  <2> QED BY <1>3, <2>1, <2>2
<1>6. TypeOK'
  BY <1>0, <1>5 DEF TypeOK, Phases, plan, RingLen
<1>7. ASSUME NEW u \in 0..(unit - 1), unit - u < maxUnits
      PROVE  starts'[u % RingLen] = hay.off[u]
  <2>1. u \in first..(unit - 1)
    BY <1>1, <1>2, <1>7 DEF first
  <2>2. starts'[u % RingLen] = at - (unit - u)
    BY <1>3, <1>4, <2>1
  <2>3. at - (unit - u) = u
    BY <1>1
  <2>4. hay.off[u] = u
    BY <1>0, <1>1 DEF OneByteUnits
  <2> QED BY <2>2, <2>3, <2>4
<1>8. RingHolds'
  <2>1. unit' = unit /\ maxUnits' = maxUnits /\ hay' = hay /\ RingLen' = RingLen
    BY <1>0 DEF plan, RingLen
  <2> QED BY <1>7, <2>1 DEF RingHolds
<1> QED BY <1>0, <1>6, <1>8 DEF IInv, plan, ByteUnits, StateTracksText, BestOfSeen

LEMMA StepDecodedKeeps ==
  ASSUME ScanAssumption, IInv, StepDecoded
  PROVE  IInv'
<1>0. /\ phase = "decoded" /\ Looping /\ TypeOK /\ UNCHANGED plan
      /\ starts' = [starts EXCEPT ![unit % RingLen] = at]
  BY DEF IInv, StepDecoded, Looping
<1>1. unit < hay.n
  BY <1>0, UnitToRead DEF StepDecoded
<1>2. Moved
  BY <1>0, <1>1, RingStartMoves DEF StepDecoded
<1>3. TypeOK'
  <2>1. hay.off[unit'] \in Nat
    BY <1>0, <1>1, <1>2, InLoop, MovedKeeps DEF IsHaystack
  <2>2. starts' \in [0..(RingLen - 1) -> Nat]
    BY <1>0, <1>1, RingWrite
  <2> QED BY <1>0, <1>1, <1>2, <2>1, <2>2, MovedKeeps DEF TypeOK, Phases, plan, RingLen
<1>4. RingHolds'
  <2> SUFFICES ASSUME phase' = "decoded",
                      NEW u \in 0..(unit' - 1), unit' - u < maxUnits
               PROVE  starts'[u % RingLen] = hay.off[u]
    BY <1>0 DEF RingHolds, plan, RingLen
  <2>1. unit' = unit + 1 /\ unit \in Nat /\ maxUnits \in Nat
    BY <1>0, <1>1, <1>2, InLoop, MovedKeeps
  <2>2. u \in 0..unit /\ unit - u < maxUnits
    BY <2>1
  <2> QED BY <1>0, <1>1, <2>2, RingWrite
<1>5. phase' \in {"decoded", "done"}
  BY <1>0, <1>1, <1>2, MovedKeeps
<1> QED BY <1>0, <1>1, <1>2, <1>3, <1>4, <1>5, MovedKeeps
     DEF IInv, plan, ByteUnits, StateTracksText, BestOfSeen

LEMMA FinishKeeps ==
  ASSUME ScanAssumption, IInv, Finish
  PROVE  IInv'
<1>0. /\ TypeOK /\ Looping /\ phase' = "done"
      /\ UNCHANGED <<plan, at, unit, state, bestUnitStart, best, starts>>
  BY DEF IInv, Finish, Looping
<1>1. unit = hay.n
  BY <1>0, InLoop, OffTyped DEF Finish
<1>2. IsAnswer(pats, hay, best)
  BY <1>0, <1>1, InLoop, BestAtEnd
<1>3. TypeOK'
  BY <1>0 DEF TypeOK, Phases, plan, RingLen
<1> QED BY <1>0, <1>2, <1>3 DEF IInv, plan, ByteUnits, StateTracksText, BestOfSeen, RingHolds

LEMMA StutterKeeps ==
  ASSUME IInv, UNCHANGED vars
  PROVE  IInv'
BY DEF vars, plan, IInv, TypeOK, RingLen, ByteUnits, Fresh, OneByteUnits,
       StateTracksText, BestOfSeen, RingHolds

-----------------------------------------------------------------------------
\* The inductive invariant holds of every reachable state.
THEOREM Invariance == Spec => []IInv
<1>0. ScanAssumption
  BY ScanAssumption
<1>1. Init => IInv
  BY <1>0, InitHolds
<1>2. IInv /\ [Next]_vars => IInv'
  BY <1>0, DispatchKeeps, SkipAsciiKeeps, StepAsciiKeeps, StepByteKeeps,
     EnterDecodedKeeps, StepDecodedKeeps, FinishKeeps, StutterKeeps DEF Next, Done
<1> QED BY <1>1, <1>2, PTL DEF Spec

\* Every variable keeps its type; the ring is never written outside.
THEOREM TypeCorrect == Spec => []TypeOK
<1>1. IInv => TypeOK
  BY DEF IInv
<1> QED BY <1>1, Invariance, PTL

\* No match in progress is ever lost, not by a skip of any kind either.
THEOREM StateIsRight == Spec => []StateTracksText
<1>1. IInv => StateTracksText
  BY DEF IInv
<1> QED BY <1>1, Invariance, PTL

\* best is the best of what has ended, at every step of every loop.
THEOREM BestIsKept == Spec => []BestOfSeen
<1>1. IInv => BestOfSeen
  BY DEF IInv
<1> QED BY <1>1, Invariance, PTL

\* The ring holds every start that may still be asked for.
THEOREM RingIsRight == Spec => []RingHolds
<1>1. IInv => RingHolds
  BY DEF IInv
<1> QED BY <1>1, Invariance, PTL

-----------------------------------------------------------------------------
\* The contract's vocabulary is that of the executors.
LEMMA SameVocabulary ==
  /\ Contract!IsPatternSet(pats) <=> IsPatternSet(pats)
  /\ Contract!IsHaystack(hay) <=> IsHaystack(hay)
  /\ Contract!Answers(pats, hay) = Answers(pats, hay)
  /\ \A m : Contract!IsAnswer(pats, hay, m) <=> IsAnswer(pats, hay, m)
<1>1. Contract!IsPatternSet(pats) <=> IsPatternSet(pats)
  BY DEF Contract!IsPatternSet, IsPatternSet, Contract!Token, Token
<1>2. Contract!IsHaystack(hay) <=> IsHaystack(hay)
  BY DEF Contract!IsHaystack, IsHaystack
<1>3. Contract!Answers(pats, hay) = Answers(pats, hay)
  BY DEF Contract!Answers, Answers, Contract!NoMatch, NoMatch, Contract!Ids, Ids
<1>4. \A m : Contract!IsAnswer(pats, hay, m) <=> IsAnswer(pats, hay, m)
  BY DEF Contract!IsAnswer, IsAnswer, Contract!NoMatch, NoMatch, Contract!Ids, Ids,
         Contract!Occurs, Occurs, Contract!Before, Before
<1> QED BY <1>1, <1>2, <1>3, <1>4

\* A search that is not done has not answered; the step that ends it replies.
LEMMA RepliesOnce ==
  ASSUME IInv, IInv', [Next]_vars, phase # "done", phase' = "done"
  PROVE  Contract!Reply
<1>1. UNCHANGED plan
  BY DEF Next, vars, Dispatch, SkipAscii, StepAscii, StepByte, EnterDecoded,
         StepDecoded, Finish, Done
<1>2. IsAnswer(pats, hay, best')
  BY <1>1 DEF IInv, plan
<1>3. best' \in Answers(pats, hay)
  BY <1>2, AnswerTyped
<1> QED BY <1>1, <1>2, <1>3, SameVocabulary DEF Contract!Reply, plan

\* Whatever the pattern set, the haystack and the sizes of ring and block: the
\* executor's one answer is the leftmost match of the lowest index.
THEOREM Refinement == Spec => ImplementsFind
<1>1. IInv /\ Init => Contract!Init
  BY SameVocabulary DEF Init, Contract!Init, IInv, TypeOK
<1>2. IInv /\ IInv' /\ [Next]_vars => [Contract!Reply]_(Contract!vars)
  <2> SUFFICES ASSUME IInv, IInv', [Next]_vars
               PROVE  Contract!Reply \/ UNCHANGED Contract!vars
    BY DEF Contract!vars
  <2>1. CASE phase # "done" /\ phase' = "done"
    BY <2>1, RepliesOnce
  <2>2. CASE phase # "done" /\ phase' # "done"
    BY <2>2 DEF Contract!vars, Next, vars, plan, Dispatch, SkipAscii, StepAscii,
                StepByte, EnterDecoded, StepDecoded, Finish, Done
  <2>3. CASE phase = "done"
    BY <2>3 DEF Contract!vars, Next, vars, plan, Dispatch, SkipAscii, StepAscii,
                StepByte, EnterDecoded, StepDecoded, Finish, Done
  <2> QED BY <2>1, <2>2, <2>3
<1> QED BY <1>1, <1>2, Invariance, PTL DEF Spec, ImplementsFind, Contract!Spec
-----------------------------------------------------------------------------
(***************************************************************************)
(* The wrappers of the kernels: their inductive invariant, in parts.       *)
(***************************************************************************)
BlockTyped ==
  /\ scan \in Scans
  /\ size \in Nat /\ from \in 0..size
  /\ hits \subseteq from..(End - 1 - scan.lead)
  /\ aliases \subseteq from..(size - 1)
  /\ loop \in {"enter", "blocks", "overlap", "bytes", "done"}
  /\ pass \in DOMAIN scan.ahead
  /\ block \in {0, Narrow, Wide}
  /\ full \in Int
  /\ cursor \in Nat /\ from + scan.lead <= cursor
  /\ reach \in Nat

\* What a kernel reads behind its block of b bytes.
ReadBehind(b) == IF scan.bound = "carried" THEN b ELSE Ahead

\* While the search goes on it has passed over no hit.
PassesNoHit == loop # "done" => \A h \in hits : cursor <= h + scan.lead

(***************************************************************************)
(* In a pass of blocks the rest is a number of whole blocks, which leave   *)
(* the undecided positions alone and what is read behind them in bounds.   *)
(***************************************************************************)
BlocksFit ==
  loop = "blocks" =>
    /\ block > 0
    /\ \E k \in Nat : full = cursor + k * block
    /\ from + scan.lead <= full - block
    /\ full <= End /\ full + ReadBehind(block) <= size
    /\ scan.bound = "starts" => End - full < block

\* The overlapping block ends with the positions, begins behind the first of
\* them and before the first that is not decided.
OverlapFits ==
  loop = "overlap" =>
    /\ scan.bound = "starts" /\ block > 0
    /\ from + scan.lead <= TailAt /\ TailAt <= cursor /\ cursor <= End

BlockIInv == /\ BlockTyped /\ PassesNoHit /\ BlocksFit /\ OverlapFits
        /\ LoadsInBounds /\ LandsAtFirst

-----------------------------------------------------------------------------
LEMMA LowestExists ==
  ASSUME NEW S \in SUBSET Nat, S # {}
  PROVE  Min(S) \in S /\ \A y \in S : Min(S) <= y
<1>1. PICK x \in S : \A y \in S : ~(<<y, x>> \in OpToRel(<, Nat))
  BY NatLessThanWellFounded, WFMin
<1>2. ASSUME NEW y \in S PROVE x <= y
  <2>1. ~(y < x)
    BY <1>1, <1>2 DEF OpToRel
  <2> QED BY <2>1
<1> QED BY <1>2 DEF Min

\* Whole blocks are a number of blocks, and leave less than a block.
LEMMA WholeBlocksFill ==
  ASSUME NEW n \in Int, NEW b \in Nat \ {0}
  PROVE  /\ WholeBlocks(n, b) \in Int
         /\ WholeBlocks(n, b) <= n /\ n - WholeBlocks(n, b) < b
         /\ WholeBlocks(n, b) >= b => \E k \in Nat : WholeBlocks(n, b) = k * b
<1> DEFINE q == n \div b
<1>1. q \in Int /\ q * b <= n /\ n - q * b < b
  <2>1. n = b * q + (n % b) /\ n % b \in 0..(b - 1) /\ q \in Int
    OBVIOUS
  <2>2. b * q = q * b /\ q * b \in Int
    BY <2>1
  <2> HIDE DEF q
  <2> QED BY <2>1, <2>2
<1> HIDE DEF q
<1>2. q * b \in Int
  BY <1>1
<1>3. q * b >= b => q \in Nat
  <2> SUFFICES ASSUME q < 0 PROVE q * b < b
    BY <1>1
  <2> QED BY <1>1
<1>4. WholeBlocks(n, b) = q * b
  BY DEF WholeBlocks, q
<1> QED BY <1>1, <1>2, <1>3, <1>4

\* The wrapper is one of those BlockAssumption describes.
LEMMA ScanTyped ==
  ASSUME BlockAssumption, BlockTyped
  PROVE  /\ scan.bound \in {"window", "starts", "carried"}
         /\ scan.slack \in Nat /\ scan.lead \in {0, 1}
         /\ Ahead \in Nat /\ End \in Int /\ End <= size
         /\ IF scan.bound = "window" THEN scan.slack <= Ahead ELSE Ahead <= scan.slack
         /\ scan.overlap => scan.bound = "starts"
<1>1. IsScan(scan)
  BY DEF BlockAssumption, BlockTyped
<1>2. scan.ahead \in Seq(Nat) /\ pass \in DOMAIN scan.ahead
  BY <1>1 DEF IsScan, BlockTyped
<1>3. Ahead \in Nat
  BY <1>2 DEF Ahead
<1> QED BY <1>1, <1>2, <1>3 DEF IsScan, BlockTyped, Ahead, End

\* The blocks of a pass fit, whatever bounds them.
LEMMA FullFits ==
  ASSUME BlockAssumption, BlockTyped, NEW b \in Nat \ {0}, FullOf(b) >= b
  PROVE  /\ FullOf(b) \in Int
         /\ cursor + FullOf(b) <= End /\ cursor + FullOf(b) + ReadBehind(b) <= size
         /\ scan.bound = "starts" => End - (cursor + FullOf(b)) < b
         /\ \E k \in Nat : FullOf(b) = k * b
<1>0. cursor \in Nat /\ size \in Nat
  BY DEF BlockTyped
<1>1. CASE scan.bound = "window"
  <2> DEFINE n == size - cursor - Ahead
  <2>1. n \in Int /\ n <= End - cursor
    BY <1>0, <1>1, ScanTyped DEF End
  <2>2. FullOf(b) = WholeBlocks(n, b)
    BY <1>1 DEF FullOf, WindowFull
  <2>3. ReadBehind(b) = Ahead
    BY <1>1 DEF ReadBehind
  <2>4. FullOf(b) \in Int /\ FullOf(b) <= n /\ \E k \in Nat : FullOf(b) = k * b
    <3> HIDE DEF n
    <3> QED BY <2>1, <2>2, WholeBlocksFill
  <2> QED BY <1>0, <1>1, <2>1, <2>3, <2>4, ScanTyped
<1>2. ASSUME scan.bound # "window", FullOf(b) = StartsFull(b)
      PROVE  /\ FullOf(b) \in Int /\ cursor + FullOf(b) <= End
             /\ End - (cursor + FullOf(b)) < b
             /\ \E k \in Nat : FullOf(b) = k * b
  <2> DEFINE n == End - cursor
  <2>1. n \in Int
    BY <1>0, ScanTyped
  <2>2. FullOf(b) = WholeBlocks(n, b)
    BY <1>2 DEF StartsFull
  <2>3. /\ FullOf(b) \in Int /\ FullOf(b) <= n /\ n - FullOf(b) < b
        /\ \E k \in Nat : FullOf(b) = k * b
    <3> HIDE DEF n
    <3> QED BY <1>2, <2>1, <2>2, WholeBlocksFill
  <2>4. cursor + FullOf(b) <= End /\ End - (cursor + FullOf(b)) < b
    BY <1>0, <2>3, ScanTyped
  <2> QED BY <2>3, <2>4
<1>3. CASE scan.bound = "starts"
  <2>1. FullOf(b) = StartsFull(b) /\ ReadBehind(b) = Ahead
    BY <1>3 DEF FullOf, ReadBehind
  <2>2. Ahead \in Nat /\ Ahead <= scan.slack /\ scan.slack \in Nat /\ End = size - scan.slack
    BY <1>3, ScanTyped DEF End
  <2> QED BY <1>0, <1>2, <1>3, <2>1, <2>2
<1>4. CASE scan.bound = "carried"
  <2> DEFINE n == size - cursor - b
             room == WholeBlocks(n, b)
  <2>1. n \in Int
    BY <1>0
  <2>2. room \in Int /\ room <= n /\ (room >= b => \E k \in Nat : room = k * b)
    <3> HIDE DEF n
    <3> QED BY <2>1, WholeBlocksFill
  <2>3. FullOf(b) = IF room > End - cursor THEN StartsFull(b) ELSE room
    BY <1>4 DEF FullOf, CarriedFull
  <2>4. ReadBehind(b) = b
    BY <1>4 DEF ReadBehind
  <2> HIDE DEF room
  <2>5. CASE room > End - cursor
    <3>1. FullOf(b) = StartsFull(b)
      BY <2>3, <2>5
    <3>2. FullOf(b) \in Int /\ FullOf(b) <= End - cursor /\ \E k \in Nat : FullOf(b) = k * b
      BY <1>0, <1>2, <1>4, <3>1, ScanTyped
    <3> QED BY <1>0, <1>4, <2>2, <2>4, <2>5, <3>2, ScanTyped
  <2>6. CASE ~(room > End - cursor)
    BY <1>0, <1>4, <2>2, <2>3, <2>4, <2>6, ScanTyped
  <2> QED BY <2>5, <2>6
<1> QED BY <1>1, <1>3, <1>4, ScanTyped

-----------------------------------------------------------------------------
\* The first lane of a block, if a block from "a" has one.
LEMMA FirstLane ==
  ASSUME BlockAssumption, BlockTyped, NEW a \in Nat, Lanes(a) # {}
  PROVE  /\ Min(Lanes(a)) \in a..(a + block - 1)
         /\ Min(Lanes(a)) - scan.lead \in hits \cup aliases
         /\ \A h \in hits : a <= h + scan.lead => Min(Lanes(a)) <= h + scan.lead
<1>0. block \in Nat /\ scan.lead \in {0, 1} /\ hits \subseteq Int
  BY ScanTyped DEF BlockTyped, BlockAssumption
<1>1. Lanes(a) \subseteq a..(a + block - 1)
  BY DEF Lanes
<1>2. Lanes(a) \in SUBSET Nat
  BY <1>0, <1>1
<1>3. Min(Lanes(a)) \in Lanes(a) /\ \A y \in Lanes(a) : Min(Lanes(a)) <= y
  BY <1>2, LowestExists
<1>4. ASSUME NEW h \in hits, a <= h + scan.lead
      PROVE  Min(Lanes(a)) <= h + scan.lead
  <2>1. CASE h + scan.lead <= a + block - 1
    <3>1. (h + scan.lead) - scan.lead = h
      BY <1>0
    <3>2. h + scan.lead \in Lanes(a)
      BY <1>0, <1>4, <2>1, <3>1 DEF Lanes
    <3> QED BY <1>3, <3>2
  <2>2. CASE ~(h + scan.lead <= a + block - 1)
    BY <1>0, <1>1, <1>3, <2>2
  <2> QED BY <2>1, <2>2
<1> QED BY <1>1, <1>3, <1>4 DEF Lanes

\* A block without a lane has no hit.
LEMMA NoLane ==
  ASSUME BlockAssumption, BlockTyped, NEW a \in Nat, Lanes(a) = {},
         NEW h \in hits, a <= h + scan.lead
  PROVE  a + block <= h + scan.lead
<1>0. block \in Nat /\ scan.lead \in {0, 1} /\ hits \subseteq Int
  BY ScanTyped DEF BlockTyped, BlockAssumption
<1>1. h \in Int /\ (h + scan.lead) - scan.lead = h
  BY <1>0
<1>2. ~(h + scan.lead \in a..(a + block - 1))
  BY <1>1 DEF Lanes
<1> QED BY <1>0, <1>1, <1>2

\* A wrapper that returns position p - lead, with no hit before it, lands well.
LEMMA StopLands ==
  ASSUME BlockAssumption, BlockTyped, NEW p \in Int,
         from + scan.lead <= p, p < End,
         p - scan.lead \in hits \cup aliases,
         \A h \in hits : p <= h + scan.lead,
         StopAt(p)
  PROVE  /\ stop' \in from..Nowhere
         /\ hits \cap (from..(stop' - 1)) = {}
         /\ stop' \in hits \cup aliases
<1>0. /\ size \in Nat /\ from \in 0..size /\ hits \subseteq Int
      /\ scan.lead \in {0, 1} /\ End \in Int /\ End <= size
  BY ScanTyped DEF BlockTyped
<1>1. stop' = p - scan.lead
  BY DEF StopAt
<1>2. from <= stop' /\ stop' <= Nowhere /\ Nowhere \in Int
  <2>1. CASE scan.lead = 1
    BY <1>0, <1>1, <2>1 DEF Nowhere
  <2>2. CASE scan.lead = 0
    BY <1>0, <1>1, <2>2 DEF Nowhere, Larger
  <2> QED BY <1>0, <2>1, <2>2
<1>3. ASSUME NEW h \in hits PROVE h \notin from..(stop' - 1)
  BY <1>0, <1>1, <1>3
<1> QED BY <1>0, <1>1, <1>2, <1>3

-----------------------------------------------------------------------------
LEMMA BlockInitHolds ==
  ASSUME BlockAssumption, BlockInit
  PROVE  BlockIInv
<1>1. IsScan(scan)
  BY DEF BlockInit, BlockAssumption
<1>2. /\ scan.slack \in Nat /\ scan.lead \in {0, 1}
      /\ size \in Nat /\ from \in 0..size
      /\ hits \subseteq from..(End - 1 - scan.lead) /\ aliases \subseteq from..(size - 1)
  <2>1. scan.slack \in Nat /\ scan.lead \in {0, 1} /\ size \in Nat /\ from \in 0..size
    BY <1>1 DEF BlockInit, BlockAssumption, IsScan
  <2>2. hits \subseteq from..(End - 1 - scan.lead)
    BY DEF BlockInit, kSubset
  <2>3. aliases \subseteq from..(size - 1)
    BY DEF BlockInit
  <2> QED BY <2>1, <2>2, <2>3
<1>3. pass \in DOMAIN scan.ahead
  BY <1>1 DEF BlockInit, IsScan
<1>4. BlockTyped
  BY <1>2, <1>3 DEF BlockInit, BlockTyped
<1>5. PassesNoHit
  BY <1>2 DEF BlockInit, PassesNoHit, End
<1> QED
  BY <1>2, <1>4, <1>5 DEF BlockInit, BlockIInv, BlocksFit, OverlapFits, LoadsInBounds, LandsAtFirst

LEMMA EnterBlocksKeeps ==
  ASSUME BlockAssumption, BlockIInv, EnterBlocks
  PROVE  BlockIInv'
<1>0. BlockTyped /\ cursor \in Nat
  BY DEF BlockIInv, BlockTyped
<1>1. BlockSize \in {Narrow, Wide} /\ BlockSize \in Nat \ {0} /\ FullOf(BlockSize) >= BlockSize
  BY DEF EnterBlocks, BlockSize, BlockAssumption
<1>2. /\ FullOf(BlockSize) \in Int
      /\ cursor + FullOf(BlockSize) <= End /\ cursor + FullOf(BlockSize) + ReadBehind(BlockSize) <= size
      /\ scan.bound = "starts" => End - (cursor + FullOf(BlockSize)) < BlockSize
      /\ \E k \in Nat : FullOf(BlockSize) = k * BlockSize
  BY <1>0, <1>1, FullFits
<1>3. BlockTyped'
  BY <1>0, <1>1, <1>2 DEF EnterBlocks, search, BlockTyped, End
<1>4. PassesNoHit'
  BY DEF BlockIInv, PassesNoHit, EnterBlocks, search
<1>5. BlocksFit'
  <2>1. /\ block' = BlockSize /\ full' = cursor + FullOf(BlockSize)
        /\ UNCHANGED <<scan, size, from, pass, cursor>>
    BY DEF EnterBlocks, search
  <2>2. End' = End /\ ReadBehind(block)' = ReadBehind(BlockSize)
    BY <2>1 DEF End, ReadBehind, Ahead
  <2>3. from + scan.lead <= full' - block'
    <3>1. from + scan.lead <= cursor /\ from \in Nat /\ scan.lead \in Nat
      BY <1>0, ScanTyped DEF BlockTyped
    <3> QED BY <1>0, <1>1, <1>2, <2>1, <3>1
  <2>4. \E k \in Nat : full' = cursor' + k * block'
    BY <1>2, <2>1
  <2>5. full' <= End' /\ full' + ReadBehind(block)' <= size'
    BY <1>2, <2>1, <2>2
  <2>6. scan'.bound = "starts" => End' - full' < block'
    BY <1>2, <2>1, <2>2
  <2>7. block' > 0
    BY <1>1, <2>1
  <2> QED BY <2>1, <2>3, <2>4, <2>5, <2>6, <2>7 DEF BlocksFit
<1>6. OverlapFits' /\ LandsAtFirst'
  BY DEF EnterBlocks, OverlapFits, LandsAtFirst
<1>7. LoadsInBounds'
  BY DEF BlockIInv, EnterBlocks, search, LoadsInBounds
<1> QED BY <1>3, <1>4, <1>5, <1>6, <1>7 DEF BlockIInv

\* The next pass of blocks, or the loop over bytes, takes over where one ends.
LEMMA NextPassKeeps ==
  ASSUME BlockAssumption, BlockIInv, loop # "done", NextPass,
         UNCHANGED <<search, block, full, cursor, reach, stop>>
  PROVE  BlockIInv'
<1>1. scan.ahead \in Seq(Nat) /\ pass \in DOMAIN scan.ahead
  BY DEF BlockIInv, BlockTyped, BlockAssumption, IsScan
<1>2. pass' \in DOMAIN scan.ahead
  BY <1>1 DEF NextPass
<1>3. BlockTyped'
  BY <1>2 DEF BlockIInv, BlockTyped, NextPass, search, End
<1>4. PassesNoHit' /\ LoadsInBounds'
  BY DEF BlockIInv, PassesNoHit, LoadsInBounds, search
<1>5. BlocksFit' /\ OverlapFits' /\ LandsAtFirst'
  BY DEF NextPass, BlocksFit, OverlapFits, LandsAtFirst
<1> QED BY <1>3, <1>4, <1>5 DEF BlockIInv

LEMMA BlockKeeps ==
  ASSUME BlockAssumption, BlockIInv, LoadBlock
  PROVE  BlockIInv'
<1>0. /\ BlockTyped /\ BlocksFit /\ PassesNoHit /\ loop = "blocks" /\ cursor < full
      /\ UNCHANGED <<search, block, full>>
  BY DEF BlockIInv, LoadBlock
<1>1. /\ cursor \in Nat /\ size \in Nat /\ from \in Nat /\ reach \in Nat /\ reach <= size
      /\ full \in Int /\ block \in Nat \ {0} /\ ReadBehind(block) \in Nat
      /\ scan.lead \in {0, 1} /\ End \in Int /\ from + scan.lead <= cursor
  <2>1. block \in Nat \ {0}
    BY <1>0 DEF BlockTyped, BlocksFit, BlockAssumption
  <2> QED BY <1>0, <2>1, ScanTyped DEF BlockTyped, ReadBehind, BlockIInv, LoadsInBounds
<1>2. PICK k \in Nat : full = cursor + k * block
  BY <1>0 DEF BlocksFit
<1>3. /\ k - 1 \in Nat /\ full = (cursor + block) + (k - 1) * block
      /\ cursor + block <= full
  <2>1. k # 0
    BY <1>0, <1>1, <1>2
  <2>2. k * block = block + (k - 1) * block /\ (k - 1) * block \in Nat
    BY <1>1, <2>1
  <2> QED BY <1>1, <1>2, <2>1, <2>2
<1>4. LoadedTo(cursor) \in Nat /\ LoadedTo(cursor) <= size
  <2>1. LoadedTo(cursor) = cursor + block + ReadBehind(block)
    BY DEF LoadedTo, ReadBehind
  <2>2. full + ReadBehind(block) <= size
    BY <1>0 DEF BlocksFit
  <2> QED BY <1>1, <1>3, <2>1, <2>2
<1>5. reach' \in Nat /\ reach' <= size
  BY <1>1, <1>4 DEF LoadBlock, Larger
<1>6. LoadsInBounds'
  BY <1>0, <1>5 DEF search, LoadsInBounds
<1>7. CASE Lanes(cursor) # {}
  <2> DEFINE p == Min(Lanes(cursor))
  <2>1. /\ p \in cursor..(cursor + block - 1) /\ p - scan.lead \in hits \cup aliases
        /\ \A h \in hits : cursor <= h + scan.lead => p <= h + scan.lead
    BY <1>0, <1>1, <1>7, FirstLane
  <2>2. StopAt(p)
    BY <1>7 DEF LoadBlock
  <2>3. from + scan.lead <= p /\ p < End /\ p \in Int
    BY <1>0, <1>1, <1>3, <2>1 DEF BlocksFit
  <2>4. \A h \in hits : p <= h + scan.lead
    BY <1>0, <2>1 DEF PassesNoHit
  <2> HIDE DEF p
  <2>5. /\ stop' \in from..Nowhere
        /\ hits \cap (from..(stop' - 1)) = {}
        /\ stop' \in hits \cup aliases
    BY <1>0, <2>1, <2>2, <2>3, <2>4, StopLands
  <2>6. loop' = "done" /\ UNCHANGED <<pass, cursor>>
    BY <2>2 DEF StopAt
  <2>7. BlockTyped'
    BY <1>0, <1>5, <2>6 DEF BlockTyped, search, End
  <2>8. LandsAtFirst'
    BY <1>0, <2>5 DEF LandsAtFirst, search, Nowhere, End
  <2> QED BY <1>6, <2>6, <2>7, <2>8 DEF BlockIInv, PassesNoHit, BlocksFit, OverlapFits
<1>8. CASE Lanes(cursor) = {}
  <2>1. cursor' = cursor + block /\ UNCHANGED <<loop, pass, stop>>
    BY <1>8 DEF LoadBlock
  <2>2. BlockTyped'
    BY <1>0, <1>1, <1>5, <2>1 DEF BlockTyped, search, End
  <2>3. PassesNoHit'
    BY <1>0, <1>1, <1>8, <2>1, NoLane DEF PassesNoHit, search
  <2>4. BlocksFit'
    <3>1. End' = End /\ ReadBehind(block)' = ReadBehind(block)
      BY <1>0, <2>1 DEF End, ReadBehind, Ahead, search
    <3>2. \E j \in Nat : full' = cursor' + j * block'
      BY <1>0, <1>3, <2>1
    <3> QED BY <1>0, <2>1, <3>1, <3>2 DEF BlocksFit, search
  <2>5. OverlapFits' /\ LandsAtFirst'
    BY <1>0, <2>1 DEF OverlapFits, LandsAtFirst
  <2> QED BY <1>6, <2>2, <2>3, <2>4, <2>5 DEF BlockIInv
<1> QED BY <1>7, <1>8

LEMMA LeaveBlocksKeeps ==
  ASSUME BlockAssumption, BlockIInv, LeaveBlocks
  PROVE  BlockIInv'
<1>0. /\ BlockTyped /\ BlocksFit /\ loop = "blocks" /\ cursor = full
      /\ UNCHANGED <<search, block, full, cursor, reach, stop>>
  BY DEF BlockIInv, LeaveBlocks
<1>1. CASE ~MustOverlap
  BY <1>0, <1>1, NextPassKeeps DEF LeaveBlocks
<1>2. CASE MustOverlap
  <2>1. loop' = "overlap" /\ UNCHANGED pass
    BY <1>2 DEF LeaveBlocks
  <2>2. BlockTyped'
    BY <1>0, <2>1 DEF BlockTyped, search, End
  <2>3. PassesNoHit' /\ LoadsInBounds'
    BY <1>0 DEF BlockIInv, PassesNoHit, LoadsInBounds, search
  <2>4. /\ scan.bound = "starts" /\ block > 0
        /\ from + scan.lead <= TailAt /\ TailAt <= cursor /\ cursor <= End
    <3>1. scan.bound = "starts"
      BY <1>0, <1>2, ScanTyped DEF MustOverlap
    <3>2. /\ block \in Nat /\ full \in Int /\ End \in Int
          /\ from \in Nat /\ scan.lead \in Nat
      BY <1>0, ScanTyped DEF BlockTyped, BlockAssumption
    <3>3. block > 0 /\ full <= End /\ End - full < block /\ from + scan.lead <= full - block
      BY <1>0, <3>1 DEF BlocksFit
    <3> QED BY <1>0, <3>1, <3>2, <3>3 DEF TailAt
  <2>5. OverlapFits'
    BY <1>0, <2>4 DEF OverlapFits, TailAt, End, search
  <2>6. BlocksFit' /\ LandsAtFirst'
    BY <2>1 DEF BlocksFit, LandsAtFirst
  <2> QED BY <2>2, <2>3, <2>5, <2>6 DEF BlockIInv
<1> QED BY <1>1, <1>2

LEMMA OverlapKeeps ==
  ASSUME BlockAssumption, BlockIInv, Overlap
  PROVE  BlockIInv'
<1>0. /\ BlockTyped /\ OverlapFits /\ PassesNoHit /\ loop = "overlap"
      /\ UNCHANGED <<search, block, full>>
  BY DEF BlockIInv, Overlap
<1>1. /\ cursor \in Nat /\ size \in Nat /\ from \in Nat /\ reach \in Nat /\ reach <= size
      /\ block \in Nat \ {0} /\ Ahead \in Nat /\ scan.slack \in Nat
      /\ scan.lead \in {0, 1} /\ End \in Int /\ hits \subseteq Int
      /\ scan.bound = "starts" /\ Ahead <= scan.slack
  <2>1. block \in Nat \ {0}
    BY <1>0 DEF BlockTyped, OverlapFits, BlockAssumption
  <2> QED BY <1>0, <2>1, ScanTyped DEF BlockTyped, BlockIInv, LoadsInBounds, OverlapFits
<1>2. /\ TailAt \in Nat /\ TailAt + block = End
      /\ from + scan.lead <= TailAt /\ TailAt <= cursor /\ cursor <= End
  BY <1>0, <1>1 DEF OverlapFits, TailAt
<1>3. LoadedTo(TailAt) \in Nat /\ LoadedTo(TailAt) <= size
  <2>1. LoadedTo(TailAt) = End + Ahead
    BY <1>1, <1>2 DEF LoadedTo
  <2> QED BY <1>1, <1>2, <2>1 DEF End
<1>4. reach' \in Nat /\ reach' <= size
  BY <1>1, <1>3 DEF Overlap, Larger
<1>5. LoadsInBounds'
  BY <1>0, <1>4 DEF search, LoadsInBounds
<1>6. \A h \in hits : TailAt <= h + scan.lead
  BY <1>0, <1>1, <1>2 DEF PassesNoHit
<1>7. CASE Lanes(TailAt) # {}
  <2> DEFINE p == Min(Lanes(TailAt))
  <2>1. /\ p \in TailAt..(TailAt + block - 1) /\ p - scan.lead \in hits \cup aliases
        /\ \A h \in hits : p <= h + scan.lead
    BY <1>0, <1>2, <1>6, <1>7, FirstLane
  <2>2. StopAt(p)
    BY <1>7 DEF Overlap
  <2>3. from + scan.lead <= p /\ p < End /\ p \in Int
    BY <1>1, <1>2, <2>1
  <2> HIDE DEF p
  <2>4. /\ stop' \in from..Nowhere
        /\ hits \cap (from..(stop' - 1)) = {}
        /\ stop' \in hits \cup aliases
    BY <1>0, <2>1, <2>2, <2>3, StopLands
  <2>5. loop' = "done" /\ UNCHANGED <<pass, cursor>>
    BY <2>2 DEF StopAt
  <2>6. BlockTyped'
    BY <1>0, <1>4, <2>5 DEF BlockTyped, search, End
  <2>7. LandsAtFirst'
    BY <1>0, <2>4 DEF LandsAtFirst, search, Nowhere, End
  <2> QED BY <1>5, <2>5, <2>6, <2>7 DEF BlockIInv, PassesNoHit, BlocksFit, OverlapFits
<1>8. CASE Lanes(TailAt) = {}
  <2>1. cursor' = End /\ loop' = "bytes" /\ UNCHANGED <<pass, stop>>
    BY <1>8 DEF Overlap
  <2>2. BlockTyped'
    BY <1>0, <1>1, <1>2, <1>4, <2>1 DEF BlockTyped, search, End
  <2>3. PassesNoHit'
    <3>1. \A h \in hits : TailAt + block <= h + scan.lead
      BY <1>0, <1>2, <1>6, <1>8, NoLane
    <3> QED BY <1>0, <1>2, <2>1, <3>1 DEF PassesNoHit, search
  <2>4. BlocksFit' /\ OverlapFits' /\ LandsAtFirst'
    BY <2>1 DEF BlocksFit, OverlapFits, LandsAtFirst
  <2> QED BY <1>5, <2>2, <2>3, <2>4 DEF BlockIInv
<1> QED BY <1>7, <1>8

LEMMA ByteKeeps ==
  ASSUME BlockAssumption, BlockIInv, Byte
  PROVE  BlockIInv'
<1>0. /\ BlockTyped /\ PassesNoHit /\ loop = "bytes" /\ cursor < End
      /\ UNCHANGED <<search, block, full>>
  BY DEF BlockIInv, Byte
<1>1. /\ cursor \in Nat /\ size \in Nat /\ from \in Nat /\ reach \in Nat /\ reach <= size
      /\ Ahead \in Nat /\ scan.slack \in Nat /\ End = size - scan.slack
      /\ scan.lead \in {0, 1} /\ hits \subseteq Int /\ from + scan.lead <= cursor
  BY <1>0, ScanTyped DEF BlockTyped, BlockIInv, LoadsInBounds, End
<1>2. reach' \in Nat /\ reach' <= size
  BY <1>0, <1>1 DEF Byte, Larger
<1>3. LoadsInBounds'
  BY <1>0, <1>2 DEF search, LoadsInBounds
<1>4. \A h \in hits : cursor <= h + scan.lead
  BY <1>0 DEF PassesNoHit
<1> DEFINE admitted == cursor - scan.lead \in (IF scan.exact THEN hits ELSE hits \cup aliases)
<1>5. CASE admitted
  <2>1. StopAt(cursor)
    BY <1>5 DEF Byte
  <2>2. cursor - scan.lead \in hits \cup aliases
    BY <1>5
  <2>3. /\ stop' \in from..Nowhere
        /\ hits \cap (from..(stop' - 1)) = {}
        /\ stop' \in hits \cup aliases
    BY <1>0, <1>1, <1>4, <2>1, <2>2, StopLands
  <2>4. loop' = "done" /\ UNCHANGED <<pass, cursor>>
    BY <2>1 DEF StopAt
  <2>5. BlockTyped'
    BY <1>0, <1>2, <2>4 DEF BlockTyped, search, End
  <2>6. LandsAtFirst'
    BY <1>0, <2>3 DEF LandsAtFirst, search, Nowhere, End
  <2> QED BY <1>3, <2>4, <2>5, <2>6 DEF BlockIInv, PassesNoHit, BlocksFit, OverlapFits
<1>6. CASE ~admitted
  <2>1. cursor' = cursor + 1 /\ UNCHANGED <<loop, pass, stop>>
    BY <1>6 DEF Byte
  <2>2. BlockTyped'
    BY <1>0, <1>1, <1>2, <2>1 DEF BlockTyped, search, End
  <2>3. PassesNoHit'
    <3>1. \A h \in hits : cursor # h + scan.lead
      BY <1>1, <1>6
    <3> QED BY <1>0, <1>1, <1>4, <2>1, <3>1 DEF PassesNoHit, search
  <2>4. BlocksFit' /\ OverlapFits' /\ LandsAtFirst'
    BY <1>0, <2>1 DEF BlocksFit, OverlapFits, LandsAtFirst
  <2> QED BY <1>3, <2>2, <2>3, <2>4 DEF BlockIInv
<1> QED BY <1>5, <1>6

LEMMA ExhaustedKeeps ==
  ASSUME BlockAssumption, BlockIInv, Exhausted
  PROVE  BlockIInv'
<1>0. /\ BlockTyped /\ PassesNoHit /\ loop = "bytes" /\ cursor >= End
      /\ loop' = "done" /\ stop' = Nowhere
      /\ UNCHANGED <<search, pass, block, full, cursor, reach>>
  BY DEF BlockIInv, Exhausted
<1>1. /\ cursor \in Nat /\ size \in Nat /\ from \in 0..size /\ scan.lead \in {0, 1}
      /\ End \in Int /\ hits \subseteq from..(End - 1 - scan.lead)
  BY <1>0, ScanTyped DEF BlockTyped
<1>2. hits = {}
  <2>1. ASSUME NEW h \in hits PROVE FALSE
    BY <1>0, <1>1, <2>1 DEF PassesNoHit
  <2> QED BY <2>1
<1>3. Nowhere \in Int /\ from <= Nowhere
  BY <1>1 DEF Nowhere, Larger
<1>4. LandsAtFirst'
  BY <1>0, <1>1, <1>2, <1>3 DEF LandsAtFirst, search, Nowhere, End
<1>5. BlockTyped'
  BY <1>0 DEF BlockTyped, search, End
<1> QED BY <1>0, <1>4, <1>5 DEF BlockIInv, PassesNoHit, BlocksFit, OverlapFits, LoadsInBounds, search

LEMMA BlockStepKeeps ==
  ASSUME BlockAssumption, BlockIInv, [BlockNext]_blockVars
  PROVE  BlockIInv'
<1>1. CASE NoBlocks
  BY <1>1, NextPassKeeps DEF NoBlocks
<1>2. CASE UNCHANGED blockVars
  BY <1>2 DEF blockVars, search, BlockIInv, BlockTyped, PassesNoHit, BlocksFit, OverlapFits, ReadBehind, Ahead,
              TailAt, End, LoadsInBounds, LandsAtFirst, Nowhere
<1>3. CASE BlockDone
  BY <1>2, <1>3 DEF BlockDone
<1> QED
  BY <1>1, <1>2, <1>3, EnterBlocksKeeps, BlockKeeps, LeaveBlocksKeeps, OverlapKeeps,
     ByteKeeps, ExhaustedKeeps DEF BlockNext

THEOREM BlockInvariance == BlockSpec => []BlockIInv
<1>1. BlockInit => BlockIInv
  BY BlockAssumption, BlockInitHolds
<1>2. BlockIInv /\ [BlockNext]_blockVars => BlockIInv'
  BY BlockAssumption, BlockStepKeeps
<1> QED BY <1>1, <1>2, PTL DEF BlockSpec

(***************************************************************************)
(* Nothing behind the haystack is loaded, by the blocks of any processor,  *)
(* the overlapping one, the carried one or the loop over bytes.            *)
(***************************************************************************)
THEOREM LoadsStayInBounds == BlockSpec => []LoadsInBounds
<1>1. BlockIInv => LoadsInBounds
  BY DEF BlockIInv
<1> QED BY <1>1, BlockInvariance, PTL

(***************************************************************************)
(* A wrapper returns the first position of its screen, or an earlier one   *)
(* that a kernel's tables admit, or its end: no start is skipped where one *)
(* block ends and the next, an overlapping one or a byte begins.           *)
(***************************************************************************)
THEOREM SkipsLandAtFirst == BlockSpec => []LandsAtFirst
<1>1. BlockIInv => LandsAtFirst
  BY DEF BlockIInv
<1> QED BY <1>1, BlockInvariance, PTL
=============================================================================
