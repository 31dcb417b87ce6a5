---------------------------- MODULE ScanDecoded -----------------------------
(***************************************************************************)
(* The unfiltered executors of plan.go: findUnfilteredDecodedLegacy (and   *)
(* its twin for windows, findUnfilteredWithStarts), the decoded loop       *)
(* findNonASCIIDecoded it falls into at the first non-ASCII byte, and      *)
(* findExactBytes of exact plans.                                          *)
(*                                                                         *)
(* One step is one iteration of one of the loops.  While every unit is one *)
(* byte wide a match's start is computed; after the first wider unit it is *)
(* read from a ring of recent offsets, starts[unit % len].                 *)
(***************************************************************************)
EXTENDS FoldPlan

CONSTANTS PatternSets, Haystacks, Pending,
          InlineStarts,  \* the ring's inline size, 256
          StaleStarts,   \* what a ring lent by the caller may still hold
          Block          \* the bytes of a root-free block, 16

ASSUME ScanAssumption ==
  /\ AsciiTokens \subseteq Token
  /\ \A p \in PatternSets : IsPatternSet(p)
  /\ \A h \in Haystacks : IsHaystack(h)
  /\ InlineStarts \in Nat \ {0}
  /\ StaleStarts \subseteq Nat
  /\ Block \in Nat \ {0}

VARIABLES pats, maxUnits, exact,   \* the plan
          hay,                     \* the argument
          phase,                   \* which loop is running
          at, unit, state, bestUnitStart, best, starts

plan == <<pats, maxUnits, exact, hay>>
vars == <<plan, phase, at, unit, state, bestUnitStart, best, starts>>

Phases == {"dispatch", "ascii", "decoded", "bytes", "done"}

RingLen == IF maxUnits > InlineStarts THEN maxUnits ELSE InlineStarts

TypeOK ==
  /\ IsPatternSet(pats)
  /\ IsHaystack(hay)
  /\ exact \in BOOLEAN
  /\ maxUnits \in Nat
  /\ phase \in Phases
  /\ at \in Nat
  /\ unit \in 0..hay.n
  /\ state \in Nodes(pats)
  /\ bestUnitStart \in -1..hay.n
  /\ best \in [pattern : {-1} \cup Ids(pats), start : -1..Bytes(hay)]
  /\ starts \in [0..(RingLen - 1) -> Nat]

Init ==
  /\ pats \in PatternSets
  /\ maxUnits \in {0} \cup {Len(pats[id]) : id \in Ids(pats)}
  /\ IsMaxUnits(pats, maxUnits)
  /\ hay \in Haystacks
  /\ exact \in BOOLEAN
  /\ exact => ByteUnits(hay)
  /\ phase = "dispatch"
  /\ at = 0 /\ unit = 0 /\ state = <<>>
  /\ bestUnitStart = -1
  /\ best = NoMatch
  /\ \E stale \in StaleStarts : starts = [i \in 0..(RingLen - 1) |-> stale]

\* p.empty: the lowest empty pattern is a candidate at start zero, not an
\* immediate answer, unless there is no other pattern.
Dispatch ==
  /\ phase = "dispatch"
  /\ phase' = IF maxUnits = 0 THEN "done" ELSE IF exact THEN "bytes" ELSE "ascii"
  /\ \/ /\ EmptyIds(pats) = {}
        /\ UNCHANGED <<bestUnitStart, best>>
     \/ \E id \in EmptyIds(pats) :
          /\ \A other \in EmptyIds(pats) : id <= other
          /\ bestUnitStart' = 0
          /\ best' = [pattern |-> id, start |-> 0]
  /\ UNCHANGED <<plan, at, unit, state, starts>>

-----------------------------------------------------------------------------
AsciiAt(u) == u < hay.n /\ hay.ascii[u]

\* rootKind # rootGeneric: r is the only root an ASCII byte can reach.
SingleRoot(r) == r \in AsciiTokens /\ RootTokens(pats) \cap AsciiTokens = {r}

\* pairKind # rootGeneric: moreover r alone is no pattern, and q is the only
\* token that can follow it and an ASCII one.
SinglePair(r, q) ==
  /\ SingleRoot(r)
  /\ \A id \in Ids(pats) : pats[id] # <<r>>
  /\ q \in AsciiTokens
  /\ EdgeTokens(pats, <<r>>) = {q}

\* rootSkipASCII and pairSkipASCII stop at u.
RootStop(r, u) == AsciiAt(u) => hay.tok[u] = r
\* Mutated form: a root before a wider second unit is stepped over.
PairStopAscii(r, q, u) ==
  AsciiAt(u) => hay.tok[u] = r /\ AsciiAt(u + 1) /\ hay.tok[u + 1] = q

PairStop(r, q, u) ==
  AsciiAt(u) /\ AsciiAt(u + 1) => hay.tok[u] = r /\ hay.tok[u + 1] = q

FirstStop(Stop(_), u) == Stop(u) /\ \A v \in unit..(u - 1) : ~Stop(v)

\* From the root, the loop steps over the units before u at once.
CanSkip(u) ==
  \/ \E r, q \in AsciiTokens : SinglePair(r, q) /\ FirstStop(LAMBDA v : PairStop(r, q, v), u)
  \/ \E r \in AsciiTokens :
       /\ SingleRoot(r)
       /\ \A q \in AsciiTokens : ~SinglePair(r, q)
       /\ FirstStop(LAMBDA v : RootStop(r, v), u)
  \/ /\ \A r \in AsciiTokens : ~SingleRoot(r)
     /\ u = unit + Block
     /\ \A v \in unit..(u - 1) : AsciiAt(v) /\ hay.tok[v] \notin RootTokens(pats)

\* Mutated form: one unit too early.
SettledEarly(b, last) == b >= 0 /\ last >= b + maxUnits - 2

\* No later end can improve on a best that starts at unit b.
Settled(b, last) == b >= 0 /\ last >= b + maxUnits - 1

\* Mutated form: the loop resumes after the unit it should stop at.
SkipAsciiPast ==
  /\ phase = "ascii"
  /\ AsciiAt(unit)
  /\ state = <<>>
  /\ \E u \in (unit + 1)..hay.n :
       /\ CanSkip(u)
       /\ at' = at + (u - unit) + 1
       /\ unit' = u + 1
  /\ UNCHANGED <<plan, phase, state, bestUnitStart, best, starts>>

SkipAscii ==
  /\ phase = "ascii"
  /\ AsciiAt(unit)
  /\ state = <<>>
  /\ \E u \in (unit + 1)..hay.n :
       /\ CanSkip(u)
       /\ \/ /\ Settled(bestUnitStart, u - 1)
             /\ phase' = "done"
             /\ UNCHANGED <<at, unit>>
          \/ /\ ~Settled(bestUnitStart, u - 1)
             /\ at' = at + (u - unit)
             /\ unit' = u
             /\ UNCHANGED phase
  /\ UNCHANGED <<plan, state, bestUnitStart, best, starts>>

(***************************************************************************)
(* The body the three loops share: advance, look at the node's output,     *)
(* keep the better match, return early or go on with the next unit.        *)
(***************************************************************************)
\* Mutated form: among matches of one start, the first to end.
ImprovesEarlier(out, startUnit) ==
  /\ out.pattern >= 0
  /\ bestUnitStart < 0 \/ startUnit < bestUnitStart

Improves(out, startUnit) ==
  /\ out.pattern >= 0
  /\ \/ bestUnitStart < 0
     \/ startUnit < bestUnitStart
     \/ startUnit = bestUnitStart /\ out.pattern < best.pattern

\* The byte at which a unit starts.
StartOf(startUnit) ==
  IF phase = "decoded" THEN starts'[startUnit % RingLen] ELSE startUnit

Consume ==
  LET u == UnitAt(hay, at) IN
  \E next \in Nodes(pats) :
  /\ IsAdvance(pats, state, hay.tok[u], next)
  /\ state' = next
  /\ \E out \in Outputs(pats) :
    LET startUnit == unit - out.units + 1 IN
    /\ IsOutput(pats, next, out)
    /\ \/ /\ Improves(out, startUnit)
          /\ bestUnitStart' = startUnit
          /\ best' = [pattern |-> out.pattern, start |-> StartOf(startUnit)]
       \/ /\ ~Improves(out, startUnit)
          /\ UNCHANGED <<bestUnitStart, best>>
    /\ \/ /\ Settled(bestUnitStart', unit)
          /\ phase' = "done"
          /\ UNCHANGED <<at, unit>>
       \/ /\ ~Settled(bestUnitStart', unit)
          /\ at' = hay.off[u + 1]
          /\ unit' = unit + 1
          /\ UNCHANGED phase

StepAscii ==
  /\ phase = "ascii"
  /\ AsciiAt(unit)
  /\ state = <<>> => \A u \in (unit + 1)..hay.n : ~CanSkip(u)
  /\ Consume
  /\ UNCHANGED <<plan, starts>>

\* findExactBytes: no skipping, every byte a unit.
StepByte ==
  /\ phase = "bytes"
  /\ at < Bytes(hay)
  /\ Consume
  /\ UNCHANGED <<plan, starts>>

\* Mutated form: the ring is left as it was.
EnterDecodedCold ==
  /\ phase = "ascii"
  /\ at < Bytes(hay)
  /\ ~AsciiAt(unit)
  /\ phase' = "decoded"
  /\ UNCHANGED <<plan, at, unit, state, bestUnitStart, best, starts>>

\* The ring is filled with the one-byte units that a match may start at.
EnterDecoded ==
  LET first == IF unit - maxUnits + 1 < 0 THEN 0 ELSE unit - maxUnits + 1 IN
  /\ phase = "ascii"
  /\ at < Bytes(hay)
  /\ ~AsciiAt(unit)
  /\ phase' = "decoded"
  /\ starts' = [i \in 0..(RingLen - 1) |->
                  IF \E prior \in first..(unit - 1) : prior % RingLen = i
                    THEN at - (unit - (CHOOSE prior \in first..(unit - 1) :
                                         prior % RingLen = i))
                    ELSE starts[i]]
  /\ UNCHANGED <<plan, at, unit, state, bestUnitStart, best>>

StepDecoded ==
  /\ phase = "decoded"
  /\ at < Bytes(hay)
  /\ starts' = [starts EXCEPT ![unit % RingLen] = at]
  /\ Consume
  /\ UNCHANGED plan

\* Mutated form: at <= len(haystack) as the loops' condition.
FinishPastEnd ==
  /\ phase \in {"ascii", "decoded", "bytes"}
  /\ at > Bytes(hay)
  /\ phase' = "done"
  /\ UNCHANGED <<plan, at, unit, state, bestUnitStart, best, starts>>

Finish ==
  /\ phase \in {"ascii", "decoded", "bytes"}
  /\ at = Bytes(hay)
  /\ phase' = "done"
  /\ UNCHANGED <<plan, at, unit, state, bestUnitStart, best, starts>>

\* Find has returned; a caller may stop here.
Done == phase = "done" /\ UNCHANGED vars

Next == \/ Dispatch \/ SkipAscii \/ StepAscii \/ StepByte
        \/ EnterDecoded \/ StepDecoded \/ Finish \/ Done

Spec == Init /\ [][Next]_vars

\* One goroutine runs the loops to their end.
FairSpec == Spec /\ WF_vars(Next)

-----------------------------------------------------------------------------
(***************************************************************************)
(* The automaton's state is a suffix of the text read, and holds whatever  *)
(* of a match in progress was read, although a pair skip leaves the root   *)
(* without stepping over the root units it saw.                            *)
(***************************************************************************)
StateTracksText ==
  phase # "done" => EndsText(hay, unit, state) /\ Tracks(pats, hay, unit, state)

(***************************************************************************)
(* best is the best of the occurrences that have ended, although each node *)
(* carries only one output and shorter terminals were dropped from it.     *)
(***************************************************************************)
BestOfSeen ==
  phase \in {"ascii", "decoded", "bytes"} =>
    IsBest(pats, hay, unit, bestUnitStart, best)

(***************************************************************************)
(* The ring, and the arithmetic that stands in for it before the first     *)
(* wider unit, know the offset of every unit an output may yet start at,   *)
(* across the hand-over from one loop to the other and around its end.     *)
(***************************************************************************)
RingHolds ==
  phase = "decoded" =>
    \A u \in 0..(unit - 1) :
      unit - u < maxUnits => starts[u % RingLen] = hay.off[u]

(***************************************************************************)
(* The executor implements the contract of Find: the early return never    *)
(* comes before the leftmost match and the lowest index are known.         *)
(***************************************************************************)
Contract == INSTANCE FindContract WITH
  answer <- IF phase = "done" THEN best ELSE Pending

ImplementsFind == Contract!Spec

\* Every search ends: each iteration consumes input or returns.
Terminates == <>(phase = "done")
=============================================================================
