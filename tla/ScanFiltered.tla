---------------------------- MODULE ScanFiltered ----------------------------
(***************************************************************************)
(* The executors of plan.go that look for a root with a byte screen and    *)
(* run the automaton only behind a hit: findFiltered, and on ASCII input   *)
(* findASCIITripleFiltered and its form for a region of a haystack,        *)
(* findASCIITripleFilteredRange.                                           *)
(*                                                                         *)
(* One step is one iteration of the loop.  At the root the screen skips    *)
(* bytes, undecoded; the offsets of the units read since then are kept in  *)
(* a ring.  A kernel may stop anywhere before the first byte it has to     *)
(* stop at, even inside a unit: the decoder has the last word.             *)
(***************************************************************************)
EXTENDS ByteFilter

CONSTANTS PatternSets, Haystacks, Pending,
          InlineStarts,  \* the ring's inline size, 256
          MinBytes       \* asciiTripleMinBytes, 64

ASSUME FilteredAssumption ==
  /\ Forms \in Seq(SUBSET (Seq(0..255) \ {<<>>}))
  /\ \A p \in PatternSets : IsPatternSet(p) /\ UsedTokens(p) \subseteq DOMAIN Forms
  /\ \A h \in Haystacks : IsSpelled(h)
  /\ InlineStarts \in Nat \ {0} /\ MinBytes \in Nat

VARIABLES pats, maxUnits, screen,   \* the plan, and what finish added for its screens
          hay, from, to,    \* the haystack, and the region that is searched
          phase,            \* "dispatch", the screen that is used, or "done"
          at, state, history, starts, best

args == <<pats, maxUnits, screen, hay, from, to>>
vars == <<args, phase, at, state, history, starts, best>>

\* Mutated form: the ring does not grow.
RingLenInline == InlineStarts

RingLen == IF maxUnits > InlineStarts THEN maxUnits ELSE InlineStarts

AllAscii(h) == \A i \in 0..(Bytes(h) - 1) : h.bytes[i] \in Ascii \ {0}

\* The screens of a plan, as finishFoldFilters leaves them.
ScreenOf(p) ==
  [triples         |-> TripleFilter(p).values,
   triplesComplete |-> TriplesComplete(p),
   asciiTriples    |-> HasAsciiTriples(p),
   filter          |-> IF TriplesComplete(p) THEN NoFilter ELSE RootFilter(p),
   buckets         |-> IF BucketUsable(p) THEN BucketPrefixes(p) ELSE {}]

\* What the whole haystack, or the partition, comes here with.
Init ==
  /\ pats \in PatternSets
  /\ maxUnits \in {Len(pats[id]) : id \in Ids(pats)} \ {0}
  /\ IsMaxUnits(pats, maxUnits)
  /\ ~OpaqueContinuation(pats)
  /\ screen = ScreenOf(pats)
  /\ hay \in Haystacks
  /\ \/ /\ from = 0 /\ to = Bytes(hay)
        /\ phase = "dispatch"
     \/ /\ screen.asciiTriples /\ EmptyIds(pats) = {}
        /\ from \in {hay.off[u] : u \in 0..hay.n}
        /\ to \in {hay.off[u] : u \in 0..hay.n}
        /\ to - from >= MinBytes
        /\ \A i \in from..(to - 1) : hay.bytes[i] \in Ascii \ {0}
        /\ phase = "region"
  /\ at = from /\ state = <<>> /\ history = 0
  /\ starts = [i \in 0..(RingLen - 1) |-> 0]
  /\ best = NoMatch

(***************************************************************************)
(* The end of findWithWidth: which screen is used, if any.  The lowest     *)
(* empty pattern is a candidate at start zero.                             *)
(***************************************************************************)
Screened(vector, useBucket) ==
  IF vector /\ screen.asciiTriples /\ Bytes(hay) >= MinBytes /\ AllAscii(hay)
    THEN "asciiTriples"
  ELSE IF screen.triplesComplete /\ (Cardinality(Ids(pats)) = 1 \/ RootGeneric(pats))
    THEN IF useBucket THEN "buckets" ELSE "triples"
  ELSE IF RootGeneric(pats) /\ screen.filter # NoFilter
    THEN IF PairSecond(screen.filter) THEN "pairSecond" ELSE "filter"
  ELSE "done"

\* The machine has the vectors (runtimeVectorBits() == 512) and the plan the
\* buckets, or not.
Dispatch ==
  /\ phase = "dispatch"
  /\ \E vector \in BOOLEAN, useBucket \in {FALSE, screen.buckets # {}} :
       phase' = Screened(vector, useBucket)
  /\ \/ /\ phase' # "done"
        /\ \/ EmptyIds(pats) = {} /\ UNCHANGED best
           \/ \E id \in EmptyIds(pats) :
                /\ \A other \in EmptyIds(pats) : id <= other
                /\ best' = [pattern |-> id, start |-> 0]
     \* findUnfiltered, known by its contract
     \/ /\ phase' = "done"
        /\ best' \in Answers(pats, hay)
        /\ IsAnswer(pats, hay, best')
  /\ UNCHANGED <<args, at, state, history, starts>>

-----------------------------------------------------------------------------
Looping == phase \notin {"dispatch", "done"}

\* tripleSkipASCIIRegion: the scout of a region may read two bytes beyond it.
ScoutEnd == IF to + 2 > Bytes(hay) THEN Bytes(hay) ELSE to + 2

MustStop(s) ==
  CASE phase \in {"triples", "asciiTriples"} -> TripleStop(hay, screen.triples, s, Bytes(hay))
    [] phase = "region"     -> TripleStop(hay, screen.triples, s, ScoutEnd)
    [] phase = "buckets"    -> BucketStop(hay, screen.triples, screen.buckets, s)
    [] phase = "pairSecond" -> PairSecondStop(hay, screen.filter, s)
    [] phase = "filter"     -> FilterStop(hay, screen.filter, s)

\* From the root the screen may move on to byte s.
MaySkipTo(s) == \A i \in at..(s - 1) : ~MustStop(i)

(***************************************************************************)
(* haystackToken: the token of the unit at byte s, and its width.  Inside  *)
(* a unit there are continuation bytes only, malformed on their own.       *)
(***************************************************************************)
OnBoundary(s) == \E u \in 0..hay.n : hay.off[u] = s

TokenAt(s) == IF OnBoundary(s) THEN hay.tok[UnitAt(hay, s)] ELSE 0

SizeAt(s) == IF OnBoundary(s) THEN hay.off[UnitAt(hay, s) + 1] - s ELSE 1

Improves(out, start) ==
  /\ out.pattern >= 0
  /\ \/ best.pattern < 0
     \/ start < best.start
     \/ start = best.start /\ out.pattern < best.pattern

\* The unit at byte s is the one after as many since the root was left.
Consume(s, units) ==
  /\ starts' = [starts EXCEPT ![units % RingLen] = s]
  /\ history' = units + 1
  /\ at' = s + SizeAt(s)
  /\ \E next \in Nodes(pats) :
       /\ IsAdvance(pats, state, TokenAt(s), next)
       /\ state' = next
  /\ \E out \in Outputs(pats) :
       /\ IsOutput(pats, state', out)
       /\ LET start == starts'[(units + 1 - out.units) % RingLen] IN
          IF Improves(out, start)
            THEN best' = [pattern |-> out.pattern, start |-> start]
            ELSE UNCHANGED best
  /\ UNCHANGED <<args, phase>>

\* Once no prefix is live, what starts later cannot win.
Settled == best.pattern >= 0 /\ at > best.start

\* Skip, and read the first unit behind.
LeaveRoot ==
  /\ Looping /\ at < to /\ state = <<>> /\ ~Settled
  /\ \E s \in at..(to - 1) : MaySkipTo(s) /\ Consume(s, 0)

Step ==
  /\ Looping /\ at < to /\ state # <<>>
  /\ Consume(at, history)

Return ==
  /\ phase' = "done"
  /\ UNCHANGED <<args, at, state, history, starts, best>>

ReturnSettled ==
  /\ Looping /\ at < to /\ state = <<>> /\ Settled
  /\ Return

\* The screen finds nothing up to the end.
NothingFollows ==
  /\ Looping /\ at < to /\ state = <<>> /\ ~Settled
  /\ MaySkipTo(to)
  /\ Return

Finish ==
  /\ Looping /\ at >= to
  /\ Return

\* Find has returned.
Done == phase = "done" /\ UNCHANGED vars

Next == \/ Dispatch \/ LeaveRoot \/ Step
        \/ ReturnSettled \/ NothingFollows \/ Finish \/ Done

Spec == Init /\ [][Next]_vars

-----------------------------------------------------------------------------
(***************************************************************************)
(* No screen skips the start of a match, and none is forgotten: whatever   *)
(* of an occurrence lies before at is held by the automaton.  So inside a  *)
(* unit, where a screen may have stopped, the state is the root and stays  *)
(* there.  And none leaves the region, though it reads bytes behind it.    *)
(***************************************************************************)
SkipsNoMatch ==
  Looping =>
    /\ at \in from..to
    /\ \A id \in Ids(pats), u \in 0..hay.n :
         LET end == hay.off[u + Len(pats[id])] IN
         Occurs(pats, hay, id, u) /\ from <= hay.off[u] /\ end <= to
           /\ hay.off[u] < at /\ at < end
             => OnBoundary(at) /\ UnitAt(hay, at) - u <= Len(state)

(***************************************************************************)
(* The ring, which starts over whenever the root is left, has the offset   *)
(* of every unit on the path to the state.                                 *)
(***************************************************************************)
RingKnowsStarts ==
  Looping /\ state # <<>> =>
    /\ OnBoundary(at) /\ Len(state) <= history
    /\ \A k \in 1..Len(state) :
         starts[(history - k) % RingLen] = hay.off[UnitAt(hay, at) - k]

(***************************************************************************)
(* The executor implements the contract of Find, for the haystack or for   *)
(* the region it was given.                                                *)
(***************************************************************************)
Contract == INSTANCE FindContract WITH
  hay <- Part(hay, UnitAt(hay, from), UnitAt(hay, to)),
  answer <- IF phase # "done" THEN Pending
            ELSE IF best = NoMatch THEN NoMatch ELSE [best EXCEPT !.start = @ - from]

ImplementsFind == Contract!Spec
=============================================================================
