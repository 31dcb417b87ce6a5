----------------------------- MODULE MatcherEach -----------------------------
(***************************************************************************)
(* The general loop of Matcher.Each (matcher.go): search the rest of the   *)
(* haystack, shift the match back, find out how wide it is, yield it, and  *)
(* resume behind it.  The search is findWithWidth, known by its contract   *)
(* for the slice it is given (FindContract, which ScanDecoded implements). *)
(* In a folded plan a unit is what DecodeRune takes off the front of the   *)
(* slice; in an exact plan it is a byte.                                   *)
(***************************************************************************)
EXTENDS FoldPlan

CONSTANTS Matchers, EachHaystacks

ASSUME EachAssumption ==
  /\ \A p \in Matchers : IsPatternSet(p)
  /\ \A h \in EachHaystacks : IsHaystack(h)

VARIABLES patterns, bytewise, haystack,
          stage,          \* "find", "yield" or "done"
          position,       \* the cursor, in bytes
          match, width,   \* the match to be yielded
          turn, last,     \* history: the parity and the last of the calls of yield
          result          \* what Each returned

args == <<patterns, bytewise, haystack>>
eachVars == <<args, stage, position, match, width, turn, last, result>>

NoYield == [pattern |-> -1, start |-> -1, width |-> 0]

EachInit ==
  /\ patterns \in Matchers
  /\ haystack \in EachHaystacks
  /\ bytewise \in BOOLEAN
  /\ bytewise => ByteUnits(haystack)
  /\ stage = "find" /\ position = 0
  /\ match = NoMatch /\ width = 0
  /\ turn = FALSE /\ last = NoYield
  /\ result = "none"

-----------------------------------------------------------------------------
\* matcherMatchEnd: that many units from start; decoding an empty slice
\* takes nothing off it.
MatchEnd(start, units) ==
  LET u == UnitAt(haystack, start) + units IN
  IF u <= haystack.n THEN haystack.off[u] ELSE Bytes(haystack)

\* Mutated form: as many bytes as the pattern has units.
WidthAsSpelled(m) == Len(patterns[m.pattern])

(***************************************************************************)
(* The width yielded: of an exact pattern its bytes, of a folded one the   *)
(* bytes that its units have in this haystack.  A search that proves the   *)
(* width saves the second walk; 0 asks for it.                             *)
(***************************************************************************)
WidthOf(m) ==
  LET units == Len(patterns[m.pattern]) IN
  IF bytewise THEN units ELSE MatchEnd(m.start, units) - m.start

Find ==
  /\ stage = "find" /\ position <= Bytes(haystack)
  /\ LET rest == Part(haystack, UnitAt(haystack, position), haystack.n) IN
     \/ /\ IsAnswer(patterns, rest, NoMatch)
        /\ stage' = "done" /\ result' = "true"
        /\ UNCHANGED <<match, width>>
     \/ \E m \in Answers(patterns, rest) \ {NoMatch} :
          /\ IsAnswer(patterns, rest, m)
          /\ match' = [m EXCEPT !.start = @ + position]
          /\ width' = WidthOf(match')
          /\ stage' = "yield"
          /\ UNCHANGED result
  /\ UNCHANGED <<args, position, turn, last>>

\* Mutated form: an empty match leaves the cursor where it is.
PastEmptyStays(start) == start

\* The cursor behind an empty match: one byte on in an exact plan, one unit
\* on in a folded one.
PastEmpty(start) == IF bytewise THEN start + 1 ELSE MatchEnd(start, 1)

\* Where the next search begins.
ResumeAt == IF width # 0 THEN match.start + width ELSE PastEmpty(match.start)

\* After an empty match at the end of the haystack nothing is left.
AtEnd == width = 0 /\ match.start = Bytes(haystack)

Yielded ==
  /\ stage = "yield"
  /\ last' = [pattern |-> match.pattern, start |-> match.start, width |-> width]
  /\ turn' = ~turn

\* yield returns true.
Resume ==
  /\ Yielded
  /\ \/ /\ AtEnd
        /\ stage' = "done" /\ result' = "true"
        /\ UNCHANGED position
     \/ /\ ~AtEnd
        /\ stage' = "find" /\ position' = ResumeAt
        /\ UNCHANGED result
  /\ UNCHANGED <<args, match, width>>

\* yield returns false: so does Each.
Stop ==
  /\ Yielded
  /\ stage' = "done" /\ result' = "false"
  /\ UNCHANGED <<args, position, match, width>>

\* Each has returned.
EachDone == stage = "done" /\ UNCHANGED eachVars

EachNext == Find \/ Resume \/ Stop \/ EachDone

EachSpec == EachInit /\ [][EachNext]_eachVars

\* Each runs in its caller's goroutine, and yield returns.
FairEachSpec == EachSpec /\ WF_eachVars(EachNext)

-----------------------------------------------------------------------------
(***************************************************************************)
(* The unit the next match may start at: behind the last one yielded.  An  *)
(* empty match takes one unit, and at the end of the haystack leaves none. *)
(***************************************************************************)
Resumed ==
  IF last = NoYield THEN 0
  ELSE IF last.width = 0 THEN UnitAt(haystack, last.start) + 1
  ELSE CHOOSE u \in 0..haystack.n :
         /\ last.start + last.width <= haystack.off[u]
         /\ \A v \in 0..(u - 1) : haystack.off[v] < last.start + last.width

(***************************************************************************)
(* Each implements its contract: the yielded matches are those of repeated *)
(* calls to Find, with their widths in the haystack.                       *)
(***************************************************************************)
Enumeration == INSTANCE EachContract WITH
  pats <- patterns, hay <- haystack, from <- Resumed

ImplementsEach == Enumeration!Spec

\* Each returns, although an empty match consumes nothing.
EachReturns == <>(stage = "done")
=============================================================================
