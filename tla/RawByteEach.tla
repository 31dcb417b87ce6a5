----------------------------- MODULE RawByteEach -----------------------------
(***************************************************************************)
(* eachRawByteFixedAnchored of raw_byte.go, which serves Matcher.Each, and *)
(* Matcher.Find by a yield that stops at the first match; for a long       *)
(* haystack findRawByteOrigin cuts off what no match can start in.         *)
(*                                                                         *)
(* The scan stops where the anchor of some pattern may be.  An anchor lies *)
(* inside its pattern, behind units of several widths, so it points to     *)
(* several starts, each of which is replayed once from the root.  Matches  *)
(* are met in the order of their anchors, and the best one is kept until   *)
(* no anchor of an earlier start can follow; then it is yielded, and the   *)
(* scan goes back to its end.                                              *)
(*                                                                         *)
(* One step is a skip with its tags, one start, one unit of a replay, the  *)
(* verdict of a replay, or a yield.                                        *)
(***************************************************************************)
EXTENDS RawByteFilter

CONSTANTS PatternSets, Haystacks,
          OriginMinBytes   \* from here on Find cuts the haystack, 4096

\* One of the patterns is the longest, as in any list, and what has a lead and a
\* continuation byte is decoded as one unit of two bytes.
ASSUME RawByteEachAssumption ==
  /\ \A p \in PatternSets :
       /\ IsPatternSet(p) /\ UsedTokens(p) \subseteq DOMAIN Forms
       /\ \E id \in Ids(p) : IsMaxUnits(p, Len(p[id]))
  /\ \A h \in Haystacks :
       /\ IsSpelled(h)
       /\ \A u \in 0..(h.n - 1) :
            ~h.ascii[u] /\ IsDirect(h, h.off[u]) => h.off[u + 1] = h.off[u] + 2
  /\ OriginMinBytes \in Nat

VARIABLES pats,
          byteTokens, filter,   \* of the plan
          finding,              \* Find is the caller, its yield stops
          hay,
          phase,                \* "dispatch", "skip", "check", "replay", "judge" or "done"
          at,
          from,                 \* no match starts before
          best, bestEnd,
          todo,                 \* the starts to replay: <<pattern, distance>>
          start, pos, units, state, found, foundEnd,   \* rawByteMatchAt
          turn, last,           \* history: the parity and the last of the calls of yield
          result                \* what Each returned

args == <<pats, byteTokens, filter, finding, hay>>
replay == <<start, pos, units, state, found, foundEnd>>
yields == <<turn, last, result>>
vars == <<args, phase, at, from, best, bestEnd, todo, replay, yields>>

NoYield == [pattern |-> -1, start |-> -1, width |-> 0]

Init ==
  /\ pats \in PatternSets /\ HasRawBytePlan(pats)
  /\ byteTokens = ByteTokens(pats)
  /\ filter \in AnchorFilters(pats)
  /\ finding \in BOOLEAN
  /\ hay \in Haystacks
  /\ phase = "dispatch" /\ at = 0 /\ from = 0
  /\ best = NoMatch /\ bestEnd = 0 /\ todo = {}
  /\ start = 0 /\ pos = 0 /\ units = 0 /\ state = <<>> /\ found = -1 /\ foundEnd = 0
  /\ turn = FALSE /\ last = NoYield /\ result = "none"

-----------------------------------------------------------------------------
Return(r) ==
  /\ phase' = "done" /\ result' = r
  /\ UNCHANGED <<args, at, from, best, bestEnd, todo, replay, turn, last>>

\* The scan of the whole haystack.
Enter ==
  /\ phase = "dispatch"
  /\ ~finding \/ Bytes(hay) < OriginMinBytes \/ OriginGates(pats) = {}
  /\ phase' = "skip"
  /\ UNCHANGED <<args, at, from, best, bestEnd, todo, replay, yields>>

\* findRawByteOrigin: without the byte there is no match; a match starts no
\* further in front of it than the widest prefix.
EnterAtOrigin ==
  /\ phase = "dispatch" /\ finding /\ Bytes(hay) >= OriginMinBytes
  /\ \E gate \in OriginGates(pats) :
       LET places == {i \in 0..(Bytes(hay) - 1) : hay.bytes[i] = gate.byte} IN
       \/ places = {} /\ Return("true")
       \/ /\ places # {}
          /\ at' = Largest({0, Smallest(places) - gate.maxPrefix})
          /\ from' = at' /\ phase' = "skip"
          /\ UNCHANGED <<args, best, bestEnd, todo, replay, yields>>

-----------------------------------------------------------------------------
AtEnd == at + 1 >= Bytes(hay)

\* No anchor of a match that starts here or before can follow.
Settled == best # NoMatch /\ at > best.start + MaxOffset(filter)

Skip ==
  /\ phase = "skip" /\ ~AtEnd /\ ~Settled
  /\ at' = Smallest({s \in at..(Bytes(hay) - 1) :
                       s + 1 = Bytes(hay) \/ Nominated(hay, filter, s) # {}})
  /\ LET tags == Tags(hay, filter, at') IN
     /\ todo' = UNION {{<<id, d>> : d \in filter[id].starts} : id \in tags}
     /\ phase' = IF at' + 1 = Bytes(hay) THEN "skip" ELSE "check"
  /\ UNCHANGED <<args, from, best, bestEnd, replay, yields>>

InReach(s) == s >= from /\ (best = NoMatch \/ s <= best.start)

\* The patterns in their order.
CheckStart ==
  /\ phase = "check" /\ todo # {}
  /\ \E c \in todo :
       /\ \A d \in todo : c[1] <= d[1]
       /\ todo' = todo \ {c}
       /\ LET s == at - c[2] IN
          \/ ~InReach(s) /\ UNCHANGED <<phase, replay>>
          \/ /\ InReach(s)
             /\ phase' = "replay"
             /\ start' = s /\ pos' = s
             /\ units' = 0 /\ state' = <<>> /\ found' = -1 /\ foundEnd' = 0
  /\ UNCHANGED <<args, at, from, best, bestEnd, yields>>

NextByte ==
  /\ phase = "check" /\ todo = {}
  /\ phase' = "skip" /\ at' = at + 1
  /\ UNCHANGED <<args, from, best, bestEnd, todo, replay, yields>>

-----------------------------------------------------------------------------
MaxUnits == CHOOSE m \in {Len(pats[id]) : id \in Ids(pats)} : IsMaxUnits(pats, m)

UnitRead ==
  IF IsDirect(hay, pos) THEN DirectUnit(byteTokens, hay, pos) ELSE DecodedUnit(byteTokens, hay, pos)

Prefers(id) == found = -1 \/ id < found

\* An output counts if it spans all that was read; pattern 0 cannot be bettered,
\* and behind a leaf or at the root nothing that began at start goes on.
ReplayUnit ==
  /\ phase = "replay" /\ units < MaxUnits /\ pos < Bytes(hay)
  /\ pos' = pos + UnitRead.size
  /\ units' = units + 1
  /\ \E next \in Nodes(pats) :
       IsAdvance(pats, state, UnitRead.token, next) /\ state' = next
  /\ \E out \in Outputs(pats) :
       /\ IsOutput(pats, state', out)
       /\ LET spans == out.pattern >= 0 /\ out.units = units' IN
          /\ IF spans /\ Prefers(out.pattern)
               THEN found' = out.pattern /\ foundEnd' = pos'
               ELSE UNCHANGED <<found, foundEnd>>
          /\ phase' = IF \/ spans /\ (found' = 0 \/ EdgeTokens(pats, state') = {})
                         \/ state' = <<>>
                        THEN "judge" ELSE "replay"
  /\ UNCHANGED <<args, at, from, best, bestEnd, todo, start, yields>>

Improves ==
  /\ found >= 0
  /\ \/ best = NoMatch
     \/ start < best.start
     \/ start = best.start /\ found < best.pattern

Judge ==
  /\ phase = "judge" \/ (phase = "replay" /\ (units = MaxUnits \/ pos >= Bytes(hay)))
  /\ phase' = "check"
  /\ IF Improves
       THEN best' = [pattern |-> found, start |-> start] /\ bestEnd' = foundEnd
       ELSE UNCHANGED <<best, bestEnd>>
  /\ UNCHANGED <<args, at, from, todo, replay, yields>>

-----------------------------------------------------------------------------
\* Mutated form: the scan goes on from where it is.
ResumeScan == at

\* What lies between the match's end and the present byte is scanned again.
ResumeAt == bestEnd

\* emit: before the end of the haystack once the match is settled, and there
\* in any case.
Emit ==
  /\ phase = "skip" /\ best # NoMatch /\ (AtEnd \/ Settled)
  /\ turn' = ~turn
  /\ last' = [pattern |-> best.pattern, start |-> best.start, width |-> bestEnd - best.start]
  /\ \/ /\ ~finding
        /\ at' = ResumeAt /\ from' = bestEnd
        /\ best' = NoMatch /\ bestEnd' = 0
        /\ UNCHANGED <<phase, result>>
     \/ /\ phase' = "done" /\ result' = "false"
        /\ UNCHANGED <<at, from, best, bestEnd>>
  /\ UNCHANGED <<args, todo, replay>>

Exhausted ==
  /\ phase = "skip" /\ AtEnd /\ best = NoMatch
  /\ Return("true")

\* Each, or Find, has returned.
Done == phase = "done" /\ UNCHANGED vars

Next == \/ Enter \/ EnterAtOrigin \/ Skip \/ CheckStart \/ NextByte
        \/ ReplayUnit \/ Judge \/ Emit \/ Exhausted \/ Done

Spec == Init /\ [][Next]_vars
-----------------------------------------------------------------------------
(***************************************************************************)
(* A replay reads the units of the haystack whichever table it reads them  *)
(* from: its state is what the automaton has after them.  From a start     *)
(* inside a unit, which a wrong width points to, it finds nothing.         *)
(***************************************************************************)
ReplayFollowsText ==
  phase \in {"replay", "judge"} =>
    IF StartsUnit(hay, start)
      THEN LET u == UnitAt(hay, start) IN
           /\ pos = hay.off[u + units]
           /\ \A i \in 1..Len(state) : state[i] = hay.tok[u + units - Len(state) + i - 1]
           /\ \A id \in Ids(pats), v \in u..(u + units) :
                Occurs(pats, hay, id, v) /\ u + units < v + Len(pats[id])
                  => u + units - v <= Len(state)
      ELSE state = <<>> /\ found = -1

(***************************************************************************)
(* An occurrence behind the last match is decided once the scan is past    *)
(* the last byte at which its anchor can be: what is kept is as good.      *)
(***************************************************************************)
AnchorsDecide ==
  phase \in {"skip", "check"} =>
    \A id \in Ids(pats), u \in 0..(hay.n - 1) :
      Occurs(pats, hay, id, u) /\ from <= hay.off[u]
        /\ hay.off[u] + Largest(filter[id].starts) < at
          => best # NoMatch /\ Before(best.start, best.pattern, hay.off[u], id)

\* The unit the next match may start at.
Resumed ==
  IF last = NoYield THEN 0 ELSE UnitAt(hay, last.start + last.width)

(***************************************************************************)
(* Matches that are found out of order, by anchors that a width change may *)
(* have moved, are yielded as repeated calls of Find would return them.    *)
(***************************************************************************)
Contract == INSTANCE EachContract WITH from <- Resumed

ImplementsEach == Contract!Spec
=============================================================================
