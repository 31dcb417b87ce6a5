----------------------------- MODULE LiteralEach -----------------------------
(***************************************************************************)
(* eachASCIIProbe of matcher.go, for one pattern with a probe in a long    *)
(* haystack.  One scan goes on across the yields, from where the *)
(* last match ended; where a match begins and how wide it is must be found *)
(* out from the haystack, since neither need be as the pattern spells it.  *)
(*                                                                         *)
(* One step is a skip, or the verdict on where it ended.                   *)
(***************************************************************************)
EXTENDS Literal

VARIABLES probe,        \* the plan's, or the one for Each
          phase,        \* "skip", "check" or "done"
          at,
          nextStart,    \* where the last match ended
          turn, last, result   \* history, and what Each returned

plan == <<needle, pats, fixed, hay, probe>>
yields == <<turn, last, result>>
vars == <<plan, phase, at, nextStart, yields>>

\* The guard in Each; which of the routes for rare bytes the plan has, and
\* whether there is a probe for Each, depends on how rare the bytes are.
EachesProbe ==
  /\ ~HasPair
  /\ probe \in Probes \cup (IF Probes = {} THEN {} ELSE EachProbes)
  /\ Bytes(hay) >= LongMin

Limit == ProbeLimit(probe)

\* The vectors' tables may admit more than the bytes of the probe.
Skip ==
  /\ phase = "skip" /\ at < Limit
  /\ \E s \in at..Limit :
       /\ \A i \in at..(s - 1) : ~ProbeAt(i, probe)
       /\ at' = s
  /\ phase' = IF at' < Limit THEN "check" ELSE "skip"
  /\ UNCHANGED <<plan, nextStart, yields>>

-----------------------------------------------------------------------------
Start == StartAt(at, probe)

\* asciiOnlyMatchWidth: as wide as the needle, if it is a match in ASCII.
InAsciiHere == VerifyTokens /\ AsciiOnly /\ PatternAt(Start)

\* matcherMatchEnd: where so many units end.
MatchEnd(s, units) == hay.off[UnitAt(hay, s) + units]

MatchWidth ==
  IF ~VerifyTokens \/ InAsciiHere THEN Len(needle)
  ELSE MatchEnd(Start, Len(needle)) - Start

Confirmed ==
  /\ Start >= 0 /\ Start >= nextStart
  /\ InAsciiHere \/ AnchorMatches(Start)

Reject ==
  /\ phase = "check" /\ ~Confirmed
  /\ phase' = "skip" /\ at' = at + 1
  /\ UNCHANGED <<plan, nextStart, yields>>

Yield ==
  /\ phase = "check" /\ Confirmed
  /\ turn' = ~turn
  /\ last' = [pattern |-> 0, start |-> Start, width |-> MatchWidth]
  /\ \/ /\ phase' = "skip"
        /\ nextStart' = Start + MatchWidth /\ at' = Start + MatchWidth
        /\ UNCHANGED result
     \/ phase' = "done" /\ result' = "false" /\ UNCHANGED <<nextStart, at>>
  /\ UNCHANGED plan

Exhausted ==
  /\ phase = "skip" /\ at >= Limit
  /\ phase' = "done" /\ result' = "true"
  /\ UNCHANGED <<plan, at, nextStart, turn, last>>

Next == Skip \/ Reject \/ Yield \/ Exhausted
=============================================================================
