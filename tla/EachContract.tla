---------------------------- MODULE EachContract ----------------------------
(***************************************************************************)
(* What Matcher.Each promises: the matches handed to yield are the ones    *)
(* that Find would return if it were asked again and again, each time for  *)
(* what begins at or after the end of the last match, or after the next    *)
(* unit if that match was empty.  It returns true when no match is left,   *)
(* which it may know as soon as the last is yielded, and false at once     *)
(* when yield does.                                                        *)
(***************************************************************************)
EXTENDS FoldPlan

VARIABLES pats, hay,
          from,      \* the unit the next match may start at
          turn,      \* flips at every call of yield, so that no call is hidden
          last,      \* the last match yielded, with its width
          result     \* what Each returned

vars == <<pats, hay, from, turn, last, result>>

NoYield == [pattern |-> -1, start |-> -1, width |-> 0]

Init == /\ IsPatternSet(pats)
        /\ IsHaystack(hay)
        /\ from = 0 /\ turn = FALSE
        /\ last = NoYield
        /\ result = "none"

\* The leftmost match that starts at unit u0 or behind, of those the first.
IsNext(u0, id, u) ==
  /\ u0 <= u /\ Occurs(pats, hay, id, u)
  /\ \A other \in Ids(pats), v \in u0..hay.n :
       Occurs(pats, hay, other, v) => Before(u, id, v, other)

Yield ==
  /\ result = "none"
  /\ \E id \in Ids(pats), u \in from..hay.n :
       LET units == Len(pats[id]) IN
       /\ IsNext(from, id, u)
       /\ last' = [pattern |-> id, start |-> hay.off[u],
                   width |-> hay.off[u + units] - hay.off[u]]
       /\ from' = IF units = 0 THEN u + 1 ELSE u + units
  /\ turn' = ~turn
  /\ \/ result' \in {"none", "false"}
     \/ from' > hay.n /\ result' = "true"
  /\ UNCHANGED <<pats, hay>>

\* Nothing is left from here on; behind the last boundary nothing ever is.
Exhausted ==
  /\ result = "none"
  /\ \A id \in Ids(pats), u \in from..hay.n : ~Occurs(pats, hay, id, u)
  /\ result' = "true"
  /\ UNCHANGED <<pats, hay, from, turn, last>>

Next == Yield \/ Exhausted

Spec == Init /\ [][Next]_vars
=============================================================================
