--------------------------- MODULE LookupContract ---------------------------
(***************************************************************************)
(* What IndexFold and ContainsFold promise of the plan they search with:   *)
(* a call that asks for a needle is answered, in one step, with a plan     *)
(* compiled from that very needle.  The process-wide cache of plan.go is   *)
(* an optimisation and must not be observable in the answers.              *)
(***************************************************************************)
CONSTANTS Callers,  \* goroutines calling IndexFold or ContainsFold
          Needles,  \* the needles they search for
          NoNeedle  \* what an idle caller wants, and what it was answered

VARIABLES want,     \* want[c]: the needle of c's call in progress
          plan      \* plan[c]: the needle from which c's plan was compiled

vars == <<want, plan>>

Init == /\ want = [c \in Callers |-> NoNeedle]
        /\ plan = [c \in Callers |-> NoNeedle]

Ask(c) == \E n \in Needles :
            /\ want[c] = NoNeedle
            /\ want' = [want EXCEPT ![c] = n]
            /\ UNCHANGED plan

Answer(c) == /\ want[c] # NoNeedle
             /\ plan[c] = NoNeedle
             /\ plan' = [plan EXCEPT ![c] = want[c]]
             /\ UNCHANGED want

Return(c) == /\ plan[c] # NoNeedle
             /\ want' = [want EXCEPT ![c] = NoNeedle]
             /\ plan' = [plan EXCEPT ![c] = NoNeedle]

Next == \E c \in Callers : Ask(c) \/ Answer(c) \/ Return(c)

Spec == Init /\ [][Next]_vars
=============================================================================
