---------------------------- MODULE FindContract ----------------------------
(***************************************************************************)
(* What Matcher.Find promises, whichever executor answers: one step from   *)
(* the question to the leftmost match, of the patterns that match there    *)
(* the one with the lowest index.                                          *)
(***************************************************************************)
EXTENDS FoldPlan

CONSTANT Pending   \* no answer yet

VARIABLES pats, hay, answer

vars == <<pats, hay, answer>>

Init == /\ IsPatternSet(pats)
        /\ IsHaystack(hay)
        /\ answer = Pending

Reply == /\ answer = Pending
         /\ answer' \in Answers(pats, hay)
         /\ IsAnswer(pats, hay, answer')
         /\ UNCHANGED <<pats, hay>>

Spec == Init /\ [][Reply]_vars
=============================================================================
