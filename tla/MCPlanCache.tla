---------------------------- MODULE MCPlanCache -----------------------------
(***************************************************************************)
(* Two slots, two needles that collide in one of them and one needle that  *)
(* has the other to itself.                                                *)
(***************************************************************************)
EXTENDS PlanCache, TLC

CONSTANTS a, b, lone, s1, s2, c1, c2, c3

MCNeedles == {a, b, lone}
MCSlots   == {s1, s2}
MCSlotOf  == (a :> s1) @@ (b :> s1) @@ (lone :> s2)
MCCallers == {c1, c2, c3}

(***************************************************************************)
(* Every call returns: the callers are interchangeable, so that it holds   *)
(* of all of them if it holds of the first.                                *)
(***************************************************************************)
FirstCallReturns == CallReturns(c1)
=============================================================================
