------------------------------ MODULE SingleFind ------------------------------
(***************************************************************************)
(* Matcher.Find for one pattern: findWithWidth up to the executors that    *)
(* sets of patterns share.  From the pattern newSearchPlan prepares both   *)
(* ways of finding it by its bytes, as a literal (LiteralFind) and by the  *)
(* bytes of its wider units (UnicodeAnchored); pattern and haystack        *)
(* together decide which one, if any, has to answer.                       *)
(***************************************************************************)
EXTENDS Literal

CONSTANTS Pending,
          StaticMin, SampleMax, RunBlocks,   \* of LiteralFind
          MaxParts, MaxDelta, Block          \* of UnicodeAnchored

ASSUME SingleAssumption == Block \in Nat \ {0} /\ RunBlocks \subseteq Nat

VARIABLES route, phase, at,
          answer,                   \* Pending also if another executor takes over
          width,                    \* of the match, 0 if it is not known yet
          anchor, run, runStart,    \* a literal's
          pairs, triple, confirm    \* those of a pattern with wider units

literal == <<needle, fixed, anchor, run, runStart>>
unicode == <<pairs, triple, confirm, width>>
vars == <<pats, hay, route, phase, at, answer, literal, unicode>>

L == INSTANCE LiteralFind
U == INSTANCE UnicodeAnchored

IsUnicode(r) == r \in {"confirm", "replay", "pairs", "triple"}

\* In the order of findWithWidth: what begins in enough ASCII is a literal.
Routes ==
  IF L!Routes # {} THEN L!Routes ELSE {<<r, 0>> : r \in U!Routes}

Init ==
  /\ \E input \in Inputs :
       /\ needle \in input.needles
       /\ PlanInit /\ U!PlanInit
       /\ hay \in input.haystacks
  /\ \E r \in Routes : route = r[1] /\ anchor = r[2]
  /\ phase = IF HasPair THEN "first" ELSE IF route = "confirm" THEN "blocks" ELSE "skip"
  /\ at = IF route = "confirm" THEN pairs[1].at ELSE 0
  /\ run = 0 /\ runStart = 0 /\ width = 0
  /\ answer = Pending

FindLiteral == ~IsUnicode(route) /\ L!Next /\ UNCHANGED unicode
FindUnicode == IsUnicode(route) /\ U!Next /\ UNCHANGED literal

\* Find has returned, or gone on with another executor.
Done == phase = "done" /\ UNCHANGED vars

Next == FindLiteral \/ FindUnicode \/ Done

Spec == Init /\ [][Next]_vars

-----------------------------------------------------------------------------
(***************************************************************************)
(* A width that the confirmation reports is that of the match in the       *)
(* haystack, whatever mixture of spellings it is made of: Matcher.Each     *)
(* goes on from there.                                                     *)
(***************************************************************************)
WidthIsExact == U!WidthIsExact

(***************************************************************************)
(* Whichever bytes are looked for, the answer is the leftmost match: also  *)
(* if a unit of the haystack is wider than the pattern spells it, and if   *)
(* the haystack ends so soon behind the match that only its narrower       *)
(* spellings have room.                                                    *)
(***************************************************************************)
Contract == INSTANCE FindContract

ImplementsFind == Contract!Spec
=============================================================================
