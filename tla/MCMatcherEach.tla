---------------------------- MODULE MCMatcherEach ----------------------------
(***************************************************************************)
(* Matcher.Each on every haystack of at most four units, two kinds of them *)
(* one byte wide and two wider, and every pattern set of MCText.           *)
(***************************************************************************)
EXTENDS MatcherEach, MCText

MCHaystacks == HaystacksOver({kUnit, KUnit, sUnit, eUnit}, 4)
=============================================================================
