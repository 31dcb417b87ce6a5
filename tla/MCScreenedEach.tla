---------------------------- MODULE MCScreenedEach ----------------------------
(***************************************************************************)
(* The literals of MCLiteral, those with an interior window among them;    *)
(* and sets of three to five patterns with complete triples: prefixes of   *)
(* each other with either index lower, widths that differ, patterns of     *)
(* whole and of partial words of two bytes; one with a unit that ASCII     *)
(* cannot spell and so without certificates.                               *)
(***************************************************************************)
EXTENDS ScreenedEach, MCLiteral

MCPatternLists == {
  << <<2, 2, 2, 1>>, <<2, 1, 2>>, <<1, 2, 2>> >>,
  << <<2, 2, 2, 1>>, <<1, 2, 2>>, <<2, 2, 2>>, <<2, 2, 6, 2, 2>> >>,
  << <<2, 1, 2, 2, 1>>, <<2, 1, 2>>, <<1, 2, 2, 1>>, <<1, 2, 2>>, <<2, 1, 2, 2>> >>,
  << <<2, 2, 2>>, <<1, 2, 2, 3>>, <<1, 2, 2>>, <<2, 1, 2, 2>> >>
}
MCPatternSets == {PatternSetOf(list) : list \in MCPatternLists}

MCSetHaystacks ==
  HaystacksFrom({<<107>>, <<65>>, <<226, 132, 170>>, <<195, 169>>}, 5)
    \cup HaystacksFrom({<<107>>, <<97, 97>>, <<123>>, <<195>>}, 4)

MCSetInputs == {[patterns |-> MCPatternSets, haystacks |-> MCSetHaystacks]}
=============================================================================
