--------------------------- MODULE MCPairAnchored ---------------------------
(***************************************************************************)
(* Pattern sets with one root that ASCII cannot spell, so that the triples *)
(* are complete for ASCII only: patterns that contain, overlap and extend  *)
(* each other, an empty one, one with a brace.  Every choice of anchors.   *)
(* Haystacks of up to four bytes with both cases and both braces, and up   *)
(* to five of two letters.                                                  *)
(***************************************************************************)
EXTENDS PairAnchored, MCBytes

MCPatternLists == {
  << <<3, 2>>, <<1, 2, 2>>, <<2, 2, 1>> >>,
  << <<4, 2>>, <<1, 2, 2, 1>>, <<1, 2, 2>>, <<2, 2, 1>> >>,
  << <<1, 2, 1>>, <<3>>, <<>>, <<2, 6, 2>> >>,
  << <<2, 2, 1, 2>>, <<1, 2, 2>>, <<3, 1>> >>,
  << <<2, 2, 2, 1>>, <<2, 2, 1>>, <<1, 2, 1>>, <<3>> >>
}
MCPatternSets == {PatternSetOf(list) : list \in MCPatternLists}

MCHaystacks ==
  HaystacksFrom({<<107>>, <<65>>, <<123>>, <<91>>}, 4) \cup HaystacksFrom({<<107>>, <<97>>}, 5)
=============================================================================
