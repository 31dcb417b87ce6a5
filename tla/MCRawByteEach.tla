---------------------------- MODULE MCRawByteEach ----------------------------
(***************************************************************************)
(* The tokens:                                                             *)
(*    1  k, K and the three-byte Kelvin sign     2  e acute, both cases    *)
(*    3  a grave, both cases                     4  the hyphen             *)
(*    5  y with diaeresis, whose cases have different lead bytes           *)
(***************************************************************************)
EXTENDS RawByteEach, MCBytes

MCRawForms == << {<<107>>, <<75>>, <<226, 132, 170>>},
                 {<<195, 169>>, <<195, 137>>}, {<<195, 160>>, <<195, 128>>},
                 {<<45>>},
                 {<<195, 191>>, <<197, 184>>} >>
MCRawAsciiTokens == {1, 4}

MCPatternLists == {
  << <<1, 2, 3, 2>>, <<2, 3, 2, 3>> >>,
  << <<2, 2, 3, 2, 2>>, <<2, 2, 3, 2>> >>,
  << <<2, 2, 3, 2>>, <<1, 2, 2, 3, 2, 3>> >>,
  << <<2, 2, 1, 3, 2>>, <<1, 2, 3, 2>> >>,
  << <<4, 2, 2, 3>>, <<1, 4, 2, 3, 2>> >>,
  << <<5, 5, 2, 3>>, <<2, 3, 5, 5>> >>
}
MCPatternSets == {PatternSetOf(list) : list \in MCPatternLists}

\* Short texts of single units and a pair, and texts of whole matches.
MCPieces == {<<107>>, <<226, 132, 170>>, <<195, 169>>, <<195, 169, 195, 128>>, <<45>>, <<195>>}

MCWords == {<<107, 195, 169, 195, 160, 195, 137>>, <<195, 169, 195, 160>>,
            <<45, 195, 169, 195, 169, 195, 128, 195, 169>>,
            <<197, 184, 195, 191, 195, 169, 195, 160>>, <<226, 132, 170>>, <<67, 41>>,
            <<75, 195, 169, 195, 169, 195, 128, 195, 169, 195, 160>>}

MCHaystacks ==
  {HaystackIn(MCRawForms, s) : s \in Piecewise(MCPieces, 3) \cup Piecewise(MCWords, 3)}
=============================================================================
