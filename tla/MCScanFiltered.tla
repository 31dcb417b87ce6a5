--------------------------- MODULE MCScanFiltered ---------------------------
(***************************************************************************)
(* Pattern sets for every screen: two pairs found by their second byte,    *)
(* pairs with a required second unit, pairs and single bytes, complete     *)
(* triples with and without buckets, triples for ASCII input only, roots   *)
(* that do not fit.  Haystacks of up to four pieces, among them a sign     *)
(* that ends in the second byte of another and malformed bytes.            *)
(***************************************************************************)
EXTENDS ScanFiltered, MCBytes

MCPatternLists == {
  << <<3>> >>,
  << <<3, 1>>, <<3, 2>> >>,
  << <<1, 2, 2>>, <<2, 1, 2>> >>,
  << <<2, 2, 2, 1>>, <<2, 2, 2>>, <<1, 2, 2>> >>,
  << <<1, 2, 1>>, <<2, 1, 1>>, <<3, 2>> >>,
  << <<1, 2>>, <<2, 1>> >>,
  << <<1>>, <<1, 3>>, <<2, 1>> >>,
  << <<4, 2>>, <<1, 2, 2>>, <<2, 2, 1>> >>,
  << <<1, 2, 1>>, <<>>, <<2, 1>> >>,
  << <<1, 3>>, <<2, 3, 1>> >>,
  << <<4>>, <<3>>, <<2, 1>>, <<1>> >>,
  << <<1, 2, 1>>, <<2, 1>> >>
}
MCPatternSets == {PatternSetOf(list) : list \in MCPatternLists}

MCHaystacks ==
  HaystacksFrom({<<107>>, <<97>>, <<226, 132, 170>>, <<195, 169>>, <<195>>, <<226, 130, 169>>}, 3)
    \cup HaystacksFrom({<<107>>, <<65>>, <<46>>}, 5)
=============================================================================
