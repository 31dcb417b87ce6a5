----------------------------- MODULE MCSingleFind -----------------------------
(***************************************************************************)
(* The literals of MCLiteral, every route of theirs; and patterns with two *)
(* units of two bytes: next to each other, apart, too far apart, behind an *)
(* ASCII unit, in front of one with a wider form, of three bytes, of a     *)
(* malformed byte; and patterns with a unit of one spelling, for a triple. *)
(***************************************************************************)
EXTENDS SingleFind, MCLiteral

euro == <<226, 130, 172>>
lead == <<195>>

MCUnicodeNeedles == {
  <<accent, accent>>, <<a, accent, accent>>, <<accent, a, accent>>, <<accent, a, a, accent>>,
  <<accent, accent, k>>, <<accent, k, accent, accent>>, <<accent, accent, k, k>>,
  <<k, accent, accent>>, <<accent, accent, euro>>, <<accent, accent, lead>>,
  <<euro, accent>>, <<accent, euro>>, <<a, euro, k>>, <<accent, k, euro>>
}

MCUnicodeHaystacks ==
  HaystacksFrom({k, kelvin, accent, <<195, 137>>}, 5)
    \cup HaystacksFrom({a, <<65, 195, 137>>, lead, euro, accent, k}, 4)

MCInputs ==
  MCLiteralInputs \cup {[needles |-> MCUnicodeNeedles, haystacks |-> MCUnicodeHaystacks]}
=============================================================================
