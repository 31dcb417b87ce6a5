--------------------------- MODULE MCScanDecoded ----------------------------
(***************************************************************************)
(* Every haystack of up to five units over k, s, dot and the Kelvin sign,  *)
(* and of up to four with the accented e, against every pattern set of     *)
(* MCText.  The ring has two inline cells and grows to the longest         *)
(* pattern; a root-free block is two bytes.                                *)
(***************************************************************************)
EXTENDS ScanDecoded, MCText

MCHaystacks ==
  HaystacksOver({kUnit, sUnit, dotUnit, KUnit}, 5)
    \cup HaystacksOver({kUnit, sUnit, eUnit}, 4)
=============================================================================
