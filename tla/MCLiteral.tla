------------------------------ MODULE MCLiteral ------------------------------
(***************************************************************************)
(* Literals: runs of a letter and of a brace, literals with a pair, with   *)
(* a unique byte at each place, with a unit behind the prefix that has a   *)
(* wider spelling or no ASCII spelling at all, with an interior window,    *)
(* and those that only an ASCII haystack is searched for quickly.          *)
(***************************************************************************)
EXTENDS MCBytes

k == <<107>>
a == <<97>>
A == <<65>>
brace == <<123>>
kelvin == <<226, 132, 170>>
accent == <<195, 169>>

MCNeedles == {
  <<a, A, a>>, <<brace, brace, brace>>,
  <<a, a, brace>>, <<brace, a, a>>, <<a, brace, a, a>>, <<A, a, brace, a, brace>>,
  <<a, brace, a, k>>, <<a, a, brace, kelvin>>, <<a, a, a, accent>>,
  <<k, a, a, a>>, <<k, a, a, brace, k>>,
  <<k, a, k>>, <<a, k, brace>>, <<a, k, a, a>>,
  <<kelvin, a, a, a>>
}

MCHaystacks ==
  HaystacksFrom({<<107>>, <<97>>, <<226, 132, 170>>, <<123>>}, 5)
    \cup HaystacksFrom({<<75>>, <<226, 132, 170>>, <<97, 65, 97>>}, 5)
    \cup HaystacksFrom({<<75>>, <<65, 97>>, <<123>>, <<91>>, <<195, 169>>, <<195>>}, 4)

MCLiteralInputs == {[needles |-> MCNeedles, haystacks |-> MCHaystacks]}
=============================================================================
