---------------------------- MODULE MCPlanBuild ----------------------------
(***************************************************************************)
(* An alphabet with an orbit of three members and two widths (k, K and the *)
(* Kelvin sign), one of two two-byte members, a lone letter and a          *)
(* malformed byte.  Every list of up to two patterns of up to three        *)
(* letters over k and s, and chosen longer ones.                           *)
(***************************************************************************)
EXTENDS PlanBuild, TLC

CONSTANTS k, K, kelvin, s, e, E, bad

MCLetters == {k, K, kelvin, s, e, E, bad}

MCSimpleFold ==
  (k :> kelvin) @@ (kelvin :> K) @@ (K :> k) @@ (s :> s)
    @@ (e :> E) @@ (E :> e) @@ (bad :> bad)

MCWidth ==
  (kelvin :> 3) @@ (e :> 2) @@ (E :> 2) @@ [x \in MCLetters \ {kelvin, e, E} |-> 1]

Texts(letters, n) == UNION {[1..i -> letters] : i \in 0..n}

\* A list of patterns, indexed from 0.
ListOf(list) == [id \in 0..(Len(list) - 1) |-> list[id + 1]]

MCPatternLists ==
  {ListOf(list) : list \in UNION {[1..n -> Texts({k, s}, 3)] : n \in 0..2}}
    \cup {ListOf(list) : list \in {
      << <<K, e>>, <<kelvin, E, s>>, <<E>> >>,
      << <<bad, bad>>, <<bad>>, <<k, bad, K>> >>,
      << <<k, s, k, s, s>>, <<s, k, s, k>>, <<s, s>>, <<K>> >>,
      << <<s, kelvin>>, <<>>, <<s, k>>, <<>> >>,
      << <<e, s, e, k>>, <<s, E, s>>, <<E, k>> >>
    }}
=============================================================================
