----------------------------- MODULE MCPartition -----------------------------
(***************************************************************************)
(* Haystacks of forty or more units: a dotted line in which up to three snippets   *)
(* are placed, the first of them with an exceptional unit.  The constants  *)
(* of the code are scaled down with it: a sample is 4 bytes instead of     *)
(* 1024, with at most 4 high ones instead of 16.                           *)
(***************************************************************************)
EXTENDS Partition, SequencesExt

Unit(tok, width, ascii, nul, bad) ==
  [tok |-> tok, width |-> width, ascii |-> ascii, nul |-> nul, bad |-> bad]

k      == Unit(1, 1, TRUE, FALSE, FALSE)
kelvin == Unit(1, 3, FALSE, FALSE, FALSE)
a      == Unit(2, 1, TRUE, FALSE, FALSE)
b      == Unit(3, 1, TRUE, FALSE, FALSE)
e      == Unit(4, 2, FALSE, FALSE, FALSE)
dot    == Unit(0, 1, TRUE, FALSE, FALSE)
euro   == Unit(0, 3, FALSE, FALSE, FALSE)
nul    == Unit(0, 1, TRUE, TRUE, FALSE)
bad    == Unit(0, 1, FALSE, FALSE, TRUE)

MCAsciiTokens == {1, 2, 3}
MCTokenBytes == <<3, 1, 1, 2>>

PatternSetOf(list) == [id \in 0..(Len(list) - 1) |-> list[id + 1]]

HaystackOf(units) ==
  LET n == Len(units)
      off[u \in 0..n] == IF u = 0 THEN 0 ELSE off[u - 1] + units[u].width
      Of(u) == units[u + 1]
  IN  [n |-> n, off |-> off,
       tok   |-> [u \in 0..(n - 1) |-> Of(u).tok],
       ascii |-> [u \in 0..(n - 1) |-> Of(u).ascii],
       nul   |-> [u \in 0..(n - 1) |-> Of(u).nul],
       bad   |-> [u \in 0..(n - 1) |-> Of(u).bad]]

Dots(count) == [i \in 1..count |-> dot]

\* Snippets after 0, 1 or more dots each, filled up to the given length.
Line(length, starts, gaps, first, second, third) ==
  {LET placed == Dots(i) \o x \o Dots(j) \o y \o Dots(l) \o z
   IN  HaystackOf(placed \o Dots(length - Len(placed))) :
     i \in starts, j \in gaps, l \in gaps, x \in first, y \in second, z \in third}

\* A single pattern that Kelvin signs make wider than its spelling.
MCSingle == {PatternSetOf(<< <<1, 2, 3>> >>), PatternSetOf(<< <<2, 1, 2>> >>)}
MCSingleHaystacks ==
  Line(40, {4, 6}, {0, 3, 6, 13}, {<<euro>>, <<e, nul>>, <<k, a>>},
       {<<euro>>, <<kelvin, a, b>>, <<a, kelvin, a>>, <<euro, a, kelvin, a>>},
       {<<k, a, b>>, <<a, k, a, kelvin>>, <<k, e, kelvin>>, <<bad>>})

\* Sets with several ASCII roots and one that is not: one whose matches cross
\* a span or nest, one with a long match behind a short one, one with both.
MCSets == {PatternSetOf(<< <<2, 3, 4>>, <<3, 2, 3>>, <<4, 4>> >>),
           PatternSetOf(<< <<2, 3, 2, 2, 2>>, <<3, 2, 2>>, <<4, 4>> >>),
           PatternSetOf(<< <<2, 3, 2>>, <<3, 2, 3, 2, 4>>, <<1, 2, 3>>, <<4, 4>> >>)}
MCSetsHaystacks ==
  Line(47, {0, 6}, {0, 1, 14}, {<<euro>>, <<e>> \o Dots(4), <<a, b, e>>},
       {<<euro>>, <<a, b, a, a, a>>, <<kelvin, a, b>>, <<nul>>},
       {<<b, a, b>>, <<b, a, b, a, e>>, <<bad>>, <<e, e, a, b, a, a, a>>})

MCSetsInputs == {[patterns |-> MCSets, haystacks |-> MCSetsHaystacks]}
MCInputs == MCSetsInputs \cup {[patterns |-> MCSingle, haystacks |-> MCSingleHaystacks]}
=============================================================================
