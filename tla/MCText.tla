------------------------------- MODULE MCText -------------------------------
(***************************************************************************)
(* Small haystacks and pattern sets for the model-checking modules.  The   *)
(* letters name a token the way a test would write it:                     *)
(*    k   token 1: ASCII "k", and the three-byte Kelvin sign K             *)
(*    s   token 2: ASCII "s"                                               *)
(*    e   token 3: the two-byte letter e with an accent, no ASCII form     *)
(*    dot an ASCII byte that is in no pattern                              *)
(*    bad a malformed byte, opaque and in no pattern                       *)
(***************************************************************************)
EXTENDS Integers, Sequences, SequencesExt

kUnit   == [tok |-> 1, width |-> 1, ascii |-> TRUE]
KUnit   == [tok |-> 1, width |-> 3, ascii |-> FALSE]
sUnit   == [tok |-> 2, width |-> 1, ascii |-> TRUE]
eUnit   == [tok |-> 3, width |-> 2, ascii |-> FALSE]
dotUnit == [tok |-> 0, width |-> 1, ascii |-> TRUE]
badUnit == [tok |-> 0, width |-> 1, ascii |-> FALSE]

MCAsciiTokens == {1, 2}

\* The haystack that a sequence of units spells.
HaystackOf(units) ==
  LET n == Len(units)
      off[u \in 0..n] == IF u = 0 THEN 0 ELSE off[u - 1] + units[u].width
  IN  [n     |-> n,
       tok   |-> [u \in 0..(n - 1) |-> units[u + 1].tok],
       ascii |-> [u \in 0..(n - 1) |-> units[u + 1].ascii],
       off   |-> off]

HaystacksOver(kinds, maxUnits) ==
  {HaystackOf(units) : units \in UNION {[1..n -> kinds] : n \in 0..maxUnits}}

\* The pattern set of a list of patterns, indexed from 0 as in the code.
PatternSetOf(list) == [id \in 0..(Len(list) - 1) |-> list[id + 1]]

\* A needle, a prefix of it, a suffix, a border, a doubled letter, repeated
\* and empty patterns in both orders, and roots of every kind.
MCPatternLists == {
  <<>>,
  << <<>> >>,
  << <<1, 2>> >>,
  << <<1, 1, 2>> >>,
  << <<1, 2, 1>> >>,
  << <<1, 3>> >>,
  << <<3>>, <<>> >>,
  << <<>>, <<1, 2>> >>,
  << <<1, 2>>, <<>> >>,
  << <<2>>, <<1, 2>> >>,
  << <<1>>, <<1, 2, 2>> >>,
  << <<1, 2, 2>>, <<1>> >>,
  << <<2, 2>>, <<1, 2, 2, 1>> >>,
  << <<1, 2>>, <<1, 2>>, <<2>> >>,
  << <<1, 2, 1, 1>>, <<2, 1>>, <<2>> >>,
  << <<2, 3>>, <<1, 2, 3>>, <<3, 3>> >>
}

MCPatternSets == {PatternSetOf(list) : list \in MCPatternLists}
=============================================================================
