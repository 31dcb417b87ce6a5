------------------------------ MODULE MCBytes -------------------------------
(***************************************************************************)
(* Byte strings and their units, for the modules whose executors look at   *)
(* bytes.  The tokens:                                                     *)
(*    1  k, K and the Kelvin sign         2  a and A                       *)
(*    3  e with an accent, both cases     4  a malformed lead byte of it   *)
(*    5  a malformed continuation byte                                     *)
(*    6  the left brace, to which the left bracket is an alias but for bit *)
(*       five                          7  the euro sign                    *)
(***************************************************************************)
EXTENDS Integers, Sequences, SequencesExt, FiniteSets

MCForms == << {<<107>>, <<75>>, <<226, 132, 170>>}, {<<97>>, <<65>>},
              {<<195, 169>>, <<195, 137>>}, {<<195>>}, {<<169>>},
              {<<123>>}, {<<226, 130, 172>>} >>
MCAsciiTokens == {1, 2, 6}

(***************************************************************************)
(* utf8.DecodeRuneInString, as far as these bytes go: the width of what is *)
(* taken off the front.                                                    *)
(***************************************************************************)
Width(s) ==
  LET trail(i) == i <= Len(s) /\ s[i] \in 128..191
  IN  IF s[1] \in 194..223 /\ trail(2) THEN 2
      ELSE IF s[1] \in 224..239 /\ trail(2) /\ trail(3) THEN 3
      ELSE 1

\* The haystack of these bytes, where forms[t] are the spellings of token t.
HaystackIn(forms, s) ==
  LET off[u \in 0..Len(s)] ==
        IF u = 0 THEN 0
        ELSE LET prior == off[u - 1] IN
             IF prior = Len(s) THEN prior ELSE prior + Width(SubSeq(s, prior + 1, Len(s)))
      n == CHOOSE u \in 0..Len(s) : off[u] = Len(s) /\ (u > 0 => off[u - 1] < Len(s))
      unit(u) == SubSeq(s, off[u] + 1, off[u + 1])
  IN  [n     |-> n,
       off   |-> [u \in 0..n |-> off[u]],
       bytes |-> [i \in 0..(Len(s) - 1) |-> s[i + 1]],
       ascii |-> [u \in 0..(n - 1) |-> unit(u)[1] < 128],
       tok   |-> [u \in 0..(n - 1) |->
                    IF \E t \in DOMAIN forms : unit(u) \in forms[t]
                      THEN CHOOSE t \in DOMAIN forms : unit(u) \in forms[t]
                      ELSE 0]]

HaystackOf(s) == HaystackIn(MCForms, s)

Piecewise(pieces, count) == {FlattenSeq(p) : p \in UNION {[1..i -> pieces] : i \in 0..count}}

HaystacksFrom(pieces, count) ==
  {HaystackOf(s) : s \in Piecewise(pieces, count)}

PatternSetOf(list) == [id \in 0..(Len(list) - 1) |-> list[id + 1]]
=============================================================================
