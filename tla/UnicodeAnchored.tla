--------------------------- MODULE UnicodeAnchored ---------------------------
(***************************************************************************)
(* The routes of findWithWidth for one pattern that is no literal, by the  *)
(* bytes of its units: findUnicodePairAnchor, with its confirmation by raw *)
(* forms of unicode_confirm.go, and findUnicodeAnchor.  A scan looks for   *)
(* bytes that lie at the same distance from the start in every spelling;   *)
(* from there the start is confirmed, by the tokens or by the spellings,   *)
(* in which case the width of the match is known too.                      *)
(*                                                                         *)
(* One step is all blocks of the vector kernel, a skip, or a verdict.      *)
(***************************************************************************)
EXTENDS ByteFilter

CONSTANTS LongMin,       \* 4096
          MaxParts,      \* unicodePairConfirmMaxParts, 20
          MaxDelta,      \* what a byte holds, 255
          Block          \* the starts of a vector block, 64

VARIABLES pats,
          pairs,     \* the units all of whose forms are pairs, with their offsets
          triple,    \* the three bytes of every spelling, if there are such
          confirm,   \* the raw forms: "fixed", "variable" or "none"
          hay, route,
          phase,     \* "blocks", "skip", "check" or "done"
          at, answer,
          width      \* of the match, 0 if it is not known yet

plan == <<pats, pairs, triple, confirm, hay, route>>
vars == <<plan, phase, at, answer, width>>

-----------------------------------------------------------------------------
Least(S) == CHOOSE x \in S : \A y \in S : x <= y
Most(S) == CHOOSE x \in S : \A y \in S : y <= x

Lens(t) == {Len(f) : f \in Forms[t]}
Uniform(t) == \A f, g \in Forms[t] : Len(f) = Len(g)

\* Where a unit begins, and the pattern ends, in its narrowest spelling.
Offsets(p) ==
  LET off[i \in 1..(Len(p) + 1)] == IF i = 1 THEN 0 ELSE off[i - 1] + Least(Lens(p[i - 1]))
  IN  off

OffsetIn(p, i) == Offsets(p)[i]

\* Units with nothing of varying width in front of them.
Anchorable(p) == {i \in DOMAIN p : \A j \in 1..(i - 1) : Uniform(p[j])}

\* makeUnicodePairAnchor: at most two spellings, of two bytes each.
PairUnits(p) ==
  {i \in Anchorable(p) : Lens(p[i]) = {2} /\ Cardinality(Forms[p[i]]) <= 2}

PairOf(p, i) == [at |-> OffsetIn(p, i), forms |-> Forms[p[i]]]

\* The first two: only the first is scanned for, the second is its partner.
Pairs(p) ==
  IF Cardinality(PairUnits(p)) < 2 THEN <<>>
  ELSE LET first == Least(PairUnits(p))
       IN  <<PairOf(p, first), PairOf(p, Least(PairUnits(p) \ {first}))>>

(***************************************************************************)
(* tripleFromForms and makeUnicodeAnchor: the last place at which all of   *)
(* the spellings have the same three bytes.                                *)
(***************************************************************************)
Spelled(p, i) ==
  LET words[j \in (i - 1)..Len(p)] ==
        IF j = i - 1 THEN {<<>>}
        ELSE {w \o f : w \in {v \in words[j - 1] : Len(v) < 3}, f \in Forms[p[j]]}
               \cup {v \in words[j - 1] : Len(v) >= 3}
  IN  words[Len(p)]

Triples(p) ==
  {[at |-> OffsetIn(p, x[1]), bytes |-> SubSeq(x[2], 1, 3)] :
     x \in {y \in Anchorable(p) \X UNION {Spelled(p, i) : i \in DOMAIN p} :
             /\ Len(y[2]) >= 3
             /\ \A v \in Spelled(p, y[1]) : Len(v) >= 3 /\ SubSeq(v, 1, 3) = SubSeq(y[2], 1, 3)}}

NoTriple == [at |-> 0, bytes |-> <<>>]

Triple(p) ==
  IF Triples(p) = {} THEN NoTriple
  ELSE CHOOSE t \in Triples(p) : \A o \in Triples(p) : o.at <= t.at

-----------------------------------------------------------------------------
(***************************************************************************)
(* makeUnicodePairConfirm: every unit as wide in all its forms, two bytes  *)
(* at most.  makeUnicodePairVariableConfirm: three bytes at most, and the  *)
(* widths do vary.  Neither for a pattern with malformed bytes.            *)
(***************************************************************************)
IsPairPair == pairs # <<>> /\ pairs[2].at - pairs[1].at <= MaxDelta

Packable(p) ==
  /\ Len(p) <= MaxParts
  /\ \A i \in DOMAIN p : /\ Cardinality(Forms[p[i]]) <= 3 /\ Lens(p[i]) \subseteq 1..3
                         /\ \A f \in Forms[p[i]] : Len(f) = 1 => f[1] \in Ascii

ConfirmOf(p) ==
  IF ~IsPairPair \/ ~Packable(p) THEN "none"
  ELSE IF \A i \in DOMAIN p : Uniform(p[i]) /\ Lens(p[i]) \subseteq 1..2 THEN "fixed"
  ELSE IF \E i \in DOMAIN p : ~Uniform(p[i]) THEN "variable"
  ELSE "none"

Pattern == pats[0]

MinLength == OffsetIn(Pattern, Len(Pattern) + 1)

MaxLength ==
  LET wide[i \in 0..Len(Pattern)] == IF i = 0 THEN 0 ELSE wide[i - 1] + Most(Lens(Pattern[i]))
  IN  wide[Len(Pattern)]

\* What newSearchPlan makes of the pattern.
PlanInit ==
  /\ pairs = Pairs(Pattern)
  /\ triple = Triple(Pattern)
  /\ confirm = ConfirmOf(Pattern)

(***************************************************************************)
(* chooseUnicodePairAnchor, then findUnicodeAnchor.  Whether the kernel    *)
(* that confirms is used depends on the processor.                         *)
(***************************************************************************)
Routes ==
  IF pairs # <<>> /\ Bytes(hay) >= LongMin
    THEN IF IsPairPair
           THEN {"replay"} \cup (IF confirm = "none" THEN {} ELSE {"confirm"})
           ELSE {"pairs"}
    ELSE IF triple # NoTriple THEN {"triple"} ELSE {}

-----------------------------------------------------------------------------
Has(s, form) ==
  /\ s >= 0 /\ s + Len(form) <= Bytes(hay)
  /\ \A i \in DOMAIN form : hay.bytes[s + i - 1] = form[i]

\* pairFilterAt
PairIs(s, pair) == \E f \in pair.forms : Has(s, f)

\* pairPairAt, for the byte the first pair is at.
PairPairAt(i) == PairIs(i, pairs[1]) /\ PairIs(i + pairs[2].at - pairs[1].at, pairs[2])

\* matchesSingleAt
MatchesSingleAt(s) == \E u \in 0..hay.n : hay.off[u] = s /\ Occurs(pats, hay, 0, u)

(***************************************************************************)
(* matchWidthAt: with a fixed layout every unit has its place; otherwise   *)
(* the cursor moves on by the form that was there.                         *)
(***************************************************************************)
EndFrom(s) ==
  LET end[i \in 0..Len(Pattern)] ==
        IF i = 0 THEN s
        ELSE LET from == end[i - 1]
                 fits == {f \in Forms[Pattern[i]] : from >= 0 /\ Has(from, f)}
             IN  IF fits = {} THEN -1 ELSE from + Len(CHOOSE f \in fits : TRUE)
  IN  end[Len(Pattern)]

FixedFormsAt(s) ==
  \A i \in DOMAIN Pattern : \E f \in Forms[Pattern[i]] : Has(s + OffsetIn(Pattern, i), f)

FormsAt(s) ==
  /\ s >= 0 /\ Bytes(hay) - s >= MinLength
  /\ IF confirm = "fixed" THEN FixedFormsAt(s) ELSE EndFrom(s) >= 0

\* Mutated form: as wide as it can be.
WidestWidthAt(s) == MaxLength

WidthAt(s) == IF confirm = "fixed" THEN MaxLength ELSE EndFrom(s) - s

-----------------------------------------------------------------------------
Answer(m, w) ==
  answer' = m /\ width' = w /\ phase' = "done" /\ UNCHANGED <<plan, at>>

MatchAt(s) == [pattern |-> 0, start |-> s]

\* The starts whose widest match would fit, in whole blocks.
FullStarts ==
  LET starts == Bytes(hay) - MaxLength + 1
  IN  IF starts <= 0 THEN 0 ELSE (starts \div Block) * Block

\* pairPairConfirmBytes
Hits == {s \in 0..(FullStarts - 1) : PairPairAt(s + pairs[1].at) /\ FormsAt(s)}

Blocks ==
  /\ phase = "blocks"
  /\ \/ Bytes(hay) < MinLength /\ Answer(NoMatch, 0)
     \/ /\ Bytes(hay) >= MinLength /\ Hits # {}
        /\ Answer(MatchAt(Least(Hits)), WidthAt(Least(Hits)))
     \/ /\ Bytes(hay) >= MinLength /\ Hits = {}
        /\ at' = at + FullStarts /\ phase' = "skip"
        /\ UNCHANGED <<plan, answer, width>>

\* Mutated form: behind the blocks too, only the widest match is expected.
ConfirmLimitOfWidest == Bytes(hay) - MaxLength + pairs[1].at + 1

\* Behind lastAnchor not even the shortest match has room.
ConfirmLimit == Bytes(hay) - MinLength + pairs[1].at + 1

PairPairLimit == Bytes(hay) - (pairs[2].at - pairs[1].at) - 1

Limit ==
  CASE route = "confirm" -> ConfirmLimit
    [] route = "replay"  -> PairPairLimit
    [] route = "pairs"   -> Bytes(hay) - 1
    [] route = "triple"  -> Bytes(hay) - 2

\* Where a skip must stop; a vector kernel may admit more.
Stop(i) ==
  CASE route \in {"confirm", "replay"} -> PairPairAt(i)
    [] route = "pairs"                 -> PairIs(i, pairs[1])
    [] route = "triple"                -> Has(i, triple.bytes)

\* Where it stops if there is nothing.
SkipEnd ==
  CASE route = "confirm" -> Most({at, PairPairLimit})
    [] OTHER             -> Limit

Skip ==
  /\ phase = "skip" /\ at < Limit
  /\ \E s \in at..SkipEnd :
       /\ \A i \in at..(s - 1) : ~Stop(i)
       /\ at' = s
  /\ phase' = IF at' < Limit THEN "check" ELSE "skip"
  /\ UNCHANGED <<plan, answer, width>>

Start == at - (IF route = "triple" THEN triple.at ELSE pairs[1].at)

Confirmed ==
  /\ Start >= 0
  /\ IF route = "confirm" THEN FormsAt(Start) ELSE MatchesSingleAt(Start)
  /\ route = "pairs" => PairIs(Start + pairs[2].at, pairs[2])

Accept ==
  /\ phase = "check" /\ Confirmed
  /\ Answer(MatchAt(Start), IF route = "confirm" THEN WidthAt(Start) ELSE 0)

Reject ==
  /\ phase = "check" /\ ~Confirmed
  /\ phase' = "skip" /\ at' = at + 1
  /\ UNCHANGED <<plan, answer, width>>

Exhausted == phase = "skip" /\ at >= Limit /\ Answer(NoMatch, 0)

Next == Blocks \/ Skip \/ Accept \/ Reject \/ Exhausted

-----------------------------------------------------------------------------
(***************************************************************************)
(* A width that the confirmation reports is that of the match in the       *)
(* haystack, whatever mixture of spellings it is made of: Matcher.Each     *)
(* goes on from there.                                                     *)
(***************************************************************************)
WidthIsExact ==
  width > 0 =>
    \E u \in 0..hay.n :
      /\ hay.off[u] = answer.start
      /\ Occurs(pats, hay, 0, u)
      /\ hay.off[u + Len(Pattern)] = answer.start + width
=============================================================================
