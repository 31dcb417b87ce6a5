------------------------------- MODULE Literal -------------------------------
(***************************************************************************)
(* A plan of one pattern that begins in ASCII, as makeASCIIAnchor and its  *)
(* helpers in plan.go and zz_ascii_interior.go compile it: which bytes of  *)
(* a haystack may be tested before anything is decoded, where a match may  *)
(* begin if the tests succeed, and how it is confirmed.                    *)
(*                                                                         *)
(* A needle is the sequence of its units as the pattern spells them, so    *)
(* offsets into a part that is all ASCII are offsets in bytes and units.   *)
(***************************************************************************)
EXTENDS ByteFilter

CONSTANTS Inputs,        \* needles, and the haystacks for them
          LongMin,       \* 4096: from here on sampling and sparse scans pay
          InteriorMax,   \* the bytes of a pattern with an interior window, 64
          PairLens,      \* the lengths of literals that have a pair, 9..15
          PairAt         \* where the second byte of the pair is, 8

Needles == UNION {input.needles : input \in Inputs}
Haystacks == UNION {input.haystacks : input \in Inputs}

\* Forms are encodings of runes, or one byte that is none.  Of a letter the ASCII
\* forms are both cases, of any other ASCII byte there is no other.
ASSUME LiteralAssumption ==
  /\ Forms \in Seq(SUBSET (Seq(0..255) \ {<<>>}))
  /\ \A t \in DOMAIN Forms :
       /\ Forms[t] # {}
       /\ \A f \in Forms[t] : /\ Len(f) <= 4
                              /\ Len(f) > 1 => f[1] > 191 /\ \A i \in 2..Len(f) : f[i] \in Trail
                              /\ Len(f) = 1 /\ f[1] \notin Ascii => Forms[t] = {f}
       /\ \A b, c \in Ascii : <<b>> \in Forms[t] =>
            (<<c>> \in Forms[t] <=> IF IsLetter(b) THEN Lower(c) = Lower(b) ELSE c = b)
  /\ \A n \in Needles : n \in Seq(UNION {Forms[t] : t \in DOMAIN Forms}) \ {<<>>}
  /\ \A h \in Haystacks : IsSpelled(h) /\ DecodesForms(h)
  /\ LongMin \in Nat /\ InteriorMax \in Nat
  /\ \A len \in PairLens : PairAt \in 1..(len - 1)

VARIABLES needle, pats,
          fixed,   \* asciiFixedPrefix, if it is three or more
          hay

TokenOf(form) == CHOOSE t \in DOMAIN Forms : form \in Forms[t]

\* newSearchPlan, for one pattern.
PatternOf(n) == [id \in {0} |-> [i \in DOMAIN n |-> TokenOf(n[i])]]

InAscii(i) == Len(needle[i]) = 1 /\ needle[i][1] \in Ascii

\* asciiOnly: every byte of a pattern of three or more.
AsciiOnly == Len(needle) >= 3 /\ \A i \in DOMAIN needle : InAscii(i)

\* asciiOnlyLong: some byte is neither a letter nor a space.
OnlyLong == \E i \in DOMAIN needle : ~IsLetter(needle[i][1]) /\ needle[i][1] # 32

\* Mutated form: whatever the pattern spells in ASCII.
FixedAsSpelled(i) == InAscii(i)

\* No member of the unit's orbit is wider than a byte.
Fixed(i) == InAscii(i) /\ \A f \in Forms[TokenOf(needle[i])] : Len(f) = 1

\* The units from the first on whose orbits are ASCII.
FixedPrefix ==
  CHOOSE k \in 0..Len(needle) :
    (\A i \in 1..k : Fixed(i)) /\ (k < Len(needle) => ~Fixed(k + 1))

\* What newSearchPlan makes of a pattern.
PlanInit ==
  /\ pats = PatternOf(needle)
  /\ ~OpaqueContinuation(pats)
  /\ fixed = FixedPrefix

\* All of the bytes of one kind: the literal is a run.
SameByte ==
  /\ fixed = Len(needle)
  /\ \A i \in DOMAIN needle :
       \/ needle[i] = needle[1]
       \/ /\ IsLetter(needle[i][1]) /\ IsLetter(needle[1][1])
          /\ Lower(needle[i][1]) = Lower(needle[1][1])

IsRun == Len(needle) >= 3 /\ SameByte

(***************************************************************************)
(* makeASCIIInteriorAnchor: the first of the longest stretches of fixed    *)
(* units, if it is all but the first unit that is in front of it.          *)
(***************************************************************************)
IsStretch(i, j) ==
  /\ i < j /\ \A k \in (i + 1)..j : Fixed(k)
  /\ i > 0 => ~Fixed(i)
  /\ j < Len(needle) => ~Fixed(j + 1)

Interior ==
  {w \in {1} \X (4..Len(needle)) :
     /\ AsciiOnly /\ Len(needle) <= InteriorMax
     /\ IsStretch(w[1], w[2])
     /\ \A i, j \in 0..Len(needle) :
          IsStretch(i, j) => j - i < w[2] - w[1] \/ (j - i = w[2] - w[1] /\ w[1] <= i)}

(***************************************************************************)
(* The asciiProbe: three offsets, the first of them that of the window.    *)
(* There is none for a run.                                                *)
(***************************************************************************)
Probes ==
  IF IsRun THEN {}
  ELSE IF fixed >= 3
    THEN {<<0, fixed \div 2, fixed - 1>>}
    ELSE {<<w[1], w[1] + (w[2] - w[1]) \div 2, w[2] - 1>> : w \in Interior}

\* makeASCIIEachProbe, for a literal whose second byte is the rarer.
EachProbes ==
  IF fixed = Len(needle) /\ Len(needle) >= 4 THEN {<<0, 1, 3>>} ELSE {}

\* asciiVerifyTokens: a match is not as wide as the needle, or need not be.
VerifyTokens == fixed < Len(needle)

HasPair == ~IsRun /\ fixed = Len(needle) /\ Len(needle) \in PairLens

-----------------------------------------------------------------------------
\* Bit five does not count in a letter.
ByteIs(b, i) ==
  LET want == needle[i + 1][1]
  IN  IF IsLetter(want) THEN Lower(b) = Lower(want) ELSE b = want

\* The bytes of the offsets are those of a match that starts at byte s.
BytesAt(s, offsets) ==
  \A i \in offsets : s + i < Bytes(hay) /\ ByteIs(hay.bytes[s + i], i)

\* asciiProbeAt
ProbeAt(s, probe) == BytesAt(s, {probe[1], probe[2], probe[3]})

\* asciiPatternAt, and asciiShortLiteralAt for four bytes.
PatternAt(s) == BytesAt(s, 0..(Len(needle) - 1))

\* matchesSingleAt.  Inside a unit is a continuation byte, which the plan has
\* no token for.
MatchesSingleAt(s) == \E u \in 0..hay.n : hay.off[u] = s /\ Occurs(pats, hay, 0, u)

\* asciiAnchorMatches
AnchorMatches(s) == IF VerifyTokens THEN MatchesSingleAt(s) ELSE PatternAt(s)

Malformed(u) == ~hay.ascii[u] /\ hay.off[u + 1] = hay.off[u] + 1

\* Mutated form: the window's offset in the pattern is that in the match.
RecoverByOffset(window, units) == window - units

\* recoverASCIIInteriorStart: so many units back, or -1.
Recover(window, units) ==
  LET u == UnitAt(hay, window)
  IN  IF u < units \/ \E v \in (u - units)..(u - 1) : Malformed(v) THEN -1
      ELSE hay.off[u - units]

(***************************************************************************)
(* Where a match begins if the probe holds at byte at, -1 if none does.    *)
(* Only an interior probe is looked at again: a table of the vectors may   *)
(* have let another byte pass, and only its byte is sure to be a boundary. *)
(***************************************************************************)
StartAt(at, probe) ==
  IF probe[1] = 0 THEN at
  ELSE IF ProbeAt(at, probe) THEN Recover(at + probe[1], probe[1]) ELSE -1

\* Where a probe must not be tried any more.
ProbeLimit(probe) ==
  IF VerifyTokens THEN Bytes(hay) - probe[3] ELSE Bytes(hay) - Len(needle) + 1
=============================================================================
