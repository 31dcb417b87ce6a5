---------------------------- MODULE RawByteFilter ----------------------------
(***************************************************************************)
(* The raw-byte plan of raw_byte.go: for a small set of patterns with      *)
(* two-byte runes, a table from the two bytes of a rune to its token, a    *)
(* tagged filter with three anchors inside every pattern, and a byte that  *)
(* every match contains.  What makeRawByteTokenPlan and its helpers build. *)
(***************************************************************************)
EXTENDS ByteFilter

CONSTANTS LeadRows,       \* rawByteMaxLeadRows, 2
          NodeLimit,      \* rawByteMaxTransitionSize/(2*rawByteTransitionStride), 96
          AnchorGroups,   \* rawByteMultiAnchorGroups, 8
          PairForms,      \* rawByteMultiAnchorForms, 4
          StartOffsets,   \* rawByteMultiAnchorStartOffsets, 4
          ConfirmGroups,  \* rawByteMultiAnchorConfirmGroups, 3
          UnitCapacity    \* rawByteMultiAnchorUnitCapacity, 16

\* The table has two rows.  Forms are encodings of runes, or single bytes.
ASSUME RawByteAssumption ==
  /\ {NodeLimit, AnchorGroups, PairForms, StartOffsets, ConfirmGroups, UnitCapacity} \subseteq Nat
  /\ LeadRows \in 0..2
  /\ Forms \in Seq(SUBSET (Seq(0..255) \ {<<>>}))
  /\ \A t \in DOMAIN Forms :
       /\ Forms[t] # {} /\ IsFiniteSet(Forms[t])
       /\ \A f \in Forms[t] : /\ Len(f) <= 4
                              /\ Len(f) = 2 => f[1] \in 194..223 /\ f[2] \in Trail

Largest(S) == CHOOSE n \in S : \A m \in S : m <= n
Smallest(S) == CHOOSE n \in S : \A m \in S : n <= m

-----------------------------------------------------------------------------
(***************************************************************************)
(* rawByteTokenConfigFor.  The table shares its storage with the tokens of *)
(* opaque bytes, which these plans do not have: below 128 the tokens, a    *)
(* row of 64 for each lead byte, and at a lead byte its row plus one.      *)
(***************************************************************************)
TwoByteForms(pats) == UNION {{f \in Forms[t] : Len(f) = 2} : t \in UsedTokens(pats)}

Leads(pats) == {f[1] : f \in TwoByteForms(pats)}

HasOpaque(pats) ==
  \E t \in UsedTokens(pats) : \E f \in Forms[t] : Len(f) = 1 /\ f[1] \notin Ascii

HasRawBytePlan(pats) ==
  /\ Cardinality(Ids(pats)) > 1
  /\ Cardinality(Nodes(pats)) <= NodeLimit
  /\ ~HasOpaque(pats)
  /\ Cardinality(Leads(pats)) \in 1..LeadRows

Row(pats, lead) == Cardinality({l \in Leads(pats) : l < lead})

Class(pats, f) == Row(pats, f[1]) * 64 + f[2] - 128

ByteTokens(pats) ==
  LET at(c) == {t \in UsedTokens(pats) : \E f \in Forms[t] : Len(f) = 2 /\ Class(pats, f) = c}
  IN  [b \in 0..255 |-> IF b \in Ascii THEN (IF at(b) = {} THEN 0 ELSE Smallest(at(b)))
                        ELSE IF b \in Leads(pats) THEN Row(pats, b) + 1
                        ELSE 0]

(***************************************************************************)
(* rawByteAdvance reads one ASCII byte or one whole two-byte rune; for     *)
(* anything else it asks for the decoded path.                             *)
(***************************************************************************)
AsciiToken(b) ==
  IF \E t \in DOMAIN Forms : <<b>> \in Forms[t]
    THEN CHOOSE t \in DOMAIN Forms : <<b>> \in Forms[t]
    ELSE 0

IsDirect(h, s) ==
  \/ h.bytes[s] \in Ascii
  \/ h.bytes[s] \in 194..223 /\ s + 1 < Bytes(h) /\ h.bytes[s + 1] \in Trail

DirectUnit(tokens, h, s) ==
  LET b == h.bytes[s] IN
  IF b \in Ascii THEN [token |-> AsciiToken(b), size |-> 1]
  ELSE [token |-> IF tokens[b] = 0 THEN 0
                  ELSE tokens[(tokens[b] - 1) * 64 + h.bytes[s + 1] - 128],
        size  |-> 2]

(***************************************************************************)
(* haystackToken.  At a byte where no unit starts there is a continuation  *)
(* byte, which is malformed there.  A malformed byte has no token in this  *)
(* plan, whatever its entry in the shared table is.                        *)
(***************************************************************************)
StartsUnit(h, s) == \E u \in 0..h.n : h.off[u] = s

\* Mutated form: a malformed byte is looked up as in any other plan.
MalformedTokenShared(tokens, b) == tokens[b]

MalformedToken(tokens, b) == 0

DecodedUnit(tokens, h, s) ==
  LET u    == UnitAt(h, s)
      size == IF StartsUnit(h, s) THEN h.off[u + 1] - s ELSE 1
  IN  [token |-> IF size = 1 THEN MalformedToken(tokens, h.bytes[s]) ELSE h.tok[u],
       size  |-> size]

-----------------------------------------------------------------------------
(***************************************************************************)
(* The anchors.  Every simple fold of an anchor's unit takes two bytes, so *)
(* the unit is found by an exact pair.  The units before it may be spelled *)
(* with different widths: a set of possible distances stands for them, or  *)
(* the empty set when there are too many.                                  *)
(***************************************************************************)
IsPairUnit(t) == Cardinality(Forms[t]) <= PairForms /\ \A f \in Forms[t] : Len(f) = 2

\* rawByteMultiAnchorAddRuneWidths
AddWidths(widths, t) ==
  LET more == {w + Len(f) : w \in widths, f \in Forms[t]}
  IN  IF Cardinality(more) <= StartOffsets /\ \A w \in more : w <= 255 THEN more ELSE {}

\* The possible widths of what lies between units i and j.
WidthsBetween(p, i, j) ==
  LET widths[k \in i..j] == IF k = i THEN {0} ELSE AddWidths(widths[k - 1], p[k - 1])
  IN  widths[j]

PairUnits(p) == {i \in DOMAIN p : IsPairUnit(p[i])}

Anchor(p, i, j, k) ==
  [primary |-> Forms[p[i]], confirm |-> Forms[p[j]], guard |-> Forms[p[k]],
   starts        |-> WidthsBetween(p, 1, i),
   confirmOffset |-> WidthsBetween(p, i, j),
   guardOffset   |-> WidthsBetween(p, i, k)]

(***************************************************************************)
(* What rawByteMultiAnchorSelectCandidate chooses from: any three of the   *)
(* units in their order, the first of them not at the start, with known    *)
(* distances.  Which it takes is a matter of speed.                        *)
(***************************************************************************)
IsAnchor(a) ==
  /\ a.starts # {} /\ a.guardOffset # {}
  /\ Cardinality(a.confirmOffset) \in 1..ConfirmGroups

CandidateAnchors(p) ==
  LET units == PairUnits(p)
      after(i) == {j \in units : j > i}
  IN  {a \in UNION {UNION {{Anchor(p, i, j, k) : k \in after(j)} : j \in after(i)} : i \in after(1)} :
         IsAnchor(a)}

(***************************************************************************)
(* makeRawByteMultiAnchorFilter: one anchor for every pattern, and no more *)
(* distances of a confirmation in all of them than there are tables.  That *)
(* a filter whose anchors are all alike is left out is a matter of speed.  *)
(***************************************************************************)
AnchorFilters(pats) ==
  LET fits(f) == Cardinality(UNION {f[id].confirmOffset : id \in DOMAIN f}) <= ConfirmGroups
  IN  IF /\ Cardinality(Ids(pats)) \in 2..AnchorGroups
         /\ \A id \in Ids(pats) : Cardinality(PairUnits(pats[id])) <= UnitCapacity
        THEN {f \in [Ids(pats) -> UNION {CandidateAnchors(pats[id]) : id \in Ids(pats)}] :
                fits(f) /\ \A id \in Ids(pats) : f[id] \in CandidateAnchors(pats[id])}
        ELSE {}

\* Mutated form: the distances to the guards and confirmations do not count.
MaxOffsetOfFirst(filter) == Smallest(UNION {filter[id].starts : id \in DOMAIN filter})

\* maxOffset
MaxOffset(filter) ==
  Largest(UNION {filter[id].starts \cup filter[id].confirmOffset \cup filter[id].guardOffset :
                   id \in DOMAIN filter})

(***************************************************************************)
(* The scan compares the low six bits of single bytes, for the anchor and  *)
(* for its confirmation; tagsAt compares pairs, and asks for the guard.    *)
(***************************************************************************)
InTables(h, s, pairs) ==
  /\ s + 1 < Bytes(h)
  /\ \E f \in pairs : f[1] % 64 = h.bytes[s] % 64
  /\ \E f \in pairs : f[2] % 64 = h.bytes[s + 1] % 64

\* rawByteMultiAnchorSkipScalar: the patterns whose anchor may be at byte s.
Nominated(h, filter, s) ==
  {id \in DOMAIN filter :
     /\ InTables(h, s, filter[id].primary)
     /\ \E d \in filter[id].confirmOffset : InTables(h, s + d, filter[id].confirm)}

PairAt(h, s, pairs) == s + 1 < Bytes(h) /\ <<h.bytes[s], h.bytes[s + 1]>> \in pairs

\* tagsAt
Tags(h, filter, s) ==
  {id \in Nominated(h, filter, s) :
     /\ PairAt(h, s, filter[id].primary)
     /\ \E d \in filter[id].confirmOffset : PairAt(h, s + d, filter[id].confirm)
     /\ \E d \in filter[id].guardOffset : PairAt(h, s + d, filter[id].guard)}

-----------------------------------------------------------------------------
(***************************************************************************)
(* rawByteOriginGateFor: an ASCII byte that folds to itself only and is in *)
(* every pattern, and how far behind a match's start its first occurrence  *)
(* can be, with the widest spelling of all that is in front of it.  Which  *)
(* byte is taken is a matter of speed.                                     *)
(***************************************************************************)
Widest(t) == Largest({Len(f) : f \in Forms[t]})

WidestPrefix(p, t) ==
  LET prefix[i \in 1..Len(p)] == IF i = 1 THEN 0 ELSE prefix[i - 1] + Widest(p[i - 1])
  IN  prefix[Smallest({i \in DOMAIN p : p[i] = t})]

OriginGates(pats) ==
  {[byte      |-> (CHOOSE f \in Forms[t] : TRUE)[1],
    maxPrefix |-> Largest({WidestPrefix(pats[id], t) : id \in Ids(pats)})] :
     t \in {s \in UsedTokens(pats) :
              /\ Cardinality(Forms[s]) = 1 /\ HasAsciiForm(s)
              /\ \A id \in Ids(pats) : \E i \in DOMAIN pats[id] : pats[id][i] = s}}
=============================================================================
