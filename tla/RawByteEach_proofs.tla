------------------------- MODULE RawByteEach_proofs -------------------------
(***************************************************************************)
(* The scan for anchors inside the patterns yields what repeated calls of  *)
(* Find would: for every pattern set with a raw-byte plan, every choice of *)
(* its anchors, every haystack and either caller.                          *)
(***************************************************************************)
EXTENDS RawByteEach, FoldPlan_proofs, FiniteSetTheorems

\* What the arguments and the plan of a scan are.
Typed ==
  /\ pats \in PatternSets /\ HasRawBytePlan(pats)
  /\ byteTokens = ByteTokens(pats)
  /\ filter \in AnchorFilters(pats)
  /\ hay \in Haystacks
  /\ phase \in {"dispatch", "skip", "check", "replay", "judge", "done"}
  /\ at \in Nat /\ from \in Nat

-----------------------------------------------------------------------------
\* The two choices the plan makes are of something that is there.
LEMMA SmallestIs ==
  ASSUME NEW S \in SUBSET Nat, S # {}
  PROVE  Smallest(S) \in S /\ \A y \in S : Smallest(S) <= y
BY Least DEF Smallest

LEMMA LargestIs ==
  ASSUME NEW S \in SUBSET Nat, S # {}, NEW b \in Nat, \A y \in S : y <= b
  PROVE  Largest(S) \in S /\ Largest(S) \in Nat /\ \A y \in S : y <= Largest(S)
<1> DEFINE T == {b - y : y \in S}
<1>1. PICK least \in T : \A y \in T : least <= y
  <2>1. \A y \in S : y \in Nat /\ y <= b /\ b - y \in Nat
    OBVIOUS
  <2>2. T \in SUBSET Nat /\ T # {}
    BY <2>1
  <2> HIDE DEF T
  <2> QED BY <2>2, Least
<1>2. PICK m \in S : least = b - m
  OBVIOUS
<1>3. ASSUME NEW y \in S PROVE y <= m
  <2>1. b - m <= b - y
    BY <1>1, <1>2
  <2>2. m \in Nat /\ y \in Nat
    OBVIOUS
  <2> QED BY <2>1, <2>2
<1> QED BY <1>3 DEF Largest

LEMMA FormTyped ==
  ASSUME NEW t \in DOMAIN Forms, NEW f \in Forms[t]
  PROVE  /\ f \in Seq(0..255) /\ Len(f) \in 1..4
         /\ Len(f) = 2 => f[1] \in 194..223 /\ f[2] \in Trail
<1>1. Forms[t] \in SUBSET (Seq(0..255) \ {<<>>})
  BY RawByteAssumption DEF RawByteAssumption
<1>2. f \in Seq(0..255) /\ f # <<>>
  BY <1>1
<1>3. Len(f) \in Nat /\ Len(f) # 0
  BY <1>2, EmptySeq, LenProperties
<1>4. Len(f) <= 4 /\ (Len(f) = 2 => f[1] \in 194..223 /\ f[2] \in Trail)
  BY RawByteAssumption DEF RawByteAssumption
<1>5. Len(f) \in 1..4
  <2>1. PICK n \in Nat : n = Len(f)
    BY <1>3
  <2>2. n # 0 /\ n <= 4
    BY <1>3, <1>4, <2>1
  <2>3. n \in 1..4
    BY <2>2
  <2> QED BY <2>1, <2>3
<1> QED BY <1>2, <1>4, <1>5

-----------------------------------------------------------------------------
(***************************************************************************)
(* The haystack: its units and the bytes that spell them.                  *)
(***************************************************************************)
LEMMA Scenery ==
  ASSUME Typed
  PROVE  /\ IsSpelled(hay) /\ IsHaystack(hay) /\ IsPatternSet(pats)
         /\ UsedTokens(pats) \subseteq DOMAIN Forms
         /\ hay.n \in Nat /\ Bytes(hay) \in Nat /\ Bytes(hay) = hay.off[hay.n]
         /\ hay.off[0] = 0
         /\ \A u \in 0..hay.n : hay.off[u] \in Nat /\ hay.off[u] <= Bytes(hay)
         /\ \A u, v \in 0..hay.n : u < v => hay.off[u] < hay.off[v]
         /\ Ids(pats) \subseteq Nat
         /\ \A id \in Ids(pats) : pats[id] \in Seq(Token) /\ Len(pats[id]) \in Nat
<1>1. IsSpelled(hay) /\ IsPatternSet(pats) /\ UsedTokens(pats) \subseteq DOMAIN Forms
  BY RawByteEachAssumption DEF RawByteEachAssumption, Typed
<1>2. IsHaystack(hay)
  BY <1>1 DEF IsSpelled
<1>3. hay.n \in Nat /\ Bytes(hay) \in Nat /\ hay.off[0] = 0
  BY <1>2 DEF IsHaystack, Bytes
<1>4. \A u \in 0..hay.n : hay.off[u] \in Nat /\ hay.off[u] <= Bytes(hay)
  <2> TAKE u \in 0..hay.n
  <2>1. hay.off[u] \in 0..Bytes(hay)
    BY <1>2, OffTyped
  <2> QED BY <1>3, <2>1
<1>5. \A u, v \in 0..hay.n : u < v => hay.off[u] < hay.off[v]
  BY <1>2 DEF IsHaystack
<1>6. /\ Ids(pats) \subseteq Nat
      /\ \A id \in Ids(pats) : pats[id] \in Seq(Token) /\ Len(pats[id]) \in Nat
  BY <1>1 DEF IsPatternSet, Ids
<1> QED BY <1>1, <1>2, <1>3, <1>4, <1>5, <1>6 DEF Bytes

\* What a byte offset says of its unit.
LEMMA OffOrder ==
  ASSUME Typed, NEW u \in 0..hay.n, NEW v \in 0..hay.n
  PROVE  /\ hay.off[u] <= hay.off[v] => u <= v
         /\ u <= v => hay.off[u] <= hay.off[v]
         /\ hay.off[u] = hay.off[v] => u = v
         /\ hay.off[u] < Bytes(hay) => u \in 0..(hay.n - 1)
<1>1. /\ hay.n \in Nat /\ Bytes(hay) = hay.off[hay.n]
      /\ \A x \in 0..hay.n : hay.off[x] \in Nat
      /\ \A x, y \in 0..hay.n : x < y => hay.off[x] < hay.off[y]
  BY Scenery
<1>2. PICK a \in Nat, b \in Nat : a = hay.off[u] /\ b = hay.off[v]
  BY <1>1
<1>3. (v < u => b < a) /\ (u < v => a < b)
  BY <1>1, <1>2
<1>4. u \in Nat /\ v \in Nat
  BY <1>1
<1>5. (a <= b => u <= v) /\ (u <= v => a <= b) /\ (a = b => u = v)
  BY <1>2, <1>3, <1>4
<1>6. hay.off[u] < Bytes(hay) => u \in 0..(hay.n - 1)
  BY <1>1
<1> QED BY <1>2, <1>5, <1>6

LEMMA UnitBytes ==
  ASSUME Typed, NEW u \in 0..(hay.n - 1)
  PROVE  /\ u \in 0..hay.n /\ u + 1 \in 0..hay.n
         /\ hay.off[u] \in Nat /\ hay.off[u + 1] \in Nat
         /\ hay.off[u] < hay.off[u + 1] /\ hay.off[u + 1] <= Bytes(hay)
         /\ hay.off[u] < Bytes(hay)
         /\ hay.tok[u] \in Nat
         /\ hay.bytes[hay.off[u]] \in 0..255
         /\ hay.ascii[u] <=> hay.bytes[hay.off[u]] \in Ascii
         /\ hay.ascii[u] => hay.off[u + 1] = hay.off[u] + 1
<1>1. hay.n \in Nat /\ IsHaystack(hay) /\ IsSpelled(hay)
  BY Scenery
<1>2. u \in 0..hay.n /\ u + 1 \in 0..hay.n /\ u < u + 1
  BY <1>1
<1>3. /\ hay.off[u] \in Nat /\ hay.off[u + 1] \in Nat /\ Bytes(hay) \in Nat
      /\ hay.off[u] < hay.off[u + 1] /\ hay.off[u + 1] <= Bytes(hay)
  BY <1>2, Scenery
<1>4. hay.off[u] \in 0..(Bytes(hay) - 1) /\ hay.off[u] < Bytes(hay)
  BY <1>3
<1>5. hay.bytes[hay.off[u]] \in 0..255
  BY <1>1, <1>4 DEF IsSpelled
<1>6. Spelling(hay, u)[1] = hay.bytes[hay.off[u]]
  <2>1. 1 \in 1..(hay.off[u + 1] - hay.off[u]) /\ hay.off[u] + 1 - 1 = hay.off[u]
    BY <1>3
  <2> QED BY <2>1 DEF Spelling
<1>7. hay.ascii[u] <=> hay.bytes[hay.off[u]] \in Ascii
  BY <1>1, <1>6 DEF IsSpelled
<1>8. hay.tok[u] \in Nat /\ (hay.ascii[u] => hay.off[u + 1] = hay.off[u] + 1)
  BY <1>1 DEF IsHaystack
<1> QED BY <1>2, <1>3, <1>4, <1>5, <1>7, <1>8

\* The bytes of a unit as a sequence.
LEMMA SpellingIs ==
  ASSUME Typed, NEW u \in 0..(hay.n - 1), NEW w, w = hay.off[u + 1] - hay.off[u]
  PROVE  /\ w \in Nat \ {0}
         /\ Spelling(hay, u) \in Seq(0..255) /\ Len(Spelling(hay, u)) = w
         /\ \A i \in 1..w : Spelling(hay, u)[i] = hay.bytes[hay.off[u] + i - 1]
         /\ w = 1 => Spelling(hay, u) = <<hay.bytes[hay.off[u]]>>
         /\ w = 2 => Spelling(hay, u) = <<hay.bytes[hay.off[u]], hay.bytes[hay.off[u] + 1]>>
<1>1. PICK a \in Nat, b \in Nat : a = hay.off[u] /\ b = hay.off[u + 1]
  BY UnitBytes
<1>2. a < b /\ b <= Bytes(hay) /\ w = b - a /\ Bytes(hay) \in Nat
  BY <1>1, UnitBytes, Scenery
<1>3. w \in Nat \ {0}
  BY <1>1, <1>2
<1>4. Spelling(hay, u) = [i \in 1..w |-> hay.bytes[a + i - 1]]
  BY <1>1, <1>2 DEF Spelling
<1>5. hay.bytes \in [0..(Bytes(hay) - 1) -> 0..255]
  BY Scenery DEF IsSpelled
<1>6. \A i \in 1..w : hay.bytes[a + i - 1] \in 0..255
  <2> TAKE i \in 1..w
  <2>1. a + i - 1 \in 0..(Bytes(hay) - 1)
    BY <1>1, <1>2
  <2> QED BY <1>5, <2>1
<1>7. Spelling(hay, u) \in Seq(0..255) /\ Len(Spelling(hay, u)) = w
  <2> DEFINE g == [i \in 1..w |-> hay.bytes[a + i - 1]]
  <2>1. PICK n \in Nat : n = w
    BY <1>3
  <2>2. g \in [1..n -> 0..255]
    BY <1>6, <2>1
  <2> HIDE DEF g
  <2>3. g \in Seq(0..255)
    BY <2>2
  <2>4. Len(g) = n
    BY <2>2
  <2> QED BY <1>4, <2>1, <2>3, <2>4 DEF g
<1>8. ASSUME w = 1 PROVE Spelling(hay, u) = <<hay.bytes[a]>>
  <2>1. \A i \in 1..1 : a + i - 1 = a
    BY <1>1
  <2>2. [i \in 1..1 |-> hay.bytes[a + i - 1]] = <<hay.bytes[a]>>
    BY <2>1
  <2> QED BY <1>4, <1>8, <2>2
<1>9. ASSUME w = 2 PROVE Spelling(hay, u) = <<hay.bytes[a], hay.bytes[a + 1]>>
  <2>1. a + 1 - 1 = a /\ a + 2 - 1 = a + 1
    BY <1>1
  <2> DEFINE g == [i \in 1..2 |-> hay.bytes[a + i - 1]]
  <2>2. g[1] = hay.bytes[a] /\ g[2] = hay.bytes[a + 1]
    BY <2>1
  <2>3. DOMAIN g = 1..2
    OBVIOUS
  <2>4. g = [i \in 1..2 |-> g[i]]
    OBVIOUS
  <2> HIDE DEF g
  <2>5. [i \in 1..2 |-> g[i]] = <<g[1], g[2]>>
    OBVIOUS
  <2> QED BY <1>4, <1>9, <2>2, <2>4, <2>5 DEF g
<1> QED BY <1>1, <1>3, <1>4, <1>7, <1>8, <1>9

\* Every byte belongs to a unit; where none starts there is a continuation byte.
LEMMA InsideUnit ==
  ASSUME Typed, NEW s \in 0..(Bytes(hay) - 1), ~StartsUnit(hay, s)
  PROVE  hay.bytes[s] \in Trail
<1> DEFINE Behind == {u \in 0..hay.n : s < hay.off[u]}
<1>0. /\ hay.n \in Nat /\ Bytes(hay) \in Nat /\ Bytes(hay) = hay.off[hay.n] /\ hay.off[0] = 0
      /\ \A u \in 0..hay.n : hay.off[u] \in Nat
  BY Scenery
<1>1. PICK e \in Behind : \A u \in Behind : e <= u
  <2>1. hay.n \in Behind
    BY <1>0
  <2>2. Behind \in SUBSET Nat /\ Behind # {}
    BY <1>0, <2>1
  <2> HIDE DEF Behind
  <2> QED BY <2>2, Least
<1>2. e \in 0..hay.n /\ s < hay.off[e] /\ e # 0
  BY <1>0
<1>3. e - 1 \in 0..(hay.n - 1) /\ e - 1 \in 0..hay.n /\ ~(e <= e - 1) /\ e - 1 + 1 = e
  BY <1>0, <1>2
<1>4. ~(s < hay.off[e - 1])
  BY <1>1, <1>3
<1>5. PICK a \in Nat, b \in Nat : a = hay.off[e - 1] /\ b = hay.off[e]
  BY <1>0, <1>2, <1>3
<1>6. a < s /\ s < b
  <2>1. hay.off[e - 1] # s
    BY <1>3 DEF StartsUnit
  <2> QED BY <1>2, <1>4, <1>5, <2>1
<1>7. PICK i \in Nat : i = s - a + 1
  BY <1>5, <1>6
<1>8. PICK w \in Nat : w = b - a
  BY <1>5, <1>6
<1>9. i \in 2..w /\ a + i - 1 = s /\ w > 1 /\ i \in 1..w
  BY <1>5, <1>6, <1>7, <1>8
<1>10. w = hay.off[e - 1 + 1] - hay.off[e - 1]
  BY <1>3, <1>5, <1>8
<1>11. Len(Spelling(hay, e - 1)) = w /\ Spelling(hay, e - 1)[i] = hay.bytes[s]
  <2>1. \A j \in 1..w : Spelling(hay, e - 1)[j] = hay.bytes[hay.off[e - 1] + j - 1]
    BY <1>3, <1>10, SpellingIs
  <2>2. Len(Spelling(hay, e - 1)) = w
    BY <1>3, <1>10, SpellingIs
  <2> QED BY <1>5, <1>9, <2>1, <2>2
<1>12. \A j \in 2..w : Spelling(hay, e - 1)[j] \in Trail
  <2>1. IsSpelled(hay)
    BY Scenery
  <2> QED BY <1>3, <1>9, <1>11, <2>1 DEF IsSpelled
<1> QED BY <1>9, <1>11, <1>12

-----------------------------------------------------------------------------
(***************************************************************************)
(* The table of tokens: whichever way a unit is read, its size is right,   *)
(* and so is its token, as far as a pattern has it.                        *)
(***************************************************************************)
LEMMA NodeTokens ==
  ASSUME Typed, NEW s \in Nodes(pats), NEW i \in 1..Len(s)
  PROVE  s[i] \in UsedTokens(pats)
<1>0. IsPatternSet(pats) /\ \A id \in Ids(pats) : pats[id] \in Seq(Token) /\ Len(pats[id]) \in Nat
  BY Scenery
<1>1. s # <<>>
  OBVIOUS
<1>2. PICK id \in Ids(pats) : s \in {SubSeq(pats[id], 1, k) : k \in 1..Len(pats[id])}
  BY <1>1 DEF Nodes
<1>3. PICK k \in 1..Len(pats[id]) : s = SubSeq(pats[id], 1, k)
  BY <1>2
<1>4. Len(s) = k /\ \A j \in 1..k : s[j] = pats[id][j]
  BY <1>0, <1>3, PrefixIsNode
<1>5. i \in 1..k /\ i \in DOMAIN pats[id]
  BY <1>0, <1>3, <1>4
<1>6. s[i] = pats[id][i]
  BY <1>4, <1>5
<1> QED BY <1>5, <1>6 DEF UsedTokens

LEMMA UsedAreTokens ==
  ASSUME Typed
  PROVE  UsedTokens(pats) \subseteq Token /\ UsedTokens(pats) \subseteq DOMAIN Forms
<1>1. \A id \in Ids(pats) : pats[id] \in Seq(Token)
  BY Scenery
<1>2. ASSUME NEW t \in UsedTokens(pats) PROVE t \in Token
  <2>1. PICK id \in Ids(pats) : \E i \in DOMAIN pats[id] : t = pats[id][i]
    BY DEF UsedTokens
  <2> QED BY <1>1, <2>1
<1> QED BY <1>2, Scenery

\* A token that no pattern has leads back to the root, as token 0 does.
LEMMA UnusedAdvance ==
  ASSUME Typed, NEW node \in Nodes(pats), NEW next \in Nodes(pats),
         NEW t \in Nat, t \notin UsedTokens(pats)
  PROVE  IsAdvance(pats, node, t, next) <=> next = <<>>
<1>1. CASE t = 0
  BY <1>1 DEF IsAdvance
<1>2. CASE t # 0
  <2> DEFINE text == Append(node, t)
  <2>0. \A s \in Nodes(pats) : s \in Seq(Token)
    BY Scenery, NodesAreSeqs
  <2>1. Len(text) = Len(node) + 1 /\ text[Len(text)] = t /\ Len(node) \in Nat
    <3>1. node \in Seq(Nat) /\ Len(node) \in Nat
      BY <2>0 DEF Token
    <3> QED BY <3>1
  <2>2. ASSUME NEW s \in Nodes(pats), EndsWith(text, s)
        PROVE  s = <<>>
    <3> HIDE DEF text
    <3> SUFFICES ASSUME s # <<>> PROVE FALSE
      OBVIOUS
    <3>1. Len(s) \in Nat \ {0}
      BY <2>0, EmptySeq, LenProperties
    <3>2. Len(s) \in 1..Len(s)
      BY <3>1
    <3>3. s[Len(s)] = text[Len(text) - Len(s) + Len(s)]
      BY <2>2, <3>2 DEF EndsWith
    <3>4. Len(text) - Len(s) + Len(s) = Len(text)
      BY <2>1, <3>1
    <3>5. s[Len(s)] = t
      BY <2>1, <3>3, <3>4
    <3> QED BY <3>2, <3>5, NodeTokens
  <2>3. EndsWith(text, <<>>)
    <3>1. Len(<<>>) = 0 /\ 1..0 = {} /\ 0 <= Len(text)
      BY <2>1
    <3> HIDE DEF text
    <3> QED BY <3>1 DEF EndsWith
  <2>4. IsAdvance(pats, node, t, next)
          <=> /\ EndsWith(text, next)
              /\ \A s \in Nodes(pats) : EndsWith(text, s) => Len(s) <= Len(next)
    BY <1>2 DEF IsAdvance
  <2>5. Len(<<>>) <= Len(<<>>)
    OBVIOUS
  <2> HIDE DEF text
  <2> QED BY <2>2, <2>3, <2>4, <2>5
<1> QED BY <1>1, <1>2

\* What a read of unit u may give for its token.
StandsFor(t, u) ==
  t = hay.tok[u] \/ (t = 0 /\ hay.tok[u] \notin UsedTokens(pats))

LEMMA AdvancesAlike ==
  ASSUME Typed, NEW node \in Nodes(pats), NEW next \in Nodes(pats),
         NEW u \in 0..(hay.n - 1), NEW t, StandsFor(t, u), IsAdvance(pats, node, t, next)
  PROVE  IsAdvance(pats, node, hay.tok[u], next)
<1>1. CASE t = hay.tok[u]
  BY <1>1
<1>2. CASE t = 0 /\ hay.tok[u] \notin UsedTokens(pats)
  <2>1. next = <<>>
    BY <1>2 DEF IsAdvance
  <2>2. hay.tok[u] \in Nat
    BY UnitBytes
  <2> QED BY <1>2, <2>1, <2>2, UnusedAdvance
<1> QED BY <1>1, <1>2 DEF StandsFor

LEMMA LeadsTyped ==
  ASSUME Typed
  PROVE  /\ Leads(pats) \subseteq 194..223 /\ IsFiniteSet(Leads(pats))
         /\ Cardinality(Leads(pats)) \in Nat /\ Cardinality(Leads(pats)) <= 2
<1>1. ASSUME NEW l \in Leads(pats) PROVE l \in 194..223
  <2>1. PICK f \in TwoByteForms(pats) : l = f[1]
    BY DEF Leads
  <2>2. PICK t \in UsedTokens(pats) : f \in Forms[t] /\ Len(f) = 2
    BY DEF TwoByteForms
  <2>3. t \in DOMAIN Forms
    BY UsedAreTokens
  <2> QED BY <2>1, <2>2, <2>3, FormTyped
<1>2. IsFiniteSet(194..223)
  <2>1. \A a, b \in Int : IsFiniteSet(a..b)
    BY FS_Interval
  <2>2. 194 \in Int /\ 223 \in Int
    OBVIOUS
  <2> QED BY <2>1, <2>2, Zenon
<1>3. Leads(pats) \in SUBSET (194..223)
  BY <1>1
<1>4. IsFiniteSet(Leads(pats))
  BY <1>2, <1>3, FS_Subset
<1>5. Cardinality(Leads(pats)) \in 1..LeadRows /\ LeadRows \in 0..2
  BY RawByteAssumption DEF RawByteAssumption, Typed, HasRawBytePlan
<1> QED BY <1>3, <1>4, <1>5

\* The two rows are those of two different lead bytes.
LEMMA RowsDiffer ==
  ASSUME Typed, NEW l \in Leads(pats), NEW m \in Leads(pats)
  PROVE  /\ Row(pats, l) \in 0..1
         /\ Row(pats, l) = Row(pats, m) => l = m
<1> DEFINE Under(b) == {k \in Leads(pats) : k < b}
<1>0. /\ IsFiniteSet(Leads(pats)) /\ Leads(pats) \subseteq 194..223
      /\ Cardinality(Leads(pats)) \in Nat /\ Cardinality(Leads(pats)) <= 2
  BY LeadsTyped
<1>1. ASSUME NEW b \in Leads(pats)
      PROVE  /\ IsFiniteSet(Under(b)) /\ Row(pats, b) = Cardinality(Under(b))
             /\ Row(pats, b) \in 0..1
  <2> DEFINE others == Leads(pats) \ {b}
  <2>1. IsFiniteSet(others) /\ Cardinality(others) = Cardinality(Leads(pats)) - 1
    BY <1>0, FS_RemoveElement
  <2>2. Under(b) \in SUBSET others
    <3>1. ~(b < b)
      BY <1>0
    <3> QED BY <3>1
  <2> HIDE DEF others
  <2>3. IsFiniteSet(Under(b)) /\ Cardinality(Under(b)) <= Cardinality(others)
    <3> HIDE DEF Under
    <3> QED BY <2>1, <2>2, FS_Subset
  <2>4. Row(pats, b) = Cardinality(Under(b))
    BY DEF Row
  <2>5. Cardinality(Under(b)) \in Nat
    <3> HIDE DEF Under
    <3> QED BY <2>3, FS_CardinalityType
  <2> HIDE DEF Under
  <2>6. PICK n \in Nat, k \in Nat : n = Cardinality(Under(b)) /\ k = Cardinality(Leads(pats))
    BY <1>0, <2>5
  <2>7. n <= k - 1 /\ k <= 2
    BY <1>0, <2>1, <2>3, <2>6
  <2>8. n \in 0..1
    BY <2>7
  <2> QED BY <2>3, <2>4, <2>6, <2>8
<1>2. ASSUME NEW b \in Leads(pats), NEW c \in Leads(pats), b < c
      PROVE  Row(pats, b) # Row(pats, c)
  <2> DEFINE others == Under(c) \ {b}
  <2>1. b \in Under(c)
    BY <1>2
  <2>2. Under(b) \in SUBSET others
    <3>1. \A k \in Under(b) : k \in Leads(pats) /\ k < c /\ k # b
      BY <1>0, <1>2
    <3> QED BY <3>1
  <2>3. IsFiniteSet(Under(c)) /\ IsFiniteSet(Under(b))
    BY <1>1
  <2> HIDE DEF Under
  <2>4. IsFiniteSet(others) /\ Cardinality(others) = Cardinality(Under(c)) - 1
    BY <2>1, <2>3, FS_RemoveElement
  <2> HIDE DEF others
  <2>5. Cardinality(Under(b)) <= Cardinality(others)
    BY <2>2, <2>4, FS_Subset
  <2>6. /\ Row(pats, b) = Cardinality(Under(b)) /\ Row(pats, c) = Cardinality(Under(c))
        /\ Row(pats, b) \in 0..1 /\ Row(pats, c) \in 0..1
    BY <1>1
  <2> QED BY <2>4, <2>5, <2>6
<1>3. l < m \/ m < l \/ l = m
  BY <1>0
<1> QED BY <1>1, <1>2, <1>3

\* Of a used token a unit's bytes are one of the forms, and no other has them.
LEMMA SpelledBy ==
  ASSUME Typed, NEW u \in 0..(hay.n - 1), NEW t \in DOMAIN Forms
  PROVE  hay.tok[u] = t <=> Spelling(hay, u) \in Forms[t]
<1>1. IsSpelled(hay)
  BY Scenery
<1> QED BY <1>1 DEF IsSpelled

LEMMA AsciiRead ==
  ASSUME Typed, NEW u \in 0..(hay.n - 1), hay.ascii[u], NEW b, b = hay.bytes[hay.off[u]]
  PROVE  StandsFor(AsciiToken(b), u)
<1>1. hay.off[u + 1] = hay.off[u] + 1 /\ hay.off[u] \in Nat
  BY UnitBytes
<1>2. 1 = hay.off[u + 1] - hay.off[u]
  BY <1>1
<1>3. Spelling(hay, u) = <<b>>
  BY <1>2, SpellingIs
<1>4. \A t \in DOMAIN Forms : hay.tok[u] = t <=> <<b>> \in Forms[t]
  BY <1>3, SpelledBy
<1>5. CASE \E t \in DOMAIN Forms : <<b>> \in Forms[t]
  <2>1. AsciiToken(b) = CHOOSE t \in DOMAIN Forms : <<b>> \in Forms[t]
    BY <1>5 DEF AsciiToken
  <2>2. AsciiToken(b) \in DOMAIN Forms /\ <<b>> \in Forms[AsciiToken(b)]
    BY <1>5, <2>1
  <2> QED BY <1>4, <2>2 DEF StandsFor
<1>6. CASE ~\E t \in DOMAIN Forms : <<b>> \in Forms[t]
  <2>1. AsciiToken(b) = 0
    BY <1>6 DEF AsciiToken
  <2>2. hay.tok[u] \notin UsedTokens(pats)
    BY <1>4, <1>6, UsedAreTokens
  <2> QED BY <2>1, <2>2 DEF StandsFor
<1> QED BY <1>5, <1>6

\* The table has the token of two bytes at their class.
LEMMA PairRead ==
  ASSUME Typed, NEW u \in 0..(hay.n - 1), NEW b \in 194..223, NEW c,
         Spelling(hay, u) = <<b, c>>, c \in Trail, NEW t,
         t = IF byteTokens[b] = 0 THEN 0 ELSE byteTokens[(byteTokens[b] - 1) * 64 + c - 128]
  PROVE  StandsFor(t, u)
<1> DEFINE f == <<b, c>>
           having(k) ==
              {x \in UsedTokens(pats) : \E g \in Forms[x] : Len(g) = 2 /\ Class(pats, g) = k}
<1>0. Len(f) = 2 /\ f[1] = b /\ f[2] = c
  OBVIOUS
<1>1. byteTokens = [d \in 0..255 |-> IF d \in Ascii
                                       THEN (IF having(d) = {} THEN 0 ELSE Smallest(having(d)))
                                     ELSE IF d \in Leads(pats) THEN Row(pats, d) + 1
                                     ELSE 0]
  BY DEF Typed, ByteTokens
<1>2. byteTokens[b] = IF b \in Leads(pats) THEN Row(pats, b) + 1 ELSE 0
  <2>1. b \in 0..255 /\ b \notin Ascii
    BY DEF Ascii
  <2> HIDE DEF having
  <2> QED BY <1>1, <2>1
<1>3. ASSUME NEW x \in UsedTokens(pats), f \in Forms[x]
      PROVE  hay.tok[u] = x /\ f \in TwoByteForms(pats) /\ b \in Leads(pats)
  <2>1. x \in DOMAIN Forms
    BY UsedAreTokens
  <2>2. f \in TwoByteForms(pats)
    BY <1>0, <1>3 DEF TwoByteForms
  <2>3. b \in Leads(pats)
    BY <1>0, <2>2 DEF Leads
  <2> HIDE DEF f
  <2>4. hay.tok[u] = x
    BY <1>3, <2>1, SpelledBy DEF f
  <2> QED BY <2>2, <2>3, <2>4
<1>4. hay.tok[u] \in UsedTokens(pats) => f \in Forms[hay.tok[u]]
  BY UsedAreTokens, SpelledBy
<1>5. CASE b \notin Leads(pats)
  <2>1. t = 0
    BY <1>2, <1>5
  <2>2. hay.tok[u] \notin UsedTokens(pats)
    BY <1>3, <1>4, <1>5
  <2> QED BY <2>1, <2>2 DEF StandsFor
<1>6. CASE b \in Leads(pats)
  <2> DEFINE k == Class(pats, f)
  <2>1. PICK r \in 0..1 : r = Row(pats, b)
    BY <1>6, RowsDiffer
  <2>2. byteTokens[b] = r + 1 /\ byteTokens[b] # 0 /\ byteTokens[b] - 1 = r
    BY <1>2, <1>6, <2>1
  <2>3. k = r * 64 + c - 128
    BY <1>0, <2>1 DEF Class
  <2>4. k \in 0..127
    <3>1. c \in 128..191 /\ (r = 0 \/ r = 1)
      BY DEF Trail
    <3> HIDE DEF k
    <3> QED BY <2>3, <3>1
  <2>5. t = byteTokens[k]
    BY <2>2, <2>3
  <2>6. k \in 0..255 /\ k \in Ascii
    BY <2>4 DEF Ascii
  <2> HIDE DEF k
  <2>7. t = IF having(k) = {} THEN 0 ELSE Smallest(having(k))
    <3> HIDE DEF having
    <3> QED BY <1>1, <2>5, <2>6
  <2>8. ASSUME NEW x \in having(k) PROVE x = hay.tok[u]
    <3>1. PICK g \in Forms[x] : Len(g) = 2 /\ Class(pats, g) = k
      OBVIOUS
    <3>2. g \in TwoByteForms(pats) /\ x \in UsedTokens(pats) /\ x \in DOMAIN Forms
      BY <3>1, UsedAreTokens DEF TwoByteForms
    <3>3. PICK l \in TwoByteForms(pats) : b = l[1]
      BY <1>6 DEF Leads
    <3>4. g[1] \in Leads(pats)
      BY <3>2 DEF Leads
    <3>5. PICK q \in 0..1 : q = Row(pats, g[1])
      BY <3>4, RowsDiffer
    <3>6. PICK y \in 128..191 : y = g[2]
      <4>1. g[2] \in Trail
        BY <3>1, <3>2, FormTyped
      <4> QED BY <4>1 DEF Trail
    <3>7. q * 64 + y - 128 = r * 64 + c - 128
      BY <2>3, <3>1, <3>5, <3>6 DEF Class
    <3>8. q = r /\ y = c
      <4>1. c \in 128..191 /\ (r = 0 \/ r = 1) /\ (q = 0 \/ q = 1)
        BY DEF Trail
      <4> QED BY <3>7, <4>1
    <3>9. g[1] = b /\ g[2] = c
      BY <1>6, <2>1, <3>4, <3>5, <3>6, <3>8, RowsDiffer
    <3>10. g \in Seq(0..255)
      BY <3>2, FormTyped
    <3>11. g = f
      BY <3>1, <3>9, <3>10
    <3> QED BY <1>3, <3>2, <3>11
  <2>9. hay.tok[u] \in UsedTokens(pats) => hay.tok[u] \in having(k)
    <3> SUFFICES ASSUME hay.tok[u] \in UsedTokens(pats) PROVE hay.tok[u] \in having(k)
      OBVIOUS
    <3>1. f \in Forms[hay.tok[u]] /\ Len(f) = 2 /\ Class(pats, f) = k
      BY <1>0, <1>4 DEF k
    <3> HIDE DEF f
    <3> QED BY <3>1
  <2>10. CASE having(k) = {}
    <3> HIDE DEF having
    <3> QED BY <2>7, <2>9, <2>10 DEF StandsFor
  <2>11. CASE having(k) # {}
    <3>1. having(k) \in SUBSET Nat
      BY <2>8, UnitBytes
    <3> HIDE DEF having
    <3>2. Smallest(having(k)) \in having(k)
      BY <2>11, <3>1, SmallestIs
    <3> QED BY <2>7, <2>8, <2>11, <3>2 DEF StandsFor
  <2> QED BY <2>10, <2>11
<1> QED BY <1>5, <1>6

\* rawByteAdvance and haystackToken read unit u.
LEMMA UnitIsRead ==
  ASSUME Typed, NEW u \in 0..(hay.n - 1), pos = hay.off[u]
  PROVE  UnitRead.size = hay.off[u + 1] - hay.off[u] /\ StandsFor(UnitRead.token, u)
<1> DEFINE b == hay.bytes[pos]
           w == hay.off[u + 1] - hay.off[u]
<1>0. /\ b \in 0..255 /\ (hay.ascii[u] <=> b \in Ascii)
      /\ hay.off[u] \in Nat /\ hay.off[u + 1] \in Nat /\ u \in 0..hay.n
  BY UnitBytes
<1>1. CASE hay.ascii[u]
  <2>1. IsDirect(hay, pos) /\ b \in Ascii
    BY <1>0, <1>1 DEF IsDirect
  <2>2. UnitRead = [token |-> AsciiToken(b), size |-> 1]
    BY <2>1 DEF UnitRead, DirectUnit
  <2>3. UnitRead.token = AsciiToken(b) /\ UnitRead.size = 1
    BY <2>2
  <2>4. w = 1
    <3>1. hay.off[u + 1] = hay.off[u] + 1
      BY <1>1, UnitBytes
    <3> QED BY <1>0, <3>1
  <2> QED BY <1>1, <2>3, <2>4, AsciiRead
<1>2. CASE ~hay.ascii[u] /\ IsDirect(hay, pos)
  <2>1. b \notin Ascii /\ b \in 194..223 /\ pos + 1 < Bytes(hay) /\ hay.bytes[pos + 1] \in Trail
    BY <1>0, <1>2 DEF IsDirect
  <2>2. hay.off[u + 1] = hay.off[u] + 2
    BY <1>2, RawByteEachAssumption DEF RawByteEachAssumption, Typed
  <2>3. w = 2
    BY <1>0, <2>2
  <2> DEFINE c == hay.bytes[pos + 1]
             t == IF byteTokens[b] = 0 THEN 0 ELSE byteTokens[(byteTokens[b] - 1) * 64 + c - 128]
  <2>4. Spelling(hay, u) = <<b, c>>
    BY <2>3, SpellingIs
  <2>5. UnitRead = [token |-> t, size |-> 2]
    BY <1>2, <2>1 DEF UnitRead, DirectUnit
  <2>6. UnitRead.token = t /\ UnitRead.size = 2
    BY <2>5
  <2>7. StandsFor(t, u)
    <3> HIDE DEF b, c
    <3>1. b \in 194..223 /\ c \in Trail
      BY <2>1 DEF c
    <3> QED BY <2>4, <3>1, PairRead
  <2> QED BY <2>3, <2>6, <2>7
<1>3. CASE ~IsDirect(hay, pos)
  <2>1. StartsUnit(hay, pos) /\ UnitAt(hay, pos) = u
    <3>1. IsHaystack(hay)
      BY Scenery
    <3> QED BY <1>0, <3>1, UnitAtOff DEF StartsUnit
  <2>2. UnitRead = [token |-> IF w = 1 THEN 0 ELSE hay.tok[u], size |-> w]
    BY <1>3, <2>1 DEF UnitRead, DecodedUnit, MalformedToken
  <2>3. UnitRead.size = w /\ UnitRead.token = IF w = 1 THEN 0 ELSE hay.tok[u]
    BY <2>2
  <2>4. ASSUME w = 1 PROVE hay.tok[u] \notin UsedTokens(pats)
    <3> SUFFICES ASSUME hay.tok[u] \in UsedTokens(pats) PROVE FALSE
      OBVIOUS
    <3> DEFINE f == <<b>>
    <3>1. f \in Forms[hay.tok[u]]
      <4>1. Spelling(hay, u) = f
        BY <2>4, SpellingIs
      <4> QED BY <4>1, UsedAreTokens, SpelledBy
    <3>2. Len(f) = 1 /\ f[1] = b
      OBVIOUS
    <3>3. b \notin Ascii
      BY <1>3 DEF IsDirect
    <3> HIDE DEF f, b
    <3>4. HasOpaque(pats)
      BY <3>1, <3>2, <3>3 DEF HasOpaque
    <3> QED BY <3>4 DEF Typed, HasRawBytePlan
  <2> QED BY <2>3, <2>4 DEF StandsFor
<1> QED BY <1>1, <1>2, <1>3

\* Where no unit starts one byte is read, which is nobody's.
LEMMA MalformedIsRead ==
  ASSUME Typed, pos \in 0..(Bytes(hay) - 1), ~StartsUnit(hay, pos)
  PROVE  UnitRead.token = 0
<1>1. hay.bytes[pos] \in Trail
  BY InsideUnit
<1>2. ~IsDirect(hay, pos)
  BY <1>1 DEF IsDirect, Trail, Ascii
<1>3. UnitRead = [token |-> 0, size |-> 1]
  BY <1>2 DEF UnitRead, DecodedUnit, MalformedToken
<1> QED BY <1>3

-----------------------------------------------------------------------------
(***************************************************************************)
(* The anchors: where a pattern occurs, all three of its pairs are there,  *)
(* at distances that the filter has.                                       *)
(***************************************************************************)
LEMMA OccurrenceUnits ==
  ASSUME Typed, NEW id \in Ids(pats), NEW u \in Nat, Occurs(pats, hay, id, u),
         NEW m \in 1..Len(pats[id])
  PROVE  /\ u + m - 1 \in 0..(hay.n - 1) /\ u + m - 1 \in 0..hay.n
         /\ u + (m - 1) = u + m - 1 /\ u + m - 1 + 1 = u + m
         /\ hay.tok[u + m - 1] = pats[id][m] /\ pats[id][m] \in DOMAIN Forms
         /\ pats[id][m] \in UsedTokens(pats)
         /\ Spelling(hay, u + m - 1) \in Forms[pats[id][m]]
<1>1. hay.n \in Nat /\ Len(pats[id]) \in Nat /\ pats[id] \in Seq(Token)
  BY Scenery
<1>2. u + Len(pats[id]) <= hay.n /\ hay.tok[u + m - 1] = pats[id][m]
  BY DEF Occurs
<1>3. PICK len \in Nat, n \in Nat : len = Len(pats[id]) /\ n = hay.n
  BY <1>1
<1>4. /\ u + m - 1 \in 0..(hay.n - 1) /\ u + m - 1 \in 0..hay.n
      /\ u + (m - 1) = u + m - 1 /\ u + m - 1 + 1 = u + m
  BY <1>2, <1>3
<1>5. m \in DOMAIN pats[id]
  BY <1>1
<1>6. pats[id][m] \in UsedTokens(pats)
  BY <1>5 DEF UsedTokens
<1>7. pats[id][m] \in DOMAIN Forms
  BY <1>6, UsedAreTokens
<1> QED BY <1>2, <1>4, <1>6, <1>7, SpelledBy

IsWidths(p, i, j, f) ==
  f = [k \in i..j |-> IF k = i THEN {0} ELSE AddWidths(f[k - 1], p[k - 1])]

LEMMA AddWidthsTyped ==
  ASSUME Typed, NEW t \in DOMAIN Forms, NEW widths \in SUBSET (0..255)
  PROVE  AddWidths(widths, t) \in SUBSET (0..255)
<1> DEFINE more == {w + Len(f) : w \in widths, f \in Forms[t]}
<1>1. ASSUME NEW w \in widths, NEW f \in Forms[t] PROVE w + Len(f) \in Nat
  BY FormTyped
<1>2. more \subseteq Nat
  BY <1>1
<1>3. AddWidths(widths, t) = IF Cardinality(more) <= StartOffsets /\ \A w \in more : w <= 255
                               THEN more ELSE {}
  BY DEF AddWidths
<1> HIDE DEF more
<1>4. (\A w \in more : w <= 255) => more \in SUBSET (0..255)
  BY <1>2
<1> QED BY <1>3, <1>4

LEMMA WidthsExist ==
  ASSUME Typed, NEW id \in Ids(pats), NEW i \in 1..Len(pats[id]), NEW j \in i..Len(pats[id])
  PROVE  \E f : IsWidths(pats[id], i, j, f)
<1> DEFINE n == j - i
           V == SUBSET (0..255)
           round == [x \in (1..n) \X V |-> AddWidths(x[2], pats[id][i + x[1] - 1])]
<1>0. Len(pats[id]) \in Nat /\ pats[id] \in Seq(Token)
  BY Scenery
<1>1. n \in Nat /\ {0} \in V
  BY <1>0
<1>2. round \in [(1..n) \X V -> V]
  <2>1. ASSUME NEW x \in (1..n) \X V PROVE AddWidths(x[2], pats[id][i + x[1] - 1]) \in V
    <3>1. x[1] \in 1..n /\ x[2] \in SUBSET (0..255)
      OBVIOUS
    <3>2. i + x[1] - 1 \in 1..Len(pats[id])
      BY <1>0, <3>1
    <3>3. pats[id][i + x[1] - 1] \in DOMAIN Forms
      <4>1. pats[id][i + x[1] - 1] \in UsedTokens(pats)
        BY <1>0, <3>2 DEF UsedTokens
      <4> QED BY <4>1, UsedAreTokens
    <3> QED BY <3>1, <3>3, AddWidthsTyped
  <2> QED BY <2>1
<1> HIDE DEF V
<1>3. PICK g : IsIteration(V, {0}, round, n, g)
  <2> HIDE DEF round, n
  <2> QED BY <1>1, <1>2, RunExists
<1>4. g \in [0..n -> V] /\ g[0] = {0} /\ \A m \in 1..n : g[m] = round[<<m, g[m - 1]>>]
  BY <1>3 DEF IsIteration
<1> DEFINE f == [k \in i..j |-> g[k - i]]
<1>5. ASSUME NEW k \in i..j
      PROVE  f[k] = IF k = i THEN {0} ELSE AddWidths(f[k - 1], pats[id][k - 1])
  <2>1. CASE k = i
    <3>1. k - i = 0
      BY <1>0, <2>1
    <3> QED BY <1>4, <2>1, <3>1
  <2>2. CASE k # i
    <3>1. PICK m \in Nat : m = k - i
      BY <1>0
    <3>2. m \in 1..n /\ m - 1 \in 0..n /\ k - 1 \in i..j /\ k - 1 - i = m - 1 /\ i + m - 1 = k - 1
      BY <1>0, <2>2, <3>1
    <3>3. g[m - 1] \in V
      BY <1>4, <3>2
    <3>4. <<m, g[m - 1]>> \in (1..n) \X V
      BY <3>2, <3>3
    <3>5. round[<<m, g[m - 1]>>] = AddWidths(g[m - 1], pats[id][i + m - 1])
      BY <3>4
    <3>6. f[k] = g[m] /\ f[k - 1] = g[m - 1]
      BY <3>1, <3>2
    <3> HIDE DEF f, round, n
    <3>7. g[m] = AddWidths(g[m - 1], pats[id][k - 1])
      BY <1>4, <3>2, <3>5
    <3> QED BY <2>2, <3>6, <3>7
  <2> QED BY <2>1, <2>2
<1>6. f = [k \in i..j |-> f[k]]
  OBVIOUS
<1> HIDE DEF f
<1>7. f = [k \in i..j |-> IF k = i THEN {0} ELSE AddWidths(f[k - 1], pats[id][k - 1])]
  BY <1>5, <1>6, Zenon
<1> QED BY <1>7, Zenon DEF IsWidths

\* A known width is that of the text.
LEMMA WidthsAre ==
  ASSUME Typed, NEW id \in Ids(pats), NEW i \in 1..Len(pats[id]), NEW j \in i..Len(pats[id])
  PROVE  /\ WidthsBetween(pats[id], i, j) \subseteq 0..255
         /\ \A u \in Nat :
              Occurs(pats, hay, id, u) /\ WidthsBetween(pats[id], i, j) # {} =>
                hay.off[u + j - 1] - hay.off[u + i - 1] \in WidthsBetween(pats[id], i, j)
<1> DEFINE f == CHOOSE g : IsWidths(pats[id], i, j, g)
<1>0. Len(pats[id]) \in Nat /\ hay.n \in Nat
  BY Scenery
<1>1. IsWidths(pats[id], i, j, f)
  BY WidthsExist
<1>2. WidthsBetween(pats[id], i, j) = f[j]
  BY Zenon DEF WidthsBetween, IsWidths
<1> HIDE DEF f
<1>3. \A k \in i..j : f[k] = IF k = i THEN {0} ELSE AddWidths(f[k - 1], pats[id][k - 1])
  BY <1>1 DEF IsWidths
<1> DEFINE Fits(k) == /\ f[k] \subseteq 0..255
                      /\ \A u \in Nat : Occurs(pats, hay, id, u) /\ f[k] # {} =>
                           hay.off[u + k - 1] - hay.off[u + i - 1] \in f[k]
           Bad == {k \in i..j : ~Fits(k)}
<1>4. ASSUME NEW k \in i..j, k = i PROVE Fits(k)
  <2>1. f[k] = {0}
    BY <1>3, <1>4
  <2>2. ASSUME NEW u \in Nat, Occurs(pats, hay, id, u)
        PROVE  hay.off[u + k - 1] - hay.off[u + i - 1] = 0
    <3>1. u + i - 1 \in 0..hay.n
      BY <2>2, OccurrenceUnits
    <3>2. hay.off[u + i - 1] \in Nat
      BY <3>1, Scenery
    <3> QED BY <1>4, <3>2
  <2> QED BY <2>1, <2>2
<1>5. ASSUME NEW k \in i..j, k # i, Fits(k - 1) PROVE Fits(k)
  <2>1. /\ k - 1 \in i..j /\ k - 1 \in 1..Len(pats[id])
        /\ k - 1 - 1 + 1 = k - 1 /\ k \in 1..Len(pats[id])
    BY <1>0, <1>5
  <2>2. f[k] = AddWidths(f[k - 1], pats[id][k - 1])
    BY <1>3, <1>5
  <2>3. pats[id][k - 1] \in DOMAIN Forms
    <3>1. pats[id][k - 1] \in UsedTokens(pats)
      BY <2>1, Scenery DEF UsedTokens
    <3> QED BY <3>1, UsedAreTokens
  <2>4. f[k] \subseteq 0..255
    <3>1. f[k - 1] \in SUBSET (0..255)
      BY <1>5
    <3>2. AddWidths(f[k - 1], pats[id][k - 1]) \in SUBSET (0..255)
      BY <2>3, <3>1, AddWidthsTyped
    <3> QED BY <2>2, <3>2
  <2>5. ASSUME NEW u \in Nat, Occurs(pats, hay, id, u), f[k] # {}
        PROVE  hay.off[u + k - 1] - hay.off[u + i - 1] \in f[k]
    <3> DEFINE t == pats[id][k - 1]
               s == Spelling(hay, u + (k - 1) - 1)
    <3>1. f[k] = {w + Len(g) : w \in f[k - 1], g \in Forms[t]}
      BY <2>2, <2>5 DEF AddWidths
    <3>2. f[k - 1] # {}
      BY <2>5, <3>1
    <3>3. hay.off[u + (k - 1) - 1] - hay.off[u + i - 1] \in f[k - 1]
      BY <1>5, <2>5, <3>2
    <3>4. s \in Forms[t] /\ u + (k - 1) - 1 \in 0..(hay.n - 1) /\ u + (k - 1) - 1 + 1 = u + (k - 1)
      BY <2>1, <2>5, OccurrenceUnits
    <3>5. u + (k - 1) = u + k - 1 /\ u + i - 1 \in 0..hay.n
      <4>1. u + i - 1 \in 0..hay.n
        BY <2>5, OccurrenceUnits
      <4> QED BY <1>0, <4>1
    <3>6. PICK e \in Nat, m \in Nat :
            e = hay.off[u + k - 1] /\ m = hay.off[u + (k - 1) - 1]
      BY <3>4, <3>5, UnitBytes
    <3>7. PICK b \in Nat : b = hay.off[u + i - 1]
      BY <3>5, Scenery
    <3>8. Len(s) = e - m
      BY <3>4, <3>5, <3>6, SpellingIs
    <3> HIDE DEF s, t
    <3>9. (m - b) + Len(s) \in f[k]
      BY <3>1, <3>3, <3>4, <3>6, <3>7
    <3>10. (m - b) + (e - m) = e - b
      BY <3>6, <3>7
    <3> QED BY <3>6, <3>7, <3>8, <3>9, <3>10
  <2> QED BY <2>4, <2>5
<1>6. Bad = {}
  <2> SUFFICES ASSUME Bad # {} PROVE FALSE
    OBVIOUS
  <2>1. PICK k \in Bad : \A m \in Bad : k <= m
    <3>1. Bad \in SUBSET Nat
      BY <1>0
    <3> HIDE DEF Bad
    <3> QED BY <3>1, Least
  <2>2. k \in i..j /\ ~Fits(k)
    OBVIOUS
  <2>3. k # i
    BY <1>4, <2>2
  <2>4. k - 1 \in i..j /\ ~(k <= k - 1)
    BY <1>0, <2>2, <2>3
  <2>5. k - 1 \notin Bad
    BY <2>1, <2>4
  <2>6. Fits(k - 1)
    BY <2>4, <2>5
  <2> QED BY <1>5, <2>2, <2>3, <2>6
<1>7. Fits(j)
  <2>1. j \in i..j
    BY <1>0
  <2> HIDE DEF Fits
  <2> QED BY <1>6, <2>1
<1> QED BY <1>2, <1>7

LEMMA AnchorIs ==
  ASSUME Typed, NEW id \in Ids(pats)
  PROVE  /\ DOMAIN filter = Ids(pats)
         /\ IsAnchor(filter[id])
         /\ \E i, j, k \in 2..Len(pats[id]) :
              /\ i < j /\ j < k
              /\ IsPairUnit(pats[id][i]) /\ IsPairUnit(pats[id][j]) /\ IsPairUnit(pats[id][k])
              /\ filter[id] = Anchor(pats[id], i, j, k)
<1>0. Len(pats[id]) \in Nat /\ pats[id] \in Seq(Token)
  BY Scenery
<1>1. DOMAIN filter = Ids(pats) /\ filter[id] \in CandidateAnchors(pats[id])
  BY DEF Typed, AnchorFilters
<1> DEFINE places == PairUnits(pats[id])
           after(i) == {j \in places : j > i}
<1>2. \A i \in places : i \in 1..Len(pats[id]) /\ IsPairUnit(pats[id][i])
  BY <1>0 DEF PairUnits
<1>3. /\ IsAnchor(filter[id])
      /\ filter[id] \in UNION {UNION {{Anchor(pats[id], i, j, k) : k \in after(j)} :
                                j \in after(i)} : i \in after(1)}
  BY <1>1 DEF CandidateAnchors
<1> HIDE DEF places
<1>4. PICK i \in after(1) :
        filter[id] \in UNION {{Anchor(pats[id], i, j, k) : k \in after(j)} : j \in after(i)}
  BY <1>3
<1>5. PICK j \in after(i) : filter[id] \in {Anchor(pats[id], i, j, k) : k \in after(j)}
  BY <1>4
<1>6. PICK k \in after(j) : filter[id] = Anchor(pats[id], i, j, k)
  BY <1>5
<1>7. /\ i \in 2..Len(pats[id]) /\ j \in 2..Len(pats[id]) /\ k \in 2..Len(pats[id])
      /\ i < j /\ j < k
      /\ IsPairUnit(pats[id][i]) /\ IsPairUnit(pats[id][j]) /\ IsPairUnit(pats[id][k])
  BY <1>0, <1>2
<1> QED BY <1>1, <1>3, <1>6, <1>7

\* No pattern is empty, and the distances of an anchor fit a byte.
LEMMA AnchorTyped ==
  ASSUME Typed, NEW id \in Ids(pats)
  PROVE  /\ pats[id] # <<>>
         /\ filter[id].starts # {} /\ filter[id].starts \subseteq 0..255
         /\ filter[id].confirmOffset \subseteq 0..255 /\ filter[id].guardOffset \subseteq 0..255
<1>0. Len(pats[id]) \in Nat /\ pats[id] \in Seq(Token)
  BY Scenery
<1>1. PICK i, j, k \in 2..Len(pats[id]) :
        i < j /\ j < k /\ filter[id] = Anchor(pats[id], i, j, k)
  BY AnchorIs
<1>2. /\ i \in 1..Len(pats[id]) /\ 1 \in 1..Len(pats[id]) /\ i \in 1..Len(pats[id])
      /\ j \in i..Len(pats[id]) /\ k \in i..Len(pats[id])
  BY <1>0, <1>1
<1>3. /\ filter[id].starts = WidthsBetween(pats[id], 1, i)
      /\ filter[id].confirmOffset = WidthsBetween(pats[id], i, j)
      /\ filter[id].guardOffset = WidthsBetween(pats[id], i, k)
  BY <1>1 DEF Anchor
<1>4. /\ WidthsBetween(pats[id], 1, i) \subseteq 0..255
      /\ WidthsBetween(pats[id], i, j) \subseteq 0..255
      /\ WidthsBetween(pats[id], i, k) \subseteq 0..255
  BY <1>2, WidthsAre
<1>5. filter[id].starts # {}
  BY AnchorIs DEF IsAnchor
<1>6. pats[id] # <<>>
  <2>1. Len(<<>>) = 0
    OBVIOUS
  <2> QED BY <1>0, <1>1, <2>1
<1> QED BY <1>3, <1>4, <1>5, <1>6

LEMMA PairThere ==
  ASSUME Typed, NEW id \in Ids(pats), NEW u \in Nat, Occurs(pats, hay, id, u),
         NEW m \in 1..Len(pats[id]), IsPairUnit(pats[id][m]), NEW s, s = hay.off[u + m - 1]
  PROVE  /\ s \in Nat /\ s + 1 < Bytes(hay)
         /\ PairAt(hay, s, Forms[pats[id][m]]) /\ InTables(hay, s, Forms[pats[id][m]])
<1> DEFINE v == u + m - 1
           f == Spelling(hay, v)
<1>1. v \in 0..(hay.n - 1) /\ f \in Forms[pats[id][m]]
  BY OccurrenceUnits
<1>2. Len(f) = 2
  BY <1>1 DEF IsPairUnit
<1> HIDE DEF v
<1>3. PICK a \in Nat, b \in Nat : a = hay.off[v] /\ b = hay.off[v + 1]
  BY <1>1, UnitBytes
<1>4. b <= Bytes(hay) /\ Bytes(hay) \in Nat
  BY <1>1, <1>3, UnitBytes, Scenery
<1>5. b - a = 2
  BY <1>1, <1>2, <1>3, SpellingIs
<1>6. f = <<hay.bytes[a], hay.bytes[a + 1]>>
  BY <1>1, <1>3, <1>5, SpellingIs
<1>7. a + 1 < Bytes(hay)
  BY <1>4, <1>5
<1>8. s = a
  BY <1>3 DEF v
<1>9. f[1] = hay.bytes[a] /\ f[2] = hay.bytes[a + 1]
  BY <1>6
<1> HIDE DEF f
<1> QED BY <1>1, <1>6, <1>7, <1>8, <1>9 DEF PairAt, InTables

\* Byte s may be the anchor of an occurrence of the pattern at unit u.
Points(id, s, u) == id \in Tags(hay, filter, s) /\ s - hay.off[u] \in filter[id].starts

(***************************************************************************)
(* Where a pattern occurs, all three pairs of its anchor are in the tables *)
(* at their places, for every choice of three of its pairs: the kernel's   *)
(* screen stops inside the occurrence, at one of the byte distances that   *)
(* the filter has for it, whatever the widths of the units before.         *)
(***************************************************************************)
THEOREM OccurrenceAnchored ==
  ASSUME Typed, NEW id \in Ids(pats), NEW u \in Nat, Occurs(pats, hay, id, u)
  PROVE  \E s \in Nat : s + 1 < Bytes(hay) /\ Points(id, s, u)
<1>0. Len(pats[id]) \in Nat /\ pats[id] \in Seq(Token)
  BY Scenery
<1>1. PICK i, j, k \in 2..Len(pats[id]) :
        /\ i < j /\ j < k
        /\ IsPairUnit(pats[id][i]) /\ IsPairUnit(pats[id][j]) /\ IsPairUnit(pats[id][k])
        /\ filter[id] = Anchor(pats[id], i, j, k)
  BY AnchorIs
<1>2. /\ i \in 1..Len(pats[id]) /\ 1 \in 1..Len(pats[id]) /\ i \in 1..Len(pats[id])
      /\ j \in 1..Len(pats[id]) /\ k \in 1..Len(pats[id])
      /\ j \in i..Len(pats[id]) /\ k \in i..Len(pats[id])
  BY <1>0, <1>1
<1>3. /\ filter[id].starts = WidthsBetween(pats[id], 1, i)
      /\ filter[id].confirmOffset = WidthsBetween(pats[id], i, j)
      /\ filter[id].guardOffset = WidthsBetween(pats[id], i, k)
      /\ filter[id].primary = Forms[pats[id][i]]
      /\ filter[id].confirm = Forms[pats[id][j]]
      /\ filter[id].guard = Forms[pats[id][k]]
  BY <1>1 DEF Anchor
<1>4. /\ filter[id].starts # {} /\ filter[id].guardOffset # {} /\ filter[id].confirmOffset # {}
      /\ DOMAIN filter = Ids(pats)
  <2>1. IsAnchor(filter[id]) /\ DOMAIN filter = Ids(pats)
    BY AnchorIs
  <2>2. Cardinality({}) = 0
    BY FS_EmptySet
  <2>3. Cardinality(filter[id].confirmOffset) # 0
    BY <2>1 DEF IsAnchor
  <2> QED BY <2>1, <2>2, <2>3 DEF IsAnchor
<1>5. PICK s \in Nat, c \in Nat, g \in Nat :
        s = hay.off[u + i - 1] /\ c = hay.off[u + j - 1] /\ g = hay.off[u + k - 1]
  BY <1>1, <1>2, PairThere
<1>6. /\ s - hay.off[u] \in filter[id].starts
      /\ c - s \in filter[id].confirmOffset /\ g - s \in filter[id].guardOffset
  <2>1. u + 1 - 1 = u
    OBVIOUS
  <2>2. hay.off[u + i - 1] - hay.off[u + 1 - 1] \in WidthsBetween(pats[id], 1, i)
    BY <1>2, <1>3, <1>4, WidthsAre
  <2>3. hay.off[u + j - 1] - hay.off[u + i - 1] \in WidthsBetween(pats[id], i, j)
    BY <1>2, <1>3, <1>4, WidthsAre
  <2>4. hay.off[u + k - 1] - hay.off[u + i - 1] \in WidthsBetween(pats[id], i, k)
    BY <1>2, <1>3, <1>4, WidthsAre
  <2> QED BY <1>3, <1>5, <2>1, <2>2, <2>3, <2>4
<1>7. /\ s + 1 < Bytes(hay)
      /\ PairAt(hay, s, filter[id].primary) /\ InTables(hay, s, filter[id].primary)
      /\ PairAt(hay, c, filter[id].confirm) /\ InTables(hay, c, filter[id].confirm)
      /\ PairAt(hay, g, filter[id].guard)
  BY <1>1, <1>2, <1>3, <1>5, PairThere
<1>8. s + (c - s) = c /\ s + (g - s) = g
  OBVIOUS
<1>9. id \in Nominated(hay, filter, s)
  BY <1>4, <1>6, <1>7, <1>8 DEF Nominated
<1>10. id \in Tags(hay, filter, s)
  BY <1>6, <1>7, <1>8, <1>9 DEF Tags
<1> QED BY <1>5, <1>6, <1>7, <1>10 DEF Points

\* An anchor lies no further behind its start than maxOffset.
LEMMA MaxOffsetIs ==
  ASSUME Typed
  PROVE  /\ MaxOffset(filter) \in Nat
         /\ \A id \in Ids(pats) : \A d \in filter[id].starts : d \in Nat /\ d <= MaxOffset(filter)
<1> DEFINE all == UNION {filter[id].starts \cup filter[id].confirmOffset \cup filter[id].guardOffset :
                           id \in DOMAIN filter}
<1>0. PICK some \in Ids(pats) : TRUE
  <2>1. Cardinality(Ids(pats)) # 0
    BY DEF Typed, AnchorFilters
  <2>2. Cardinality({}) = 0
    BY FS_EmptySet
  <2> QED BY <2>1, <2>2
<1>1. DOMAIN filter = Ids(pats)
  BY <1>0, AnchorIs
<1>2. \A id \in Ids(pats) : filter[id].starts \subseteq all
  BY <1>1
<1>3. all \subseteq 0..255
  <2>1. \A id \in DOMAIN filter :
          filter[id].starts \cup filter[id].confirmOffset \cup filter[id].guardOffset \subseteq 0..255
    BY <1>1, AnchorTyped
  <2> QED BY <2>1
<1>4. all # {}
  BY <1>0, <1>2, AnchorTyped
<1>5. MaxOffset(filter) = Largest(all)
  BY DEF MaxOffset
<1> HIDE DEF all
<1>6. all \in SUBSET Nat /\ 255 \in Nat /\ \A y \in all : y <= 255
  BY <1>3
<1>7. Largest(all) \in Nat /\ \A y \in all : y <= Largest(all)
  BY <1>4, <1>6, LargestIs
<1> QED BY <1>2, <1>5, <1>6, <1>7

LEMMA LargestStart ==
  ASSUME Typed, NEW id \in Ids(pats)
  PROVE  /\ Largest(filter[id].starts) \in Nat
         /\ \A d \in filter[id].starts : d \in Nat /\ d <= Largest(filter[id].starts)
<1>1. filter[id].starts # {} /\ filter[id].starts \subseteq 0..255
  BY AnchorTyped
<1> DEFINE S == filter[id].starts
<1> HIDE DEF S
<1>2. S \in SUBSET Nat /\ S # {} /\ 255 \in Nat /\ \A y \in S : y <= 255
  BY <1>1 DEF S
<1>3. Largest(S) \in Nat /\ \A y \in S : y <= Largest(S)
  BY <1>2, LargestIs
<1> QED BY <1>2, <1>3 DEF S

-----------------------------------------------------------------------------
(***************************************************************************)
(* The byte of an origin gate: where it comes first bounds from where on a *)
(* match can start.                                                        *)
(***************************************************************************)
LEMMA WidestIs ==
  ASSUME Typed, NEW t \in DOMAIN Forms
  PROVE  Widest(t) \in 0..4 /\ \A f \in Forms[t] : Len(f) \in Nat /\ Len(f) <= Widest(t)
<1> DEFINE S == {Len(f) : f \in Forms[t]}
<1>1. \A f \in Forms[t] : Len(f) \in 1..4
  BY FormTyped
<1>2. Forms[t] # {}
  BY RawByteAssumption DEF RawByteAssumption
<1>3. S # {} /\ Widest(t) = Largest(S) /\ \A f \in Forms[t] : Len(f) \in S
  BY <1>2 DEF Widest
<1>4. S \subseteq 1..4
  BY <1>1
<1> HIDE DEF S
<1>5. S \in SUBSET Nat /\ 4 \in Nat /\ \A y \in S : y <= 4
  BY <1>4
<1>6. Largest(S) \in S /\ \A y \in S : y <= Largest(S)
  BY <1>3, <1>5, LargestIs
<1>7. Largest(S) \in 1..4
  BY <1>4, <1>6, Zenon
<1>8. Largest(S) \in 0..4
  BY <1>7
<1> QED BY <1>1, <1>3, <1>6, <1>8

IsPrefixes(p, f) ==
  f = [i \in 1..Len(p) |-> IF i = 1 THEN 0 ELSE f[i - 1] + Widest(p[i - 1])]

LEMMA PrefixesExist ==
  ASSUME Typed, NEW id \in Ids(pats), Len(pats[id]) # 0
  PROVE  \E f : IsPrefixes(pats[id], f)
<1> DEFINE n == Len(pats[id]) - 1
           round == [x \in (1..n) \X Nat |-> x[2] + Widest(pats[id][x[1]])]
<1>0. Len(pats[id]) \in Nat /\ pats[id] \in Seq(Token)
  BY Scenery
<1>1. n \in Nat /\ 0 \in Nat
  BY <1>0
<1>2. round \in [(1..n) \X Nat -> Nat]
  <2>1. ASSUME NEW x \in (1..n) \X Nat PROVE x[2] + Widest(pats[id][x[1]]) \in Nat
    <3>1. x[1] \in 1..n /\ x[2] \in Nat
      OBVIOUS
    <3>2. x[1] \in 1..Len(pats[id])
      BY <1>0, <3>1
    <3>3. pats[id][x[1]] \in DOMAIN Forms
      <4>1. pats[id][x[1]] \in UsedTokens(pats)
        BY <1>0, <3>2 DEF UsedTokens
      <4> QED BY <4>1, UsedAreTokens
    <3>4. Widest(pats[id][x[1]]) \in 0..4
      BY <3>3, WidestIs
    <3> QED BY <3>1, <3>4
  <2> QED BY <2>1
<1>3. PICK g : IsIteration(Nat, 0, round, n, g)
  <2> HIDE DEF round, n
  <2> QED BY <1>1, <1>2, RunExists
<1>4. g \in [0..n -> Nat] /\ g[0] = 0 /\ \A m \in 1..n : g[m] = round[<<m, g[m - 1]>>]
  BY <1>3 DEF IsIteration
<1> DEFINE f == [i \in 1..Len(pats[id]) |-> g[i - 1]]
<1>5. ASSUME NEW i \in 1..Len(pats[id])
      PROVE  f[i] = IF i = 1 THEN 0 ELSE f[i - 1] + Widest(pats[id][i - 1])
  <2>1. CASE i = 1
    <3>1. i - 1 = 0
      BY <2>1
    <3> QED BY <1>4, <2>1, <3>1
  <2>2. CASE i # 1
    <3>1. PICK m \in Nat : m = i - 1
      BY <1>0
    <3>2. m \in 1..n /\ m - 1 \in 0..n /\ i - 1 \in 1..Len(pats[id]) /\ i - 1 - 1 = m - 1
      BY <1>0, <2>2, <3>1
    <3>3. <<m, g[m - 1]>> \in (1..n) \X Nat
      BY <1>4, <3>2
    <3>4. round[<<m, g[m - 1]>>] = g[m - 1] + Widest(pats[id][m])
      BY <3>3
    <3>5. f[i] = g[m] /\ f[i - 1] = g[m - 1]
      BY <3>1, <3>2
    <3> HIDE DEF f, round, n
    <3>6. g[m] = g[m - 1] + Widest(pats[id][m])
      BY <1>4, <3>2, <3>4
    <3> QED BY <2>2, <3>1, <3>5, <3>6
  <2> QED BY <2>1, <2>2
<1>6. f = [i \in 1..Len(pats[id]) |-> f[i]]
  OBVIOUS
<1> HIDE DEF f
<1>7. f = [i \in 1..Len(pats[id]) |-> IF i = 1 THEN 0 ELSE f[i - 1] + Widest(pats[id][i - 1])]
  BY <1>5, <1>6, Zenon
<1> QED BY <1>7, Zenon DEF IsPrefixes

\* In front of unit i there are no more bytes than the widest prefix has.
LEMMA PrefixesAre ==
  ASSUME Typed, NEW id \in Ids(pats), NEW f, IsPrefixes(pats[id], f),
         NEW i \in 1..Len(pats[id])
  PROVE  /\ f[i] \in 0..(4 * (i - 1))
         /\ \A u \in Nat : Occurs(pats, hay, id, u) =>
              hay.off[u + i - 1] - hay.off[u] <= f[i]
<1>0. Len(pats[id]) \in Nat /\ pats[id] \in Seq(Token) /\ hay.n \in Nat
  BY Scenery
<1>1. \A k \in 1..Len(pats[id]) : f[k] = IF k = 1 THEN 0 ELSE f[k - 1] + Widest(pats[id][k - 1])
  BY DEF IsPrefixes
<1> DEFINE Fits(k) == /\ f[k] \in 0..(4 * (k - 1))
                      /\ \A u \in Nat : Occurs(pats, hay, id, u) =>
                           hay.off[u + k - 1] - hay.off[u] <= f[k]
           Bad == {k \in 1..Len(pats[id]) : ~Fits(k)}
<1>2. ASSUME NEW k \in 1..Len(pats[id]), k = 1 PROVE Fits(k)
  <2>1. f[k] = 0
    BY <1>1, <1>2
  <2>2. ASSUME NEW u \in Nat, Occurs(pats, hay, id, u)
        PROVE  hay.off[u + k - 1] - hay.off[u] <= 0
    <3>1. u + k - 1 \in 0..hay.n /\ u + k - 1 = u
      BY <1>2, <2>2, OccurrenceUnits
    <3>2. hay.off[u] \in Nat
      BY <3>1, Scenery
    <3> QED BY <3>1, <3>2
  <2> QED BY <1>2, <2>1, <2>2
<1>3. ASSUME NEW k \in 1..Len(pats[id]), k # 1, Fits(k - 1) PROVE Fits(k)
  <2>1. k - 1 \in 1..Len(pats[id]) /\ k - 1 - 1 + 1 = k - 1
    BY <1>0, <1>3
  <2> DEFINE t == pats[id][k - 1]
  <2>2. f[k] = f[k - 1] + Widest(t)
    BY <1>1, <1>3
  <2>3. t \in DOMAIN Forms
    <3>1. t \in UsedTokens(pats)
      BY <1>0, <2>1 DEF UsedTokens
    <3> QED BY <3>1, UsedAreTokens
  <2>4. PICK w \in 0..4 : w = Widest(t)
    BY <2>3, WidestIs
  <2>5. PICK x \in Nat : x = f[k - 1] /\ x <= 4 * (k - 1 - 1)
    BY <1>3, <2>1
  <2> HIDE DEF t
  <2>6. f[k] \in 0..(4 * (k - 1))
    <3>1. PICK l \in Nat : l = k
      BY <1>0
    <3>2. x + w \in 0..(4 * (l - 1))
      <4>1. x <= 4 * (l - 1 - 1)
        BY <2>5, <3>1
      <4> QED BY <4>1
    <3> QED BY <2>2, <2>4, <2>5, <3>1, <3>2
  <2>7. ASSUME NEW u \in Nat, Occurs(pats, hay, id, u)
        PROVE  hay.off[u + k - 1] - hay.off[u] <= f[k]
    <3> DEFINE s == Spelling(hay, u + (k - 1) - 1)
    <3>1. /\ s \in Forms[t] /\ u + (k - 1) - 1 \in 0..(hay.n - 1)
          /\ u + (k - 1) - 1 + 1 = u + (k - 1)
      BY <2>1, <2>7, OccurrenceUnits DEF t
    <3>2. u + (k - 1) = u + k - 1 /\ u \in 0..hay.n
      BY <1>0, <2>1, <3>1
    <3>3. PICK e \in Nat, m \in Nat :
            e = hay.off[u + k - 1] /\ m = hay.off[u + (k - 1) - 1]
      BY <3>1, <3>2, UnitBytes
    <3>4. PICK b \in Nat : b = hay.off[u]
      BY <3>2, Scenery
    <3>5. Len(s) = e - m
      BY <3>1, <3>2, <3>3, SpellingIs
    <3>6. Len(s) <= w
      BY <2>3, <2>4, <3>1, WidestIs
    <3>7. m - b <= x
      BY <1>3, <2>5, <2>7, <3>3, <3>4
    <3> HIDE DEF s
    <3>8. e - m <= w
      BY <3>5, <3>6
    <3>9. e - b <= x + w
      BY <3>7, <3>8
    <3> QED BY <2>2, <2>4, <2>5, <3>3, <3>4, <3>9
  <2> QED BY <2>6, <2>7
<1>4. Bad = {}
  <2> SUFFICES ASSUME Bad # {} PROVE FALSE
    OBVIOUS
  <2>1. PICK k \in Bad : \A m \in Bad : k <= m
    <3>1. Bad \in SUBSET Nat
      BY <1>0
    <3> HIDE DEF Bad
    <3> QED BY <3>1, Least
  <2>2. k \in 1..Len(pats[id]) /\ ~Fits(k)
    OBVIOUS
  <2>3. k # 1
    BY <1>2, <2>2
  <2>4. k - 1 \in 1..Len(pats[id]) /\ ~(k <= k - 1)
    BY <1>0, <2>2, <2>3
  <2>5. k - 1 \notin Bad
    BY <2>1, <2>4
  <2>6. Fits(k - 1)
    BY <2>4, <2>5
  <2> QED BY <1>3, <2>2, <2>3, <2>6
<1>5. Fits(i)
  <2> HIDE DEF Fits
  <2> QED BY <1>4
<1> QED BY <1>5

LEMMA WidestPrefixIs ==
  ASSUME Typed, NEW id \in Ids(pats), NEW t, \E i \in DOMAIN pats[id] : pats[id][i] = t
  PROVE  /\ WidestPrefix(pats[id], t) \in Nat
         /\ WidestPrefix(pats[id], t) <= 4 * Len(pats[id])
         /\ \E i \in 1..Len(pats[id]) :
              /\ pats[id][i] = t
              /\ \A u \in Nat : Occurs(pats, hay, id, u) =>
                   hay.off[u + i - 1] - hay.off[u] <= WidestPrefix(pats[id], t)
<1> DEFINE S == {i \in DOMAIN pats[id] : pats[id][i] = t}
           f == CHOOSE g : IsPrefixes(pats[id], g)
<1>0. Len(pats[id]) \in Nat /\ DOMAIN pats[id] = 1..Len(pats[id])
  BY Scenery
<1>1. S \in SUBSET Nat /\ S # {}
  BY <1>0
<1>2. Smallest(S) \in S
  <2> HIDE DEF S
  <2> QED BY <1>1, SmallestIs
<1>3. PICK i \in 1..Len(pats[id]) : i = Smallest(S) /\ pats[id][i] = t
  BY <1>0, <1>2
<1>4. Len(pats[id]) # 0
  BY <1>0, <1>3
<1>5. IsPrefixes(pats[id], f)
  BY <1>4, PrefixesExist
<1>6. WidestPrefix(pats[id], t) = f[Smallest(S)]
  BY Zenon DEF WidestPrefix, IsPrefixes
<1> HIDE DEF f, S
<1>7. f[i] \in 0..(4 * (i - 1))
  BY <1>5, PrefixesAre
<1>8. \A u \in Nat : Occurs(pats, hay, id, u) => hay.off[u + i - 1] - hay.off[u] <= f[i]
  BY <1>5, PrefixesAre
<1>9. f[i] \in Nat /\ f[i] <= 4 * Len(pats[id])
  <2>1. PICK len \in Nat, k \in Nat : len = Len(pats[id]) /\ k = i
    BY <1>0
  <2>2. k <= len /\ f[i] \in 0..(4 * (k - 1))
    BY <1>7, <2>1
  <2> QED BY <2>1, <2>2
<1> QED BY <1>3, <1>6, <1>8, <1>9

\* The byte is in every match, no further behind its start than maxPrefix.
LEMMA GateIs ==
  ASSUME Typed, NEW gate \in OriginGates(pats)
  PROVE  /\ gate.maxPrefix \in Nat
         /\ \A id \in Ids(pats), u \in Nat : Occurs(pats, hay, id, u) =>
              \E q \in 0..(Bytes(hay) - 1) :
                hay.bytes[q] = gate.byte /\ q - hay.off[u] <= gate.maxPrefix
<1>1. PICK t \in UsedTokens(pats) :
        /\ Cardinality(Forms[t]) = 1 /\ HasAsciiForm(t)
        /\ \A id \in Ids(pats) : \E i \in DOMAIN pats[id] : pats[id][i] = t
        /\ gate = [byte      |-> (CHOOSE f \in Forms[t] : TRUE)[1],
                   maxPrefix |-> Largest({WidestPrefix(pats[id], t) : id \in Ids(pats)})]
  BY DEF OriginGates
<1>2. t \in DOMAIN Forms
  BY UsedAreTokens
<1> DEFINE S == {WidestPrefix(pats[id], t) : id \in Ids(pats)}
           form == CHOOSE f \in Forms[t] : TRUE
<1>3. gate.byte = form[1] /\ gate.maxPrefix = Largest(S)
  BY <1>1
<1>4. \A f \in Forms[t] : f = form
  <2>1. IsFiniteSet(Forms[t])
    BY <1>2, RawByteAssumption DEF RawByteAssumption
  <2>2. PICK x : Forms[t] = {x}
    BY <1>1, <2>1, FS_Singleton
  <2> QED BY <2>2
<1> HIDE DEF form
<1>5. PICK longest \in Ids(pats) : IsMaxUnits(pats, Len(pats[longest]))
  BY RawByteEachAssumption DEF RawByteEachAssumption, Typed
<1>6. PICK m \in Nat : m = 4 * Len(pats[longest])
  BY Scenery
<1>7. \A id \in Ids(pats) : WidestPrefix(pats[id], t) \in Nat /\ WidestPrefix(pats[id], t) <= m
  <2> TAKE id \in Ids(pats)
  <2>1. WidestPrefix(pats[id], t) \in Nat /\ WidestPrefix(pats[id], t) <= 4 * Len(pats[id])
    BY <1>1, WidestPrefixIs
  <2>2. Len(pats[id]) <= Len(pats[longest])
    BY <1>5 DEF IsMaxUnits
  <2>3. PICK a \in Nat, b \in Nat, x \in Nat :
          a = Len(pats[id]) /\ b = Len(pats[longest]) /\ x = WidestPrefix(pats[id], t)
    BY <2>1, Scenery
  <2>4. a <= b /\ x <= 4 * a /\ m = 4 * b
    BY <1>6, <2>1, <2>2, <2>3
  <2>5. x <= m
    BY <2>4
  <2> QED BY <2>3, <2>5
<1>8. S \in SUBSET Nat /\ S # {} /\ \A y \in S : y <= m
  BY <1>7
<1>9. \A id \in Ids(pats) : WidestPrefix(pats[id], t) \in S
  OBVIOUS
<1> HIDE DEF S
<1>10. Largest(S) \in Nat /\ \A y \in S : y <= Largest(S)
  BY <1>8, LargestIs
<1>11. ASSUME NEW id \in Ids(pats), NEW u \in Nat, Occurs(pats, hay, id, u)
       PROVE  \E q \in 0..(Bytes(hay) - 1) :
                hay.bytes[q] = gate.byte /\ q - hay.off[u] <= gate.maxPrefix
  <2>1. PICK i \in 1..Len(pats[id]) :
          /\ pats[id][i] = t
          /\ hay.off[u + i - 1] - hay.off[u] <= WidestPrefix(pats[id], t)
    BY <1>1, <1>11, WidestPrefixIs
  <2> DEFINE v == u + i - 1
  <2>2. v \in 0..(hay.n - 1) /\ Spelling(hay, v) \in Forms[t]
    BY <1>11, <2>1, OccurrenceUnits
  <2>3. u \in 0..hay.n
    <3>1. 1 \in 1..Len(pats[id]) /\ u + 1 - 1 = u
      BY <2>1, Scenery
    <3> QED BY <1>11, <3>1, OccurrenceUnits
  <2> HIDE DEF v
  <2>4. PICK q \in Nat : q = hay.off[v] /\ q < Bytes(hay)
    BY <2>2, UnitBytes
  <2>5. hay.bytes[q] = form[1]
    <3>1. PICK w \in Nat \ {0} : w = hay.off[v + 1] - hay.off[v]
      BY <2>2, SpellingIs
    <3>2. Spelling(hay, v)[1] = hay.bytes[hay.off[v] + 1 - 1]
      <4>1. 1 \in 1..w
        BY <3>1
      <4> QED BY <2>2, <3>1, <4>1, SpellingIs
    <3>3. hay.off[v] + 1 - 1 = q
      BY <2>4
    <3> QED BY <1>4, <2>2, <3>2, <3>3
  <2>6. q - hay.off[u] <= gate.maxPrefix
    <3>1. PICK a \in Nat, x \in Nat : a = hay.off[u] /\ x = WidestPrefix(pats[id], t)
      BY <1>7, <2>3, Scenery
    <3>2. q - a <= x
      BY <2>1, <2>4, <3>1 DEF v
    <3>3. PICK y \in Nat : y = Largest(S)
      BY <1>10
    <3>4. x <= y
      BY <1>9, <1>10, <3>1, <3>3
    <3>5. q - a <= y
      BY <3>2, <3>4
    <3> QED BY <1>3, <3>1, <3>3, <3>5
  <2>7. q \in 0..(Bytes(hay) - 1)
    BY <2>4, Scenery
  <2> QED BY <1>3, <2>5, <2>6, <2>7
<1> QED BY <1>3, <1>10, <1>11

LEMMA LargerIs ==
  ASSUME NEW x \in Int
  PROVE  Largest({0, x}) \in Nat /\ (Largest({0, x}) = 0 \/ Largest({0, x}) = x)
<1>1. CASE x <= 0
  <2>1. 0 \in {0, x} /\ \A m \in {0, x} : m <= 0
    BY <1>1
  <2>2. \A n \in {0, x} : (\A m \in {0, x} : m <= n) => n \in Nat /\ (n = 0 \/ n = x)
    OBVIOUS
  <2> QED BY <2>1, <2>2 DEF Largest
<1>2. CASE x > 0
  <2>1. x \in {0, x} /\ \A m \in {0, x} : m <= x
    BY <1>2
  <2>2. \A n \in {0, x} : (\A m \in {0, x} : m <= n) => n \in Nat /\ (n = 0 \/ n = x)
    OBVIOUS
  <2> QED BY <2>1, <2>2 DEF Largest
<1> QED BY <1>1, <1>2

(***************************************************************************)
(* In what findRawByteOrigin cuts off no match starts, whichever byte of   *)
(* those that all patterns share is the gate: it is in every spelling of a *)
(* pattern, and no further behind its start than maxPrefix.                *)
(***************************************************************************)
THEOREM OriginCutsNothing ==
  ASSUME Typed, NEW gate \in OriginGates(pats), NEW places,
         places = {i \in 0..(Bytes(hay) - 1) : hay.bytes[i] = gate.byte}
  PROVE  /\ places = {} =>
              \A id \in Ids(pats), u \in Nat : ~Occurs(pats, hay, id, u)
         /\ places # {} =>
              LET origin == Largest({0, Smallest(places) - gate.maxPrefix}) IN
              /\ origin \in Nat
              /\ \A id \in Ids(pats), u \in Nat :
                   Occurs(pats, hay, id, u) => origin <= hay.off[u]
<1>0. Bytes(hay) \in Nat /\ gate.maxPrefix \in Nat /\ places \in SUBSET Nat
  BY GateIs, Scenery
<1>1. ASSUME NEW id \in Ids(pats), NEW u \in Nat, Occurs(pats, hay, id, u)
      PROVE  \E q \in places : q - hay.off[u] <= gate.maxPrefix
  BY <1>1, GateIs
<1>2. CASE places = {}
  BY <1>1, <1>2
<1>3. CASE places # {}
  <2> DEFINE x == Smallest(places) - gate.maxPrefix
             origin == Largest({0, x})
  <2>1. PICK least \in Nat : least = Smallest(places) /\ \A q \in places : least <= q
    BY <1>0, <1>3, SmallestIs
  <2>2. x \in Int
    BY <1>0, <2>1
  <2> HIDE DEF x
  <2>3. origin \in Nat /\ (origin = 0 \/ origin = x)
    BY <2>2, LargerIs
  <2> HIDE DEF origin
  <2>4. ASSUME NEW id \in Ids(pats), NEW u \in Nat, Occurs(pats, hay, id, u)
        PROVE  origin <= hay.off[u]
    <3>1. PICK q \in places : q - hay.off[u] <= gate.maxPrefix
      BY <1>1, <2>4
    <3>2. u \in 0..hay.n
      <4>1. hay.n \in Nat /\ Len(pats[id]) \in Nat
        BY Scenery
      <4>2. u + Len(pats[id]) <= hay.n
        BY <2>4 DEF Occurs
      <4> QED BY <4>1, <4>2
    <3>3. PICK a \in Nat, y \in Nat, m \in Nat : a = hay.off[u] /\ y = q /\ m = gate.maxPrefix
      BY <1>0, <3>2, Scenery
    <3>4. y - a <= m /\ least <= y
      BY <2>1, <3>1, <3>3
    <3>5. least - m <= a
      BY <3>4
    <3>6. x = least - m
      BY <2>1, <3>3 DEF x
    <3> QED BY <2>3, <3>3, <3>5, <3>6
  <2> QED BY <1>3, <2>3, <2>4 DEF origin, x
<1> QED BY <1>2, <1>3

-----------------------------------------------------------------------------
(***************************************************************************)
(* The inductive invariant.  An occurrence behind the last match is a      *)
(* candidate; it is decided when what is kept is at least as good.         *)
(***************************************************************************)
Candidate(id, u) == Occurs(pats, hay, id, u) /\ from <= hay.off[u]

Decided(id, u) == best # NoMatch /\ Before(best.start, best.pattern, hay.off[u], id)

BestIs(id, u) ==
  /\ best = [pattern |-> id, start |-> hay.off[u]]
  /\ Candidate(id, u)
  /\ bestEnd = hay.off[u + Len(pats[id])]

\* What is kept occurs.
BestRight == best # NoMatch => \E id \in Ids(pats), u \in 0..hay.n : BestIs(id, u)

\* A candidate is decided when the scan has passed its anchor.
PassedDecide ==
  \A id \in Ids(pats), u \in 0..hay.n, s \in Nat :
    s < at /\ Candidate(id, u) /\ Points(id, s, u) => Decided(id, u)

\* The same of the present byte, but for the starts still to replay.
CheckedDecide ==
  phase \in {"check", "replay", "judge"} =>
    /\ at + 1 < Bytes(hay)
    /\ todo \subseteq Ids(pats) \X (0..255)
    /\ \A id \in Ids(pats), u \in 0..hay.n :
         Candidate(id, u) /\ Points(id, at, u) /\ <<id, at - hay.off[u]>> \notin todo
           => Decided(id, u) \/ (phase # "check" /\ hay.off[u] = start)

Rest(u) == Part(hay, u, hay.n)

\* Of the patterns at unit u that the replay has read, or of all once nothing
\* more is worth reading, found is the lowest.
FoundIsLowest(u) ==
  /\ found \in {-1} \cup Ids(pats)
  /\ found >= 0 => Occurs(pats, hay, found, u) /\ foundEnd = hay.off[u + Len(pats[found])]
  /\ \A id \in Ids(pats) :
       Occurs(pats, hay, id, u) /\ (Len(pats[id]) <= units \/ phase = "judge")
         => found >= 0 /\ found <= id

Follows(u) ==
  /\ units \in 0..(hay.n - u) /\ pos = hay.off[u + units]
  /\ state \in Nodes(pats)
  /\ EndsText(Rest(u), units, state) /\ Tracks(pats, Rest(u), units, state)
  /\ FoundIsLowest(u)

\* From a start inside a unit a replay has found nothing, and reads one byte.
FindsNothing == state = <<>> /\ found = -1 /\ (phase = "replay" => pos = start /\ units = 0)

ReplayHolds ==
  phase \in {"replay", "judge"} =>
    /\ start \in Nat /\ from <= start /\ start <= Bytes(hay)
    /\ IF StartsUnit(hay, start) THEN Follows(UnitAt(hay, start)) ELSE FindsNothing

Started == phase = "dispatch" => at = 0 /\ from = 0 /\ best = NoMatch /\ last = NoYield

\* No match that may be next starts before from.
ResumedRight ==
  phase # "done" =>
    /\ result = "none"
    /\ Resumed \in 0..hay.n /\ hay.off[Resumed] <= from
    /\ \A id \in Ids(pats), u \in Resumed..hay.n : Occurs(pats, hay, id, u) => from <= hay.off[u]

IInv ==
  /\ Typed /\ BestRight /\ PassedDecide /\ CheckedDecide
  /\ ReplayHolds /\ Started /\ ResumedRight

LEMMA InitHolds == Init => IInv
<1> SUFFICES ASSUME Init PROVE IInv
  OBVIOUS
<1>1. Typed
  BY DEF Init, Typed
<1>2. hay.n \in Nat /\ hay.off[0] = 0 /\ \A u \in 0..hay.n : hay.off[u] \in Nat
  BY <1>1, Scenery
<1>3. PassedDecide
  <2>1. \A s \in Nat : ~(s < at)
    BY DEF Init
  <2> QED BY <2>1 DEF PassedDecide
<1>4. ResumedRight
  <2>1. Resumed = 0 /\ from = 0 /\ result = "none"
    BY DEF Init, Resumed
  <2> QED BY <1>2, <2>1 DEF ResumedRight
<1> QED BY <1>1, <1>3, <1>4 DEF Init, IInv, BestRight, CheckedDecide, ReplayHolds, Started

-----------------------------------------------------------------------------
\* What a step leaves alone.
LEMMA SameTyped ==
  ASSUME Typed, UNCHANGED args, at' \in Nat, from' \in Nat,
         phase' \in {"dispatch", "skip", "check", "replay", "judge", "done"}
  PROVE  Typed'
BY DEF Typed, args

LEMMA SamePoints ==
  ASSUME UNCHANGED args, NEW id, NEW s, NEW u
  PROVE  /\ Points(id, s, u)' <=> Points(id, s, u)
         /\ pats' = pats /\ hay' = hay /\ filter' = filter
BY DEF args, Points

LEMMA SameBest ==
  ASSUME UNCHANGED args, UNCHANGED <<from, best, bestEnd>>
  PROVE  /\ BestRight => BestRight'
         /\ \A id, u : Candidate(id, u)' <=> Candidate(id, u)
         /\ \A id, u : Decided(id, u)' <=> Decided(id, u)
<1>1. /\ pats' = pats /\ hay' = hay /\ from' = from /\ best' = best /\ bestEnd' = bestEnd
  BY DEF args
<1>2. \A id, u : (Candidate(id, u)' <=> Candidate(id, u)) /\ (Decided(id, u)' <=> Decided(id, u))
  BY <1>1 DEF Candidate, Decided
<1>3. \A id, u : BestIs(id, u)' <=> BestIs(id, u)
  BY <1>1 DEF BestIs, Candidate
<1>4. BestRight => BestRight'
  BY <1>1, <1>3 DEF BestRight
<1> QED BY <1>2, <1>4

LEMMA SamePassed ==
  ASSUME UNCHANGED args, UNCHANGED <<from, best, bestEnd, at>>, PassedDecide
  PROVE  PassedDecide'
<1>1. pats' = pats /\ hay' = hay /\ at' = at
  BY DEF args
<1>2. /\ \A id, u : Candidate(id, u)' <=> Candidate(id, u)
      /\ \A id, u : Decided(id, u)' <=> Decided(id, u)
  BY SameBest
<1>3. \A id, s, u : Points(id, s, u)' <=> Points(id, s, u)
  BY SamePoints
<1> QED BY <1>1, <1>2, <1>3 DEF PassedDecide

LEMMA SameResumed ==
  ASSUME UNCHANGED args, UNCHANGED <<from, last, result>>, phase # "done", ResumedRight
  PROVE  ResumedRight'
<1>1. pats' = pats /\ hay' = hay /\ from' = from /\ last' = last /\ result' = result
  BY DEF args
<1>2. Resumed' = Resumed
  BY <1>1 DEF Resumed
<1> QED BY <1>1, <1>2 DEF ResumedRight

\* The end of the search.
LEMMA ReturnKeeps ==
  ASSUME IInv, NEW r, Return(r)
  PROVE  IInv'
<1>1. /\ phase' = "done" /\ UNCHANGED args
      /\ UNCHANGED <<from, best, bestEnd, at>> /\ UNCHANGED <<at, from>>
  BY DEF Return, args
<1>2. Typed'
  BY <1>1, SameTyped DEF IInv, Typed
<1>3. BestRight' /\ PassedDecide'
  BY <1>1, SameBest, SamePassed DEF IInv
<1> QED BY <1>1, <1>2, <1>3 DEF IInv, CheckedDecide, ReplayHolds, Started, ResumedRight

LEMMA EnterKeeps ==
  ASSUME IInv, Enter
  PROVE  IInv'
<1>1. /\ phase = "dispatch" /\ phase' = "skip" /\ UNCHANGED args
      /\ UNCHANGED <<from, best, bestEnd, at>> /\ UNCHANGED <<from, last, result>>
  BY DEF Enter, yields
<1>2. Typed'
  BY <1>1, SameTyped DEF IInv, Typed
<1>3. BestRight' /\ PassedDecide'
  BY <1>1, SameBest, SamePassed DEF IInv
<1>4. ResumedRight'
  BY <1>1, SameResumed DEF IInv
<1> QED BY <1>1, <1>2, <1>3, <1>4 DEF IInv, CheckedDecide, ReplayHolds, Started

\* An anchor does not come before its start.
LEMMA PointsBehind ==
  ASSUME Typed, NEW id \in Ids(pats), NEW u \in 0..hay.n, NEW s \in Nat, Points(id, s, u)
  PROVE  hay.off[u] <= s /\ s + 1 < Bytes(hay) /\ s - hay.off[u] \in 0..255
<1>1. s - hay.off[u] \in filter[id].starts /\ filter[id].starts \subseteq 0..255
  BY AnchorTyped DEF Points
<1>2. PICK d \in 0..255 : s - hay.off[u] = d
  BY <1>1
<1>3. PICK a \in Nat : a = hay.off[u]
  BY Scenery
<1>4. a <= s
  BY <1>2, <1>3
<1>5. s + 1 < Bytes(hay)
  BY DEF Points, Tags, PairAt
<1> QED BY <1>2, <1>3, <1>4, <1>5

\* Where from is at, no candidate's anchor is passed.
LEMMA NothingPassed ==
  ASSUME Typed, at = from
  PROVE  PassedDecide
<1> SUFFICES ASSUME NEW id \in Ids(pats), NEW u \in 0..hay.n, NEW s \in Nat,
                    s < at, Candidate(id, u), Points(id, s, u)
             PROVE  FALSE
  BY DEF PassedDecide
<1>1. hay.off[u] <= s /\ from <= hay.off[u]
  BY PointsBehind DEF Candidate
<1>2. PICK a \in Nat, f \in Nat : a = hay.off[u] /\ f = from
  BY Scenery DEF Typed
<1> QED BY <1>1, <1>2

LEMMA EnterAtOriginKeeps ==
  ASSUME IInv, EnterAtOrigin
  PROVE  IInv'
<1> DEFINE places(gate) == {i \in 0..(Bytes(hay) - 1) : hay.bytes[i] = gate.byte}
<1>0. Typed /\ phase = "dispatch" /\ best = NoMatch /\ last = NoYield /\ ResumedRight /\ Resumed = 0
  BY DEF IInv, EnterAtOrigin, Started, Resumed
<1>1. PICK gate \in OriginGates(pats) :
        \/ Return("true")
        \/ /\ places(gate) # {}
           /\ at' = Largest({0, Smallest(places(gate)) - gate.maxPrefix})
           /\ from' = at' /\ phase' = "skip"
           /\ UNCHANGED <<args, best, bestEnd, todo, replay, yields>>
  BY DEF EnterAtOrigin
<1>2. CASE Return("true")
  BY <1>2, ReturnKeeps
<1>3. CASE ~Return("true")
  <2>1. /\ places(gate) # {}
        /\ at' = Largest({0, Smallest(places(gate)) - gate.maxPrefix})
        /\ from' = at' /\ phase' = "skip"
        /\ UNCHANGED <<args, best, bestEnd, todo, replay, yields>>
    BY <1>1, <1>3
  <2>2. /\ at' \in Nat
        /\ \A id \in Ids(pats), u \in Nat : Occurs(pats, hay, id, u) => at' <= hay.off[u]
    BY <1>0, <2>1, OriginCutsNothing
  <2>3. UNCHANGED args /\ UNCHANGED <<pats, hay, best, last, result>>
    BY <2>1 DEF args, yields
  <2>4. Typed'
    BY <1>0, <2>1, <2>2, <2>3, SameTyped
  <2>5. PassedDecide'
    <3>1. Typed' /\ (at = from)'
      BY <2>1, <2>4
    <3> QED BY <3>1, NothingPassed, PTL
  <2>6. ResumedRight'
    <3>1. Resumed' = 0 /\ result' = "none"
      BY <1>0, <2>3 DEF Resumed, ResumedRight
    <3>2. hay.off[0] = 0 /\ hay.n \in Nat /\ 0 \in 0..hay.n /\ 0..hay.n \subseteq Nat
      BY <1>0, Scenery
    <3>3. hay.off[0] <= from'
      BY <2>1, <2>2, <3>2
    <3> QED BY <2>1, <2>2, <2>3, <3>1, <3>2, <3>3 DEF ResumedRight
  <2> QED BY <1>0, <2>1, <2>3, <2>4, <2>5, <2>6
          DEF IInv, BestRight, CheckedDecide, ReplayHolds, Started
<1> QED BY <1>2, <1>3

-----------------------------------------------------------------------------
LEMMA SkipKeeps ==
  ASSUME IInv, Skip
  PROVE  IInv'
<1> DEFINE stops == {s \in at..(Bytes(hay) - 1) :
                       s + 1 = Bytes(hay) \/ Nominated(hay, filter, s) # {}}
<1>0. Typed /\ BestRight /\ PassedDecide /\ ResumedRight /\ at \in Nat /\ Bytes(hay) \in Nat
  BY Scenery DEF IInv, Typed
<1>1. /\ phase = "skip" /\ ~AtEnd /\ at' = Smallest(stops)
      /\ todo' = UNION {{<<id, d>> : d \in filter[id].starts} : id \in Tags(hay, filter, at')}
      /\ phase' = IF at' + 1 = Bytes(hay) THEN "skip" ELSE "check"
      /\ UNCHANGED args /\ UNCHANGED <<from, best, bestEnd>> /\ UNCHANGED <<from, last, result>>
  BY DEF Skip, yields
<1>2. Bytes(hay) - 1 \in stops /\ stops \in SUBSET Nat /\ stops # {}
  <2>1. Bytes(hay) - 1 \in stops
    BY <1>0, <1>1 DEF AtEnd
  <2> QED BY <1>0, <2>1
<1>3. at' \in stops /\ \A y \in stops : at' <= y
  <2> HIDE DEF stops
  <2> QED BY <1>1, <1>2, SmallestIs
<1>4. at' \in Nat /\ at <= at' /\ at' <= Bytes(hay) - 1
  BY <1>0, <1>3
<1>5. ASSUME NEW s \in Nat, at <= s, s < at' PROVE Tags(hay, filter, s) = {}
  <2>1. s \in at..(Bytes(hay) - 1) /\ ~(at' <= s)
    BY <1>0, <1>4, <1>5
  <2>2. s \notin stops
    BY <1>3, <2>1
  <2>3. Nominated(hay, filter, s) = {}
    BY <2>1, <2>2
  <2> QED BY <2>3 DEF Tags
<1>6. /\ \A id, u : Candidate(id, u)' <=> Candidate(id, u)
      /\ \A id, u : Decided(id, u)' <=> Decided(id, u)
      /\ \A id, s, u : Points(id, s, u)' <=> Points(id, s, u)
      /\ pats' = pats /\ hay' = hay /\ filter' = filter
  BY <1>1, SameBest, SamePoints
<1> HIDE DEF stops
<1>7. Typed'
  BY <1>0, <1>1, <1>4, SameTyped DEF Typed
<1>8. BestRight'
  BY <1>0, <1>1, SameBest
<1>9. PassedDecide'
  <2>1. ASSUME NEW id \in Ids(pats), NEW u \in 0..hay.n, NEW s \in Nat,
               s < at', Candidate(id, u), Points(id, s, u)
        PROVE  Decided(id, u)
    <3>1. CASE s < at
      BY <1>0, <2>1, <3>1 DEF PassedDecide
    <3>2. CASE ~(s < at)
      <4>1. at <= s
        BY <1>0, <3>2
      <4> QED BY <1>5, <2>1, <4>1 DEF Points
    <3> QED BY <3>1, <3>2
  <2> QED BY <1>6, <2>1 DEF PassedDecide
<1>10. CheckedDecide'
  <2> SUFFICES ASSUME phase' \in {"check", "replay", "judge"} PROVE CheckedDecide'
    BY DEF CheckedDecide
  <2>1. at' + 1 < Bytes(hay)
    BY <1>0, <1>1, <1>4
  <2>2. todo' \subseteq Ids(pats) \X (0..255)
    <3>1. \A id \in Tags(hay, filter, at') : id \in Ids(pats) /\ filter[id].starts \subseteq 0..255
      <4>1. PICK some \in Ids(pats) : TRUE
        BY <1>0, RawByteEachAssumption DEF RawByteEachAssumption, Typed
      <4>2. DOMAIN filter = Ids(pats)
        BY <1>0, <4>1, AnchorIs
      <4>3. Tags(hay, filter, at') \subseteq Ids(pats)
        BY <4>2 DEF Tags, Nominated
      <4> QED BY <1>0, <4>3, AnchorTyped
    <3> QED BY <1>1, <3>1
  <2>3. ASSUME NEW id \in Ids(pats), NEW u \in 0..hay.n, Points(id, at', u)
        PROVE  <<id, at' - hay.off[u]>> \in todo'
    BY <1>1, <2>3 DEF Points
  <2>4. ASSUME NEW id \in Ids(pats)', NEW u \in 0..hay'.n,
               (Candidate(id, u) /\ Points(id, at, u) /\ <<id, at - hay.off[u]>> \notin todo)'
        PROVE  FALSE
    <3>1. id \in Ids(pats) /\ u \in 0..hay.n
      BY <1>6
    <3>2. Points(id, at', u) /\ <<id, at' - hay.off[u]>> \notin todo'
      BY <1>6, <2>4 DEF Points
    <3> QED BY <2>3, <3>1, <3>2
  <2> QED BY <1>6, <2>1, <2>2, <2>4 DEF CheckedDecide
<1>11. ReplayHolds' /\ Started'
  BY <1>1 DEF ReplayHolds, Started
<1>12. ResumedRight'
  BY <1>0, <1>1, SameResumed
<1> QED BY <1>7, <1>8, <1>9, <1>10, <1>11, <1>12 DEF IInv

LEMMA NextByteKeeps ==
  ASSUME IInv, NextByte
  PROVE  IInv'
<1>0. /\ Typed /\ BestRight /\ PassedDecide /\ CheckedDecide /\ ResumedRight /\ at \in Nat
  BY DEF IInv, Typed
<1>1. /\ phase = "check" /\ todo = {} /\ phase' = "skip" /\ at' = at + 1
      /\ UNCHANGED args /\ UNCHANGED <<from, best, bestEnd>> /\ UNCHANGED <<from, last, result>>
  BY DEF NextByte, yields
<1>2. /\ \A id, u : Candidate(id, u)' <=> Candidate(id, u)
      /\ \A id, u : Decided(id, u)' <=> Decided(id, u)
      /\ \A id, s, u : Points(id, s, u)' <=> Points(id, s, u)
      /\ pats' = pats /\ hay' = hay
  BY <1>1, SameBest, SamePoints
<1>3. Typed'
  BY <1>0, <1>1, SameTyped DEF Typed
<1>4. PassedDecide'
  <2>1. ASSUME NEW id \in Ids(pats), NEW u \in 0..hay.n, NEW s \in Nat,
               s < at', Candidate(id, u), Points(id, s, u)
        PROVE  Decided(id, u)
    <3>1. CASE s < at
      BY <1>0, <2>1, <3>1 DEF PassedDecide
    <3>2. CASE s = at
      BY <1>0, <1>1, <2>1, <3>2 DEF CheckedDecide
    <3> QED BY <1>0, <1>1, <2>1, <3>1, <3>2
  <2> QED BY <1>2, <2>1 DEF PassedDecide
<1>5. BestRight' /\ ResumedRight'
  BY <1>0, <1>1, SameBest, SameResumed
<1> QED BY <1>1, <1>3, <1>4, <1>5 DEF IInv, CheckedDecide, ReplayHolds, Started

\* Before its first unit a replay has read nothing, and found nothing.
LEMMA ReplayStarts ==
  ASSUME Typed, NEW u \in 0..hay.n,
         units = 0, pos = hay.off[u], state = <<>>, found = -1, phase = "replay"
  PROVE  Follows(u)
<1>0. /\ hay.n \in Nat /\ Ids(pats) \subseteq Nat
      /\ \A id \in Ids(pats) : Len(pats[id]) \in Nat /\ pats[id] \in Seq(Token)
  BY Scenery
<1>1. units \in 0..(hay.n - u) /\ pos = hay.off[u + units]
  <2>1. u + 0 = u /\ 0 \in 0..(hay.n - u)
    BY <1>0
  <2> QED BY <2>1
<1>2. state \in Nodes(pats)
  BY DEF Nodes
<1>3. EndsText(Rest(u), units, state)
  <2>1. Len(<<>>) = 0 /\ 1..0 = {}
    OBVIOUS
  <2> QED BY <2>1 DEF EndsText
<1>4. Tracks(pats, Rest(u), units, state)
  <2>1. \A b \in 0..Rest(u).n : ~(b < 0)
    OBVIOUS
  <2> QED BY <2>1 DEF Tracks
<1>5. FoundIsLowest(u)
  <2>1. \A id \in Ids(pats) : ~(Len(pats[id]) <= 0)
    <3> TAKE id \in Ids(pats)
    <3>1. pats[id] # <<>>
      BY AnchorTyped
    <3>2. Len(pats[id]) # 0
      BY <1>0, <3>1, EmptySeq
    <3> QED BY <1>0, <3>2
  <2> QED BY <2>1 DEF FoundIsLowest
<1> QED BY <1>1, <1>2, <1>3, <1>4, <1>5 DEF Follows

LEMMA CheckStartKeeps ==
  ASSUME IInv, CheckStart
  PROVE  IInv'
<1>0. /\ Typed /\ BestRight /\ PassedDecide /\ CheckedDecide /\ ResumedRight
      /\ at \in Nat /\ from \in Nat /\ Bytes(hay) \in Nat
  BY Scenery DEF IInv, Typed
<1>1. /\ phase = "check" /\ UNCHANGED args
      /\ UNCHANGED <<from, best, bestEnd, at>> /\ UNCHANGED <<from, last, result>>
  BY DEF CheckStart, yields
<1>2. PICK c \in todo :
        /\ todo' = todo \ {c}
        /\ \/ ~InReach(at - c[2]) /\ UNCHANGED <<phase, replay>>
           \/ /\ InReach(at - c[2])
              /\ phase' = "replay"
              /\ start' = at - c[2] /\ pos' = at - c[2]
              /\ units' = 0 /\ state' = <<>> /\ found' = -1 /\ foundEnd' = 0
  BY DEF CheckStart
<1>3. at + 1 < Bytes(hay) /\ todo \subseteq Ids(pats) \X (0..255)
  BY <1>0, <1>1 DEF CheckedDecide
<1>4. c = <<c[1], c[2]>> /\ c[2] \in 0..255
  BY <1>3
<1>5. PICK s \in Int, d \in Nat : s = at - c[2] /\ d = c[2]
  BY <1>0, <1>4
<1>6. /\ \A id, u : Candidate(id, u)' <=> Candidate(id, u)
      /\ \A id, u : Decided(id, u)' <=> Decided(id, u)
      /\ \A id, b, u : Points(id, b, u)' <=> Points(id, b, u)
      /\ pats' = pats /\ hay' = hay /\ filter' = filter /\ at' = at /\ best' = best
  BY <1>1, SameBest, SamePoints
<1>7. phase' \in {"check", "replay"}
  BY <1>1, <1>2
<1>8. Typed'
  BY <1>0, <1>1, <1>7, SameTyped
<1>9. BestRight' /\ PassedDecide' /\ ResumedRight'
  BY <1>0, <1>1, SameBest, SamePassed, SameResumed
<1>10. ASSUME NEW id \in Ids(pats), NEW u \in 0..hay.n,
              Candidate(id, u), Points(id, at, u), <<id, at - hay.off[u]>> \notin todo'
       PROVE  Decided(id, u) \/ (phase' # "check" /\ hay.off[u] = start')
  <2>1. CASE <<id, at - hay.off[u]>> \notin todo
    BY <1>0, <1>1, <1>10, <2>1 DEF CheckedDecide
  <2>2. CASE <<id, at - hay.off[u]>> = c
    <3>1. PICK a \in Nat : a = hay.off[u]
      BY <1>0, Scenery
    <3>2. s = a /\ from <= a
      <4>1. c[2] = at - a
        BY <2>2, <3>1
      <4> QED BY <1>0, <1>5, <1>10, <3>1, <4>1 DEF Candidate
    <3>3. CASE InReach(at - c[2])
      BY <1>2, <1>5, <3>1, <3>2, <3>3
    <3>4. CASE ~InReach(at - c[2])
      <4>1. best # NoMatch /\ ~(s <= best.start)
        BY <1>0, <1>5, <3>2, <3>4 DEF InReach
      <4>2. best.start \in Nat
        <5>1. PICK i \in Ids(pats), v \in 0..hay.n : BestIs(i, v)
          BY <1>0, <4>1 DEF BestRight
        <5>2. best.start = hay.off[v]
          BY <5>1 DEF BestIs
        <5> QED BY <1>0, <5>2, Scenery
      <4>3. best.start < a
        BY <3>2, <4>1, <4>2
      <4> QED BY <3>1, <4>1, <4>3 DEF Decided, Before
    <3> QED BY <3>3, <3>4
  <2> QED BY <1>2, <1>10, <2>1, <2>2
<1>11. CheckedDecide'
  <2>1. todo' \subseteq Ids(pats) \X (0..255)
    BY <1>2, <1>3
  <2>2. ASSUME NEW id \in Ids(pats)', NEW u \in 0..hay'.n,
               (Candidate(id, u) /\ Points(id, at, u) /\ <<id, at - hay.off[u]>> \notin todo)'
        PROVE  (Decided(id, u) \/ (phase # "check" /\ hay.off[u] = start))'
    <3>1. id \in Ids(pats) /\ u \in 0..hay.n
      BY <1>6
    <3>2. Candidate(id, u) /\ Points(id, at, u) /\ <<id, at - hay.off[u]>> \notin todo'
      BY <1>6, <2>2 DEF Points
    <3>3. Decided(id, u) \/ (phase' # "check" /\ hay.off[u] = start')
      BY <1>10, <3>1, <3>2
    <3> QED BY <1>6, <3>3
  <2> QED BY <1>3, <1>6, <2>1, <2>2 DEF CheckedDecide
<1>12. ReplayHolds'
  <2>1. CASE InReach(at - c[2])
    <3>1. /\ phase' = "replay" /\ start' = s /\ pos' = s
          /\ units' = 0 /\ state' = <<>> /\ found' = -1
      BY <1>2, <1>5, <2>1
    <3>2. s \in Nat /\ from <= s /\ s <= Bytes(hay)
      <4>1. from <= s
        BY <1>0, <1>5, <2>1 DEF InReach
      <4>2. s = at - d
        BY <1>5
      <4> QED BY <1>0, <1>3, <4>1, <4>2
    <3>3. CASE StartsUnit(hay, s)
      <4>1. PICK u \in 0..hay.n : hay.off[u] = s
        BY <3>3 DEF StartsUnit
      <4>2. UnitAt(hay, s) = u
        BY <1>0, <4>1, Scenery, UnitAtOff
      <4>3. Follows(u)'
        <5>1. /\ Typed' /\ (u \in 0..hay.n)' /\ (units = 0)' /\ (pos = hay.off[u])'
              /\ (state = <<>>)' /\ (found = -1)' /\ (phase = "replay")'
          BY <1>6, <1>8, <3>1, <4>1
        <5> QED BY <5>1, ReplayStarts, PTL
      <4> QED BY <1>1, <1>6, <3>1, <3>2, <3>3, <4>2, <4>3 DEF ReplayHolds
    <3>4. CASE ~StartsUnit(hay, s)
      BY <1>1, <1>6, <3>1, <3>2, <3>4 DEF ReplayHolds, FindsNothing
    <3> QED BY <3>3, <3>4
  <2>2. CASE ~InReach(at - c[2])
    BY <1>1, <1>2, <2>2 DEF ReplayHolds
  <2> QED BY <2>1, <2>2
<1>13. Started'
  BY <1>7 DEF Started
<1> QED BY <1>8, <1>9, <1>11, <1>12, <1>13 DEF IInv

-----------------------------------------------------------------------------
LEMMA RestIs ==
  ASSUME Typed, NEW u \in 0..hay.n
  PROVE  /\ IsHaystack(Rest(u)) /\ Rest(u).n = hay.n - u /\ Rest(u).n \in Nat
         /\ \A i \in 0..(Rest(u).n - 1) : Rest(u).tok[i] = hay.tok[u + i]
         /\ \A id \in Ids(pats), i \in Nat :
              Occurs(pats, Rest(u), id, i) <=> Occurs(pats, hay, id, u + i)
<1>0. IsHaystack(hay) /\ IsPatternSet(pats) /\ hay.n \in Nat /\ hay.n \in 0..hay.n /\ u \in 0..hay.n
  BY Scenery
<1>1. IsHaystack(Rest(u))
  BY <1>0, PartIsHaystack DEF Rest
<1>2. Rest(u).n = hay.n - u /\ \A i \in 0..(Rest(u).n - 1) : Rest(u).tok[i] = hay.tok[u + i]
  BY DEF Rest, Part
<1>3. ASSUME NEW id \in Ids(pats), NEW i \in Nat
      PROVE  Occurs(pats, Rest(u), id, i) <=> Occurs(pats, hay, id, u + i)
  <2>1. Occurs(pats, Rest(u), id, i)
          <=> Occurs(pats, hay, id, u + i) /\ u + i + Len(pats[id]) <= hay.n
    BY <1>0, PartOccurs DEF Rest
  <2> QED BY <2>1 DEF Occurs
<1>4. Rest(u).n \in Nat
  BY <1>0, <1>2
<1> QED BY <1>1, <1>2, <1>3, <1>4

\* A node from which nothing goes on is not a longer pattern's beginning.
LEMMA LeafEnds ==
  ASSUME Typed, NEW u \in 0..hay.n, NEW node \in Nodes(pats), NEW k \in Nat,
         EndsText(Rest(u), k, node), Len(node) = k, EdgeTokens(pats, node) = {},
         NEW id \in Ids(pats), Occurs(pats, Rest(u), id, 0)
  PROVE  Len(pats[id]) <= k
<1>0. /\ IsPatternSet(pats) /\ Len(pats[id]) \in Nat /\ node \in Seq(Token)
      /\ pats[id] \in Seq(Token)
  BY Scenery, NodesAreSeqs
<1> SUFFICES ASSUME k < Len(pats[id]) PROVE FALSE
  BY <1>0
<1> DEFINE s == SubSeq(pats[id], 1, k + 1)
<1>1. k + 1 \in 1..Len(pats[id])
  BY <1>0
<1>2. /\ s \in Nodes(pats) /\ s \in Seq(Token) /\ Len(s) = k + 1
      /\ \A i \in 1..(k + 1) : s[i] = pats[id][i]
  BY <1>0, <1>1, PrefixIsNode
<1>3. \A i \in 1..k : node[i] = s[i]
  <2> TAKE i \in 1..k
  <2>1. node[i] = Rest(u).tok[k - k + i - 1]
    BY DEF EndsText
  <2>2. i \in 1..Len(pats[id]) /\ i \in 1..(k + 1) /\ k - k + i - 1 = 0 + i - 1
    BY <1>0
  <2>3. Rest(u).tok[0 + i - 1] = pats[id][i]
    BY <2>2 DEF Occurs
  <2> QED BY <1>2, <2>1, <2>2, <2>3
<1> HIDE DEF s
<1>4. SubSeq(s, 1, k) = node
  <2> DEFINE t == SubSeq(s, 1, k)
  <2>1. /\ t \in Seq(Token) /\ Len(t) = k /\ \A i \in 1..k : t[i] = s[i]
    BY <1>2, SubSeqProperties
  <2> HIDE DEF t
  <2>2. t = node
    BY <1>0, <1>3, <2>1, SeqEqual
  <2> QED BY <2>2 DEF t
<1>5. s[Len(node) + 1] \in EdgeTokens(pats, node)
  BY <1>2, <1>4 DEF EdgeTokens
<1> QED BY <1>5

\* One unit further.
LEMMA UnitAfter ==
  ASSUME Typed, NEW u \in 0..hay.n, Follows(u), pos < Bytes(hay),
         NEW next \in Nodes(pats), IsAdvance(pats, state, UnitRead.token, next),
         NEW out, IsOutput(pats, next, out)
  PROVE  /\ units + 1 \in 0..(hay.n - u) /\ pos + UnitRead.size = hay.off[u + (units + 1)]
         /\ EndsText(Rest(u), units + 1, next)
         /\ Tracks(pats, Rest(u), units + 1, next)
         /\ out.pattern >= 0 /\ out.units = units + 1 =>
              /\ out.pattern \in Ids(pats) /\ Occurs(pats, hay, out.pattern, u)
              /\ Len(pats[out.pattern]) = units + 1
              /\ Len(next) = units + 1
         /\ \A id \in Ids(pats) :
              Occurs(pats, hay, id, u) /\ Len(pats[id]) = units + 1
                => out.units = units + 1 /\ out.pattern >= 0 /\ out.pattern <= id
<1> DEFINE v == u + units
           e == units + 1
           rest == Rest(u)
<1>0. /\ IsHaystack(rest) /\ rest.n = hay.n - u /\ rest.n \in Nat
      /\ \A i \in 0..(rest.n - 1) : rest.tok[i] = hay.tok[u + i]
      /\ \A id \in Ids(pats), i \in Nat : Occurs(pats, rest, id, i) <=> Occurs(pats, hay, id, u + i)
  BY RestIs
<1>1. /\ IsPatternSet(pats) /\ Ids(pats) \subseteq Nat /\ hay.n \in Nat
      /\ \A id \in Ids(pats) : Len(pats[id]) \in Nat
  BY Scenery
<1>2. /\ units \in 0..(hay.n - u) /\ units \in Nat /\ pos = hay.off[v] /\ state \in Nodes(pats)
      /\ EndsText(rest, units, state) /\ Tracks(pats, rest, units, state)
  BY DEF Follows
<1>3. v \in 0..(hay.n - 1)
  <2>1. v \in 0..hay.n
    BY <1>1, <1>2
  <2> QED BY <1>2, <2>1, OffOrder
<1>4. units \in 0..(rest.n - 1) /\ e \in 0..rest.n /\ e \in Nat
  BY <1>0, <1>1, <1>2, <1>3
<1>5. UnitRead.size = hay.off[v + 1] - hay.off[v] /\ StandsFor(UnitRead.token, v)
  <2> HIDE DEF v
  <2> QED BY <1>2, <1>3, UnitIsRead
<1>6. pos + UnitRead.size = hay.off[u + e]
  <2>1. v + 1 = u + e
    BY <1>1, <1>2
  <2> HIDE DEF v, e
  <2>2. PICK a \in Nat, b \in Nat : a = hay.off[v] /\ b = hay.off[v + 1]
    BY <1>3, UnitBytes
  <2>3. a + (b - a) = b
    OBVIOUS
  <2> QED BY <1>2, <1>5, <2>1, <2>2, <2>3
<1>7. IsAdvance(pats, state, rest.tok[units], next)
  <2>1. IsAdvance(pats, state, hay.tok[v], next)
    <3> HIDE DEF v
    <3> QED BY <1>2, <1>3, <1>5, AdvancesAlike
  <2>2. rest.tok[units] = hay.tok[v]
    BY <1>0, <1>4
  <2> QED BY <2>1, <2>2
<1> HIDE DEF rest
<1>8. EndsText(rest, units + 1, next) /\ Covers(pats, rest, units, next)
  BY <1>0, <1>1, <1>2, <1>4, <1>7, AdvanceTracks
<1>9. Tracks(pats, rest, units + 1, next)
  BY <1>0, <1>1, <1>4, <1>8, CoversTracks
<1>10. ASSUME out.pattern >= 0
       PROVE  /\ out.pattern \in Ids(pats) /\ out.units = Len(pats[out.pattern])
              /\ out.units \in 1..e
              /\ Occurs(pats, rest, out.pattern, e - out.units)
  <2>1. EndsText(rest, e, next)
    BY <1>8
  <2> HIDE DEF e
  <2> QED BY <1>0, <1>1, <1>4, <1>10, <2>1, OutputOccurs
<1>11. \A id \in Ids(pats) : Occurs(pats, rest, id, 0) <=> Occurs(pats, hay, id, u)
  <2>1. u + 0 = u
    BY <1>1
  <2> QED BY <1>0, <2>1
<1>12. ASSUME out.pattern >= 0, out.units = e
       PROVE  /\ out.pattern \in Ids(pats) /\ Occurs(pats, hay, out.pattern, u)
              /\ Len(pats[out.pattern]) = e /\ Len(next) = e
  <2>1. e - out.units = 0
    BY <1>4, <1>12
  <2>2. out.pattern \in Ids(pats) /\ Occurs(pats, hay, out.pattern, u) /\ Len(pats[out.pattern]) = e
    BY <1>10, <1>11, <1>12, <2>1
  <2>3. Len(next) <= e
    BY <1>8 DEF EndsText
  <2>4. e <= Len(next)
    <3>1. 0 \in 0..units /\ units < 0 + Len(pats[out.pattern]) /\ units + 1 - 0 = e
      BY <1>2, <2>2
    <3>2. Occurs(pats, rest, out.pattern, 0)
      BY <1>11, <2>2
    <3>3. units + 1 - 0 <= Len(next)
      BY <1>8, <2>2, <3>1, <3>2 DEF Covers
    <3> QED BY <3>1, <3>3
  <2>5. Len(next) \in Nat
    BY <1>1, NodesAreSeqs
  <2>6. Len(next) = e
    <3> HIDE DEF e
    <3> QED BY <1>4, <2>3, <2>4, <2>5
  <2> QED BY <2>2, <2>6
<1>13. ASSUME NEW id \in Ids(pats), Occurs(pats, hay, id, u), Len(pats[id]) = e
       PROVE  out.units = e /\ out.pattern >= 0 /\ out.pattern <= id
  <2>0. Occurs(pats, rest, id, 0) /\ pats[id] # <<>>
    BY <1>11, <1>13, AnchorTyped
  <2>1. Len(pats[id]) <= Len(next)
    <3>1. 0 \in 0..units /\ units < 0 + Len(pats[id]) /\ units + 1 - 0 = e
      BY <1>2, <1>13
    <3>2. units + 1 - 0 <= Len(next)
      BY <1>8, <2>0, <3>1 DEF Covers
    <3> QED BY <1>13, <3>1, <3>2
  <2>2. 0 \in 0..rest.n /\ 0 + Len(pats[id]) = e
    <3>1. 0 \in 0..rest.n
      BY <1>0
    <3>2. Len(pats[id]) \in Nat /\ Len(pats[id]) = e
      BY <1>1, <1>13
    <3> QED BY <3>1, <3>2
  <2>3. EndsText(rest, e, next)
    BY <1>8
  <2> DEFINE su == e - out.units
  <2> HIDE DEF e, su
  <2>4. out.pattern >= 0 /\ Before(su, out.pattern, 0, id)
    BY <1>0, <1>1, <1>4, <2>0, <2>1, <2>2, <2>3, OutputIsBest DEF su
  <2>5. out.pattern \in Ids(pats) /\ out.units \in 1..e
    BY <1>10, <2>4
  <2>6. su = 0 /\ out.pattern <= id
    BY <1>4, <2>4, <2>5 DEF Before, su
  <2> QED BY <1>4, <2>4, <2>5, <2>6 DEF su
<1>14. e \in 0..(hay.n - u)
  BY <1>0, <1>4
<1> QED BY <1>6, <1>8, <1>9, <1>12, <1>13, <1>14 DEF rest


\* From a start inside a unit the one byte that is read ends the replay.
LEMMA ByteAfter ==
  ASSUME Typed, FindsNothing, phase = "replay", start \in Nat, ~StartsUnit(hay, start),
         pos < Bytes(hay),
         NEW next \in Nodes(pats), IsAdvance(pats, state, UnitRead.token, next),
         NEW out, IsOutput(pats, next, out)
  PROVE  next = <<>> /\ out.pattern = -1
<1>1. pos \in 0..(Bytes(hay) - 1) /\ ~StartsUnit(hay, pos)
  BY Scenery DEF FindsNothing
<1>2. UnitRead.token = 0
  BY <1>1, MalformedIsRead
<1>3. next = <<>>
  BY <1>2 DEF IsAdvance
<1>4. ASSUME NEW id \in Ids(pats) PROVE ~EndsHere(pats, next, id)
  <2>1. pats[id] # <<>> /\ pats[id] \in Seq(Token) /\ Len(pats[id]) \in Nat
    BY AnchorTyped, Scenery
  <2>2. Len(pats[id]) # 0 /\ Len(<<>>) = 0
    BY <2>1, EmptySeq
  <2> QED BY <1>3, <2>1, <2>2 DEF EndsHere, EndsWith
<1>5. out = NoOutput
  BY <1>4 DEF IsOutput
<1> QED BY <1>3, <1>5 DEF NoOutput

LEMMA FoundAfterUnit ==
  ASSUME Typed, ReplayUnit, NEW u \in 0..hay.n, Follows(u)
  PROVE  Follows(u)'
<1> DEFINE e == units + 1
<1>1. /\ phase = "replay" /\ pos < Bytes(hay)
      /\ pos' = pos + UnitRead.size /\ units' = e /\ UNCHANGED args
  BY DEF ReplayUnit
<1>2. PICK next \in Nodes(pats) : IsAdvance(pats, state, UnitRead.token, next) /\ state' = next
  BY DEF ReplayUnit
<1>3. PICK out \in Outputs(pats) :
        /\ IsOutput(pats, next, out)
        /\ IF out.pattern >= 0 /\ out.units = e /\ Prefers(out.pattern)
             THEN found' = out.pattern /\ foundEnd' = pos'
             ELSE UNCHANGED <<found, foundEnd>>
        /\ phase' = IF \/ /\ out.pattern >= 0 /\ out.units = e
                          /\ found' = 0 \/ EdgeTokens(pats, next) = {}
                       \/ next = <<>>
                      THEN "judge" ELSE "replay"
  BY <1>1, <1>2 DEF ReplayUnit
<1>4. /\ e \in 0..(hay.n - u) /\ pos' = hay.off[u + e]
      /\ EndsText(Rest(u), e, next) /\ Tracks(pats, Rest(u), e, next)
  BY <1>1, <1>2, <1>3, UnitAfter
<1>5. out.pattern >= 0 /\ out.units = e =>
        /\ out.pattern \in Ids(pats) /\ Occurs(pats, hay, out.pattern, u)
        /\ Len(pats[out.pattern]) = e /\ Len(next) = e
  BY <1>1, <1>2, <1>3, UnitAfter
<1>6. \A id \in Ids(pats) :
        Occurs(pats, hay, id, u) /\ Len(pats[id]) = e
          => out.units = e /\ out.pattern >= 0 /\ out.pattern <= id
  BY <1>1, <1>2, <1>3, UnitAfter
<1>7. /\ pats' = pats /\ hay' = hay /\ Rest(u)' = Rest(u)
  BY <1>1 DEF args, Rest
<1>8. /\ Ids(pats) \subseteq Nat /\ units \in Nat /\ e \in Nat /\ found \in {-1} \cup Ids(pats)
      /\ hay.n \in Nat /\ \A id \in Ids(pats) : Len(pats[id]) \in Nat
  BY Scenery DEF Follows, FoundIsLowest
<1> HIDE DEF e
<1>9. out.pattern \in {-1} \cup Ids(pats)
  BY <1>8 DEF Outputs, NoOutput
<1>10. /\ found >= 0 => Occurs(pats, hay, found, u) /\ foundEnd = hay.off[u + Len(pats[found])]
       /\ \A id \in Ids(pats) :
            Occurs(pats, hay, id, u) /\ Len(pats[id]) <= units => found >= 0 /\ found <= id
  BY DEF Follows, FoundIsLowest
<1>11. found' \in {-1} \cup Ids(pats)
  BY <1>3, <1>8, <1>9
<1>12. ASSUME found' >= 0
       PROVE  Occurs(pats, hay, found', u) /\ foundEnd' = hay.off[u + Len(pats[found'])]
  <2>1. CASE out.pattern >= 0 /\ out.units = e /\ Prefers(out.pattern)
    BY <1>3, <1>4, <1>5, <2>1
  <2>2. CASE ~(out.pattern >= 0 /\ out.units = e /\ Prefers(out.pattern))
    BY <1>3, <1>10, <1>12, <2>2
  <2> QED BY <2>1, <2>2
<1>13. ASSUME NEW id \in Ids(pats), Occurs(pats, hay, id, u), Len(pats[id]) <= e
       PROVE  found' >= 0 /\ found' <= id
  <2>0. id \in Nat /\ (Len(pats[id]) <= units \/ Len(pats[id]) = e)
    BY <1>8, <1>13 DEF e
  <2>1. CASE Len(pats[id]) <= units
    <3>1. found >= 0 /\ found <= id
      BY <1>10, <1>13, <2>1
    <3>2. found' = found \/ (found' = out.pattern /\ out.pattern >= 0 /\ out.pattern < found)
      <4>1. found # -1
        BY <3>1
      <4> QED BY <1>3, <4>1 DEF Prefers
    <3>3. found \in Nat
      BY <1>8, <3>1
    <3>4. out.pattern < found => out.pattern <= id
      BY <1>9, <1>8, <2>0, <3>1, <3>3
    <3> QED BY <3>1, <3>2, <3>4
  <2>2. CASE Len(pats[id]) = e
    <3>1. out.units = e /\ out.pattern >= 0 /\ out.pattern <= id
      BY <1>6, <1>13, <2>2
    <3>2. CASE Prefers(out.pattern)
      BY <1>3, <3>1, <3>2
    <3>3. CASE ~Prefers(out.pattern)
      <4>1. found' = found /\ found # -1 /\ ~(out.pattern < found)
        BY <1>3, <3>3 DEF Prefers
      <4>2. found \in Nat /\ out.pattern \in Nat
        BY <1>8, <1>9, <3>1, <4>1
      <4> QED BY <2>0, <3>1, <4>1, <4>2
    <3> QED BY <3>2, <3>3
  <2> QED BY <2>0, <2>1, <2>2
<1>14. ASSUME NEW id \in Ids(pats), Occurs(pats, hay, id, u), phase' = "judge"
       PROVE  found' >= 0 /\ found' <= id
  <2>0. Occurs(pats, Rest(u), id, 0) /\ Len(pats[id]) \in Nat /\ id \in Nat
    <3>1. u + 0 = u
      BY <1>8
    <3> QED BY <1>8, <1>14, <3>1, RestIs
  <2>1. CASE next = <<>>
    <3>1. Len(next) = 0 /\ e # 0 /\ 0 < e /\ e - 0 = e
      BY <1>8, <2>1 DEF e
    <3>2. 0 \in 0..Rest(u).n
      BY RestIs
    <3>3. ~(e < 0 + Len(pats[id]))
      <4> SUFFICES ASSUME e < 0 + Len(pats[id]) PROVE FALSE
        OBVIOUS
      <4>1. e - 0 <= Len(next)
        BY <1>4, <2>0, <3>1, <3>2 DEF Tracks
      <4> QED BY <1>8, <3>1, <4>1
    <3>4. Len(pats[id]) <= e
      BY <1>8, <2>0, <3>3
    <3> QED BY <1>13, <1>14, <3>4
  <2>2. CASE out.pattern >= 0 /\ out.units = e /\ found' = 0
    BY <2>0, <2>2
  <2>3. CASE out.pattern >= 0 /\ out.units = e /\ EdgeTokens(pats, next) = {}
    <3>1. Len(next) = e
      BY <1>5, <2>3
    <3>2. Len(pats[id]) <= e
      BY <1>4, <1>8, <2>0, <2>3, <3>1, LeafEnds
    <3> QED BY <1>13, <1>14, <3>2
  <2> QED BY <1>3, <1>14, <2>1, <2>2, <2>3
<1>15. FoundIsLowest(u)'
  BY <1>1, <1>7, <1>11, <1>12, <1>13, <1>14 DEF FoundIsLowest
<1> QED BY <1>1, <1>2, <1>4, <1>7, <1>15 DEF Follows

LEMMA ReplayUnitKeeps ==
  ASSUME IInv, ReplayUnit
  PROVE  IInv'
<1>0. /\ Typed /\ BestRight /\ PassedDecide /\ CheckedDecide /\ ResumedRight /\ ReplayHolds
      /\ at \in Nat /\ from \in Nat
  BY DEF IInv, Typed
<1>1. /\ phase = "replay" /\ pos < Bytes(hay) /\ UNCHANGED args
      /\ UNCHANGED <<from, best, bestEnd, at>> /\ UNCHANGED <<from, last, result>>
      /\ UNCHANGED <<todo, start>> /\ phase' \in {"judge", "replay"}
  BY DEF ReplayUnit, yields
<1>2. /\ \A id, u : Candidate(id, u)' <=> Candidate(id, u)
      /\ \A id, u : Decided(id, u)' <=> Decided(id, u)
      /\ \A id, b, u : Points(id, b, u)' <=> Points(id, b, u)
      /\ pats' = pats /\ hay' = hay /\ at' = at
  BY <1>1, SameBest, SamePoints
<1>3. Typed'
  BY <1>0, <1>1, SameTyped
<1>4. BestRight' /\ PassedDecide' /\ ResumedRight'
  BY <1>0, <1>1, SameBest, SamePassed, SameResumed
<1>5. CheckedDecide'
  <2>1. /\ at + 1 < Bytes(hay) /\ todo \subseteq Ids(pats) \X (0..255)
        /\ \A id \in Ids(pats), u \in 0..hay.n :
             Candidate(id, u) /\ Points(id, at, u) /\ <<id, at - hay.off[u]>> \notin todo
               => Decided(id, u) \/ hay.off[u] = start
    BY <1>0, <1>1 DEF CheckedDecide
  <2>2. ASSUME NEW id \in Ids(pats)', NEW u \in 0..hay'.n,
               (Candidate(id, u) /\ Points(id, at, u) /\ <<id, at - hay.off[u]>> \notin todo)'
        PROVE  (Decided(id, u) \/ (phase # "check" /\ hay.off[u] = start))'
    <3>1. id \in Ids(pats) /\ u \in 0..hay.n
      BY <1>2
    <3>2. Candidate(id, u) /\ Points(id, at, u) /\ <<id, at - hay.off[u]>> \notin todo
      BY <1>1, <1>2, <2>2 DEF Points
    <3>3. Decided(id, u) \/ hay.off[u] = start
      BY <2>1, <3>1, <3>2
    <3> QED BY <1>1, <1>2, <3>3
  <2> QED BY <1>1, <1>2, <2>1, <2>2 DEF CheckedDecide
<1>6. start \in Nat /\ from <= start /\ start <= Bytes(hay)
  BY <1>0, <1>1 DEF ReplayHolds
<1>7. ReplayHolds'
  <2>1. CASE StartsUnit(hay, start)
    <3>1. PICK u \in 0..hay.n : hay.off[u] = start
      BY <2>1 DEF StartsUnit
    <3>2. UnitAt(hay, start) = u
      BY <1>0, <3>1, Scenery, UnitAtOff
    <3>3. Follows(u)
      BY <1>0, <1>1, <2>1, <3>2 DEF ReplayHolds
    <3>4. Follows(u)'
      BY <1>0, <3>3, FoundAfterUnit
    <3> QED BY <1>1, <1>2, <1>6, <2>1, <3>2, <3>4 DEF ReplayHolds
  <2>2. CASE ~StartsUnit(hay, start)
    <3>1. FindsNothing
      BY <1>0, <1>1, <2>2 DEF ReplayHolds
    <3>2. PICK next \in Nodes(pats) : IsAdvance(pats, state, UnitRead.token, next) /\ state' = next
      BY DEF ReplayUnit
    <3>3. PICK out \in Outputs(pats) :
            /\ IsOutput(pats, next, out)
            /\ out.pattern < 0 => UNCHANGED <<found, foundEnd>>
            /\ next = <<>> => phase' = "judge"
      <4>1. \A x \in Outputs(pats) : x.pattern < 0 => ~(x.pattern >= 0)
        <5>1. \A x \in Outputs(pats) : x.pattern \in Int
          BY <1>0, Scenery DEF Outputs, NoOutput
        <5> QED BY <5>1
      <4> QED BY <3>2, <4>1 DEF ReplayUnit
    <3>4. next = <<>> /\ out.pattern = -1
      BY <1>0, <1>1, <1>6, <2>2, <3>1, <3>2, <3>3, ByteAfter
    <3>5. state' = <<>> /\ found' = found /\ found = -1 /\ phase' = "judge"
      BY <3>1, <3>2, <3>3, <3>4 DEF FindsNothing
    <3>6. FindsNothing'
      BY <3>5 DEF FindsNothing
    <3> QED BY <1>1, <1>2, <1>6, <2>2, <3>6 DEF ReplayHolds
  <2> QED BY <2>1, <2>2
<1>8. Started'
  BY <1>1 DEF Started
<1> QED BY <1>3, <1>4, <1>5, <1>7, <1>8 DEF IInv

-----------------------------------------------------------------------------
\* A replay that has ended has found the lowest pattern at its start.
LEMMA FoundAtEnd ==
  ASSUME Typed, NEW u \in 0..hay.n, Follows(u),
         phase = "judge" \/ (phase = "replay" /\ (units = MaxUnits \/ pos >= Bytes(hay))),
         NEW id \in Ids(pats), Occurs(pats, hay, id, u)
  PROVE  found >= 0 /\ found <= id
<1>0. /\ hay.n \in Nat /\ Len(pats[id]) \in Nat /\ Bytes(hay) \in Nat
      /\ units \in 0..(hay.n - u) /\ pos = hay.off[u + units]
  BY Scenery DEF Follows
<1>1. CASE phase = "judge"
  BY <1>1 DEF Follows, FoundIsLowest
<1>2. CASE units = MaxUnits
  <2>1. \E m \in {Len(pats[i]) : i \in Ids(pats)} : IsMaxUnits(pats, m)
    BY RawByteEachAssumption DEF RawByteEachAssumption, Typed
  <2>2. IsMaxUnits(pats, MaxUnits)
    BY <2>1 DEF MaxUnits
  <2>3. Len(pats[id]) <= units
    BY <1>2, <2>2 DEF IsMaxUnits
  <2> QED BY <2>3 DEF Follows, FoundIsLowest
<1>3. CASE pos >= Bytes(hay)
  <2>1. u + units \in 0..hay.n
    BY <1>0
  <2>2. /\ hay.off[u + units] \in 0..Bytes(hay)
        /\ hay.off[u + units] = Bytes(hay) => u + units = hay.n
    BY <2>1, Scenery, OffTyped
  <2>3. u + units = hay.n
    BY <1>0, <1>3, <2>2
  <2>4. u + Len(pats[id]) <= hay.n
    BY DEF Occurs
  <2>5. Len(pats[id]) <= units
    BY <1>0, <2>3, <2>4
  <2> QED BY <2>5 DEF Follows, FoundIsLowest
<1> QED BY <1>1, <1>2, <1>3

LEMMA BestTypedHere ==
  ASSUME Typed, BestRight, best # NoMatch
  PROVE  best.start \in Nat /\ best.pattern \in Ids(pats) /\ best.pattern \in Nat /\ bestEnd \in Nat
<1>1. PICK id \in Ids(pats), u \in 0..hay.n : BestIs(id, u)
  BY DEF BestRight
<1>2. best.start = hay.off[u] /\ best.pattern = id /\ bestEnd = hay.off[u + Len(pats[id])]
  BY <1>1 DEF BestIs
<1>3. u + Len(pats[id]) \in 0..hay.n
  <2>1. u + Len(pats[id]) <= hay.n
    BY <1>1 DEF BestIs, Candidate, Occurs
  <2> QED BY <2>1, Scenery
<1> QED BY <1>2, <1>3, Scenery

LEMMA JudgeKeeps ==
  ASSUME IInv, Judge
  PROVE  IInv'
<1>0. /\ Typed /\ BestRight /\ PassedDecide /\ CheckedDecide /\ ResumedRight /\ ReplayHolds
      /\ at \in Nat /\ from \in Nat /\ Ids(pats) \subseteq Nat /\ Bytes(hay) \in Nat
  BY Scenery DEF IInv, Typed
<1>1. /\ phase \in {"judge", "replay"} /\ phase' = "check" /\ UNCHANGED args
      /\ phase = "judge" \/ (phase = "replay" /\ (units = MaxUnits \/ pos >= Bytes(hay)))
      /\ UNCHANGED <<from, last, result>> /\ UNCHANGED <<from, at, todo>>
      /\ IF Improves
           THEN best' = [pattern |-> found, start |-> start] /\ bestEnd' = foundEnd
           ELSE UNCHANGED <<best, bestEnd>>
  BY DEF Judge, yields
<1>2. pats' = pats /\ hay' = hay /\ filter' = filter
  BY <1>1 DEF args
<1>3. \A id, u : Candidate(id, u)' <=> Candidate(id, u)
  BY <1>1, <1>2 DEF Candidate
<1>4. \A id, s, u : Points(id, s, u)' <=> Points(id, s, u)
  BY <1>1, SamePoints
<1>5. Typed'
  BY <1>0, <1>1, SameTyped
<1>6. start \in Nat /\ from <= start
  BY <1>0, <1>1 DEF ReplayHolds
<1>7. ASSUME NEW u \in 0..hay.n, hay.off[u] = start
      PROVE  StartsUnit(hay, start) /\ Follows(u)
  <2>1. UnitAt(hay, start) = u /\ StartsUnit(hay, start)
    BY <1>0, <1>7, Scenery, UnitAtOff DEF StartsUnit
  <2> QED BY <1>0, <1>1, <2>1 DEF ReplayHolds
<1>8. ASSUME Improves
      PROVE  \E u \in 0..hay.n :
               /\ start = hay.off[u] /\ found \in Ids(pats) /\ found \in Nat
               /\ Occurs(pats, hay, found, u)
               /\ foundEnd = hay.off[u + Len(pats[found])]
  <2>1. found >= 0
    BY <1>8 DEF Improves
  <2>2. StartsUnit(hay, start)
    <3> SUFFICES ASSUME ~StartsUnit(hay, start) PROVE FALSE
      OBVIOUS
    <3>1. found = -1
      BY <1>0, <1>1 DEF ReplayHolds, FindsNothing
    <3> QED BY <2>1, <3>1
  <2>3. PICK u \in 0..hay.n : hay.off[u] = start
    BY <2>2 DEF StartsUnit
  <2>4. FoundIsLowest(u)
    BY <1>7, <2>3 DEF Follows
  <2> QED BY <1>0, <2>1, <2>3, <2>4 DEF FoundIsLowest
<1>9. ASSUME Improves
      PROVE  /\ best' # NoMatch /\ best'.start = start /\ best'.pattern = found
             /\ found \in Nat
  <2>1. best' = [pattern |-> found, start |-> start]
    BY <1>1, <1>9
  <2>2. found # -1 /\ found \in Nat
    BY <1>8, <1>9
  <2> QED BY <2>1, <2>2 DEF NoMatch
<1>10. BestRight'
  <2>1. CASE Improves
    <3>1. PICK u \in 0..hay.n :
            /\ start = hay.off[u] /\ found \in Ids(pats)
            /\ Occurs(pats, hay, found, u)
            /\ foundEnd = hay.off[u + Len(pats[found])]
      BY <1>8, <2>1
    <3>2. best' = [pattern |-> found, start |-> start] /\ bestEnd' = foundEnd /\ from' = from
      BY <1>1, <2>1
    <3>3. PICK id \in Ids(pats) : id = found
      BY <3>1
    <3>4. BestIs(id, u)'
      BY <1>2, <1>6, <3>1, <3>2, <3>3 DEF BestIs, Candidate
    <3> QED BY <1>2, <3>4 DEF BestRight
  <2>2. CASE ~Improves
    <3>1. UNCHANGED <<from, best, bestEnd>>
      BY <1>1, <2>2
    <3> QED BY <1>0, <1>1, <3>1, SameBest
  <2> QED BY <2>1, <2>2
<1>11. ASSUME NEW id \in Ids(pats), NEW u \in 0..hay.n, Decided(id, u)
       PROVE  Decided(id, u)'
  <2>0. best # NoMatch /\ Before(best.start, best.pattern, hay.off[u], id)
    BY <1>11 DEF Decided
  <2>1. best.start \in Nat /\ best.pattern \in Nat /\ hay.off[u] \in Nat /\ id \in Nat
    BY <1>0, <2>0, BestTypedHere, Scenery
  <2>2. CASE Improves
    <3>1. start < best.start \/ (start = best.start /\ found < best.pattern)
      BY <2>0, <2>2 DEF Improves
    <3>2. found \in Nat
      BY <1>9, <2>2
    <3>3. Before(start, found, hay.off[u], id)
      BY <1>6, <2>0, <2>1, <3>1, <3>2 DEF Before
    <3> QED BY <1>2, <1>9, <2>2, <3>3 DEF Decided
  <2>3. CASE ~Improves
    BY <1>1, <1>2, <2>0, <2>3 DEF Decided
  <2> QED BY <2>2, <2>3
<1>12. ASSUME NEW id \in Ids(pats), NEW u \in 0..hay.n, hay.off[u] = start,
              Occurs(pats, hay, id, u)
       PROVE  Decided(id, u)'
  <2>1. found >= 0 /\ found <= id
    BY <1>0, <1>1, <1>7, <1>12, FoundAtEnd
  <2>2. id \in Nat /\ found \in Nat
    <3>1. found \in {-1} \cup Ids(pats)
      BY <1>7, <1>12 DEF Follows, FoundIsLowest
    <3> QED BY <1>0, <2>1, <3>1
  <2>3. CASE Improves
    <3>1. Before(start, found, hay.off[u], id)
      BY <1>12, <2>1 DEF Before
    <3> QED BY <1>2, <1>9, <2>3, <3>1 DEF Decided
  <2>4. CASE ~Improves
    <3>1. /\ best # NoMatch /\ ~(start < best.start)
          /\ ~(start = best.start /\ found < best.pattern)
      BY <2>1, <2>4 DEF Improves
    <3>2. best.start \in Nat /\ best.pattern \in Nat
      BY <1>0, <3>1, BestTypedHere
    <3>3. Before(best.start, best.pattern, hay.off[u], id)
      BY <1>6, <1>12, <2>1, <2>2, <3>1, <3>2 DEF Before
    <3> QED BY <1>1, <1>2, <2>4, <3>1, <3>3 DEF Decided
  <2> QED BY <2>3, <2>4
<1>13. PassedDecide'
  BY <1>0, <1>1, <1>2, <1>3, <1>4, <1>11 DEF PassedDecide
<1>14. CheckedDecide'
  <2>1. /\ at + 1 < Bytes(hay) /\ todo \subseteq Ids(pats) \X (0..255)
        /\ \A id \in Ids(pats), u \in 0..hay.n :
             Candidate(id, u) /\ Points(id, at, u) /\ <<id, at - hay.off[u]>> \notin todo
               => Decided(id, u) \/ hay.off[u] = start
    BY <1>0, <1>1 DEF CheckedDecide
  <2>2. ASSUME NEW id \in Ids(pats)', NEW u \in 0..hay'.n,
               (Candidate(id, u) /\ Points(id, at, u) /\ <<id, at - hay.off[u]>> \notin todo)'
        PROVE  Decided(id, u)'
    <3>1. id \in Ids(pats) /\ u \in 0..hay.n
      BY <1>2
    <3>2. Candidate(id, u) /\ Points(id, at, u) /\ <<id, at - hay.off[u]>> \notin todo
      BY <1>1, <1>2, <1>3, <1>4, <2>2 DEF Points
    <3>3. Decided(id, u) \/ hay.off[u] = start
      BY <2>1, <3>1, <3>2
    <3> QED BY <1>11, <1>12, <3>1, <3>2, <3>3 DEF Candidate
  <2> QED BY <1>1, <1>2, <2>1, <2>2 DEF CheckedDecide
<1>15. ResumedRight'
  BY <1>0, <1>1, SameResumed
<1> QED BY <1>1, <1>5, <1>10, <1>13, <1>14, <1>15 DEF IInv, ReplayHolds, Started

-----------------------------------------------------------------------------
\* Where emit is called every candidate is decided.
LEMMA EmitDecides ==
  ASSUME IInv, phase = "skip", AtEnd \/ Settled,
         NEW id \in Ids(pats), NEW u \in 0..hay.n, Candidate(id, u)
  PROVE  Decided(id, u)
<1>0. /\ Typed /\ BestRight /\ PassedDecide /\ at \in Nat /\ Bytes(hay) \in Nat
      /\ u \in Nat /\ Occurs(pats, hay, id, u)
  BY Scenery DEF IInv, Typed, Candidate
<1>1. PICK s \in Nat : s + 1 < Bytes(hay) /\ Points(id, s, u)
  BY <1>0, OccurrenceAnchored
<1>2. CASE s < at
  BY <1>0, <1>1, <1>2 DEF PassedDecide
<1>3. CASE ~(s < at)
  <2>1. ~AtEnd
    BY <1>0, <1>1, <1>3 DEF AtEnd
  <2>2. best # NoMatch /\ at > best.start + MaxOffset(filter)
    BY <2>1 DEF Settled
  <2>3. s - hay.off[u] \in filter[id].starts
    BY <1>1 DEF Points
  <2>4. PICK d \in Nat, m \in Nat, a \in Nat, b \in Nat :
          d = s - hay.off[u] /\ m = MaxOffset(filter) /\ a = hay.off[u] /\ b = best.start /\ d <= m
    BY <1>0, <2>2, <2>3, MaxOffsetIs, BestTypedHere, Scenery
  <2>5. b < a
    BY <1>0, <1>3, <2>2, <2>4
  <2> QED BY <2>2, <2>4, <2>5 DEF Decided, Before
<1> QED BY <1>2, <1>3

\* The match that is yielded, and where the next may start.
LEMMA Emitted ==
  ASSUME IInv, Emit
  PROVE  \E id \in Ids(pats), u \in 0..hay.n :
           /\ BestIs(id, u) /\ u + Len(pats[id]) \in 0..hay.n
           /\ last' = [pattern |-> id, start |-> hay.off[u],
                       width |-> hay.off[u + Len(pats[id])] - hay.off[u]]
           /\ Resumed' = u + Len(pats[id])
<1>0. Typed /\ BestRight /\ IsHaystack(hay) /\ Ids(pats) \subseteq Nat /\ hay.n \in Nat
  BY Scenery DEF IInv
<1>1. /\ best # NoMatch /\ UNCHANGED args
      /\ last' = [pattern |-> best.pattern, start |-> best.start, width |-> bestEnd - best.start]
  BY DEF Emit
<1>2. PICK id \in Ids(pats), u \in 0..hay.n : BestIs(id, u)
  BY <1>0, <1>1 DEF BestRight
<1>3. best.pattern = id /\ best.start = hay.off[u] /\ bestEnd = hay.off[u + Len(pats[id])]
  BY <1>2 DEF BestIs
<1>4. u + Len(pats[id]) \in 0..hay.n
  <2>1. u + Len(pats[id]) <= hay.n
    BY <1>2 DEF BestIs, Candidate, Occurs
  <2> QED BY <1>0, <2>1, Scenery
<1>5. last' = [pattern |-> id, start |-> hay.off[u],
               width |-> hay.off[u + Len(pats[id])] - hay.off[u]]
  BY <1>1, <1>3
<1>6. PICK v \in 0..hay.n : v = u + Len(pats[id])
  BY <1>4
<1>7. Resumed' = v
  <2>1. PICK a \in Nat, b \in Nat : a = hay.off[u] /\ b = hay.off[v]
    BY <1>0, Scenery
  <2>2. last'.start + last'.width = b
    <3>1. last'.start = a /\ last'.width = b - a
      BY <1>5, <1>6, <2>1
    <3> QED BY <3>1
  <2>3. last' # NoYield
    <3>1. last'.pattern = id /\ id # -1
      BY <1>0, <1>5
    <3>2. NoYield.pattern = -1
      BY DEF NoYield
    <3> QED BY <3>1, <3>2
  <2>4. UnitAt(hay, b) = v
    BY <1>0, <2>1, UnitAtOff
  <2>5. hay' = hay
    BY <1>1 DEF args
  <2> QED BY <2>2, <2>3, <2>4, <2>5 DEF Resumed
<1> QED BY <1>2, <1>4, <1>5, <1>6, <1>7

LEMMA EmitKeeps ==
  ASSUME IInv, Emit
  PROVE  IInv'
<1>0. /\ Typed /\ BestRight /\ PassedDecide /\ ResumedRight
      /\ at \in Nat /\ from \in Nat
  BY DEF IInv, Typed
<1>1. /\ phase = "skip" /\ best # NoMatch /\ UNCHANGED args
      /\ \/ /\ at' = bestEnd /\ from' = bestEnd
            /\ best' = NoMatch /\ bestEnd' = 0
            /\ UNCHANGED <<phase, result>>
         \/ /\ phase' = "done" /\ UNCHANGED <<at, from, best, bestEnd>>
  BY DEF Emit, ResumeAt
<1>2. /\ pats' = pats /\ hay' = hay
  BY <1>1 DEF args
<1>3. CASE phase' = "done"
  <2>1. UNCHANGED <<from, best, bestEnd, at>> /\ UNCHANGED <<from, best, bestEnd>>
    BY <1>1, <1>3
  <2>2. Typed'
    BY <1>0, <1>1, <1>3, <2>1, SameTyped
  <2>3. BestRight' /\ PassedDecide'
    BY <1>0, <1>1, <2>1, SameBest, SamePassed
  <2> QED BY <1>3, <2>2, <2>3 DEF IInv, CheckedDecide, ReplayHolds, Started, ResumedRight
<1>4. CASE phase' # "done"
  <2>1. /\ at' = bestEnd /\ from' = bestEnd /\ best' = NoMatch
        /\ phase' = "skip" /\ result' = result
    BY <1>1, <1>4
  <2>2. bestEnd \in Nat
    BY <1>0, <1>1, BestTypedHere
  <2>3. Typed'
    BY <1>0, <1>1, <2>1, <2>2, SameTyped
  <2>4. PassedDecide'
    <3>1. Typed' /\ (at = from)'
      BY <2>1, <2>3
    <3> QED BY <3>1, NothingPassed, PTL
  <2>5. ResumedRight'
    <3>1. PICK id \in Ids(pats), u \in 0..hay.n :
            /\ BestIs(id, u) /\ u + Len(pats[id]) \in 0..hay.n
            /\ Resumed' = u + Len(pats[id])
      BY Emitted
    <3>2. PICK v \in 0..hay.n : v = u + Len(pats[id])
      BY <3>1
    <3>3. Resumed' = v /\ from' = hay.off[v] /\ result' = "none"
      BY <1>0, <1>1, <2>1, <3>1, <3>2 DEF BestIs, ResumedRight
    <3>4. \A w \in v..hay.n : hay.off[v] <= hay.off[w]
      <4> TAKE w \in v..hay.n
      <4>1. w \in 0..hay.n /\ v <= w
        BY <1>0, Scenery
      <4> QED BY <1>0, <4>1, OffOrder
    <3>5. hay.off[v] <= hay.off[v]
      BY <1>0, Scenery
    <3> QED BY <1>2, <2>1, <3>3, <3>4, <3>5 DEF ResumedRight
  <2> QED BY <2>1, <2>3, <2>4, <2>5 DEF IInv, BestRight, CheckedDecide, ReplayHolds, Started
<1> QED BY <1>3, <1>4

-----------------------------------------------------------------------------
LEMMA StepKeeps ==
  ASSUME IInv, [Next]_vars
  PROVE  IInv'
<1>1. CASE UNCHANGED vars
  <2>1. /\ UNCHANGED args /\ UNCHANGED <<phase, at, from, best, bestEnd, todo>>
        /\ UNCHANGED <<start, pos, units, state, found, foundEnd>>
        /\ UNCHANGED <<turn, last, result>>
    BY <1>1 DEF vars, replay, yields
  <2>2. Typed'
    BY <2>1, SameTyped DEF IInv, Typed
  <2>3. BestRight' /\ PassedDecide'
    BY <2>1, SameBest, SamePassed DEF IInv
  <2>4. CheckedDecide' /\ ReplayHolds'
    BY <2>1 DEF IInv, args, CheckedDecide, Candidate, Decided, Points, ReplayHolds, Follows,
                FoundIsLowest, FindsNothing, Rest
  <2>5. Started' /\ ResumedRight'
    BY <2>1 DEF IInv, args, Started, ResumedRight, Resumed
  <2> QED BY <2>2, <2>3, <2>4, <2>5 DEF IInv
<1>2. CASE Enter
  BY <1>2, EnterKeeps
<1>3. CASE EnterAtOrigin
  BY <1>3, EnterAtOriginKeeps
<1>4. CASE Skip
  BY <1>4, SkipKeeps
<1>5. CASE CheckStart
  BY <1>5, CheckStartKeeps
<1>6. CASE NextByte
  BY <1>6, NextByteKeeps
<1>7. CASE ReplayUnit
  BY <1>7, ReplayUnitKeeps
<1>8. CASE Judge
  BY <1>8, JudgeKeeps
<1>9. CASE Emit
  BY <1>9, EmitKeeps
<1>10. CASE Exhausted
  BY <1>10, ReturnKeeps DEF Exhausted
<1>11. CASE Done
  BY <1>1, <1>11 DEF Done
<1> QED BY <1>1, <1>2, <1>3, <1>4, <1>5, <1>6, <1>7, <1>8, <1>9, <1>10, <1>11 DEF Next

(***************************************************************************)
(* For every pattern set with a raw-byte plan, every choice of anchors and *)
(* every haystack: candidates whose anchors the scan has passed are        *)
(* decided, and a replay knows what it has read, whichever table it reads. *)
(***************************************************************************)
THEOREM Invariance == Spec => []IInv
<1>1. IInv /\ [Next]_vars => IInv'
  BY StepKeeps
<1> QED BY <1>1, InitHolds, PTL DEF Spec

-----------------------------------------------------------------------------
(***************************************************************************)
(* A replay's state is what the automaton has after the units it has read, *)
(* read from whichever table; from inside a unit it finds nothing.         *)
(***************************************************************************)
THEOREM ReplayFollows == Spec => []ReplayFollowsText
<1>1. ASSUME IInv, phase \in {"replay", "judge"} PROVE ReplayFollowsText
  <2>0. Typed /\ ReplayHolds /\ hay.n \in Nat /\ IsHaystack(hay)
        /\ \A id \in Ids(pats) : Len(pats[id]) \in Nat
    BY <1>1, Scenery DEF IInv
  <2>1. CASE StartsUnit(hay, start)
    <3> DEFINE v == UnitAt(hay, start)
    <3>1. PICK u \in 0..hay.n : v = u
      <4>1. PICK w \in 0..hay.n : hay.off[w] = start
        BY <2>1 DEF StartsUnit
      <4> QED BY <2>0, <4>1, UnitAtOff
    <3>2. Follows(u)
      BY <1>1, <2>0, <2>1, <3>1 DEF ReplayHolds
    <3> HIDE DEF v
    <3>3. /\ units \in Nat /\ units <= hay.n - u /\ pos = hay.off[u + units]
          /\ EndsText(Rest(u), units, state) /\ Tracks(pats, Rest(u), units, state)
          /\ Len(state) \in Nat /\ u \in Nat
      <4>1. state \in Seq(Token)
        BY <2>0, <3>2, Scenery, NodesAreSeqs DEF Follows
      <4>2. Len(state) \in Nat
        BY <4>1
      <4> QED BY <2>0, <3>2, <4>2 DEF Follows
    <3>4. ASSUME NEW i \in 1..Len(state)
          PROVE  state[i] = hay.tok[u + units - Len(state) + i - 1]
      <4>1. Len(state) <= units /\ state[i] = Rest(u).tok[units - Len(state) + i - 1]
        BY <3>3 DEF EndsText
      <4>2. PICK l \in Nat, k \in Nat : l = Len(state) /\ k = units
        BY <3>3
      <4>3. /\ k - l + i - 1 \in 0..(hay.n - u - 1)
            /\ u + (k - l + i - 1) = u + k - l + i - 1
        BY <2>0, <3>3, <4>1, <4>2
      <4>4. Rest(u).n - 1 = hay.n - u - 1
        BY <2>0, RestIs
      <4>5. Rest(u).tok[k - l + i - 1] = hay.tok[u + (k - l + i - 1)]
        BY <2>0, <4>3, <4>4, RestIs
      <4> QED BY <4>1, <4>2, <4>3, <4>5
    <3>5. ASSUME NEW id \in Ids(pats), NEW w \in u..(u + units),
                 Occurs(pats, hay, id, w), u + units < w + Len(pats[id])
          PROVE  u + units - w <= Len(state)
      <4>1. PICK b \in Nat : b = w - u
        BY <3>3
      <4>2. u + b = w /\ b <= units
        BY <3>3, <4>1
      <4>3. CASE b = units
        BY <3>3, <4>2, <4>3
      <4>4. CASE b # units
        <5>1. b \in 0..Rest(u).n /\ b < units
          <6>1. Rest(u).n = hay.n - u
            BY <2>0, RestIs
          <6> QED BY <2>0, <3>3, <4>2, <4>4, <6>1
        <5>2. Occurs(pats, Rest(u), id, b)
          BY <2>0, <3>5, <4>2, RestIs
        <5>3. units < b + Len(pats[id])
          BY <2>0, <3>3, <3>5, <4>2
        <5>4. units - b <= Len(state)
          BY <3>3, <5>1, <5>2, <5>3 DEF Tracks
        <5> QED BY <3>3, <4>2, <5>4
      <4> QED BY <4>3, <4>4
    <3> QED BY <2>1, <3>1, <3>3, <3>4, <3>5 DEF ReplayFollowsText, v
  <2>2. CASE ~StartsUnit(hay, start)
    BY <1>1, <2>0, <2>2 DEF ReplayHolds, FindsNothing, ReplayFollowsText
  <2> QED BY <2>1, <2>2
<1>2. IInv => ReplayFollowsText
  BY <1>1 DEF ReplayFollowsText
<1> QED BY <1>2, Invariance, PTL

(***************************************************************************)
(* Past the last byte at which its anchor can be, an occurrence behind the *)
(* last match is decided.                                                  *)
(***************************************************************************)
THEOREM AnchorsAreDecided == Spec => []AnchorsDecide
<1>1. ASSUME IInv, NEW id \in Ids(pats), NEW u \in 0..(hay.n - 1),
             Occurs(pats, hay, id, u), from <= hay.off[u],
             hay.off[u] + Largest(filter[id].starts) < at
      PROVE  Decided(id, u)
  <2>0. Typed /\ PassedDecide /\ at \in Nat /\ u \in Nat /\ u \in 0..hay.n
    BY <1>1, Scenery DEF IInv, Typed
  <2>1. PICK s \in Nat : Points(id, s, u)
    BY <1>1, <2>0, OccurrenceAnchored
  <2>2. PICK d \in Nat, m \in Nat, a \in Nat :
          d = s - hay.off[u] /\ m = Largest(filter[id].starts) /\ a = hay.off[u] /\ d <= m
    BY <2>0, <2>1, LargestStart, Scenery DEF Points
  <2>3. s < at
    BY <1>1, <2>0, <2>2
  <2> QED BY <1>1, <2>0, <2>1, <2>3 DEF PassedDecide, Candidate
<1>2. IInv => AnchorsDecide
  BY <1>1 DEF AnchorsDecide, Decided
<1> QED BY <1>2, Invariance, PTL

-----------------------------------------------------------------------------
\* The contract's vocabulary is that of the scan.
LEMMA SameVocabulary ==
  /\ Contract!IsPatternSet(pats) <=> IsPatternSet(pats)
  /\ Contract!IsHaystack(hay) <=> IsHaystack(hay)
  /\ Contract!Ids(pats) = Ids(pats)
  /\ Contract!NoYield = NoYield
  /\ \A id, u : Contract!Occurs(pats, hay, id, u) <=> Occurs(pats, hay, id, u)
  /\ \A u, id, v, other : Contract!Before(u, id, v, other) <=> Before(u, id, v, other)
BY DEF Contract!IsPatternSet, IsPatternSet, Contract!Token, Token,
       Contract!IsHaystack, IsHaystack, Contract!Ids, Ids, Contract!NoYield, NoYield,
       Contract!Occurs, Occurs, Contract!Before, Before

LEMMA YieldsAsPromised ==
  ASSUME IInv, Emit
  PROVE  Contract!Yield
<1>0. /\ Typed /\ BestRight /\ ResumedRight /\ IsHaystack(hay) /\ Ids(pats) \subseteq Nat
      /\ hay.n \in Nat /\ phase = "skip" /\ (AtEnd \/ Settled)
  BY Scenery DEF IInv, Emit
<1>1. PICK id \in Ids(pats), u \in 0..hay.n :
        /\ BestIs(id, u) /\ u + Len(pats[id]) \in 0..hay.n
        /\ last' = [pattern |-> id, start |-> hay.off[u],
                    width |-> hay.off[u + Len(pats[id])] - hay.off[u]]
        /\ Resumed' = u + Len(pats[id])
  BY Emitted
<1>2. /\ result = "none" /\ turn' = ~turn /\ pats' = pats /\ hay' = hay
      /\ result' \in {"none", "false"}
  BY <1>0 DEF Emit, ResumedRight, args
<1>3. /\ Resumed \in 0..hay.n /\ hay.off[Resumed] <= from
      /\ \A other \in Ids(pats), v \in Resumed..hay.n :
           Occurs(pats, hay, other, v) => from <= hay.off[v]
  BY <1>0 DEF ResumedRight
<1>4. Occurs(pats, hay, id, u) /\ from <= hay.off[u] /\ best.start = hay.off[u] /\ best.pattern = id
  BY <1>1 DEF BestIs, Candidate
<1>5. u \in Resumed..hay.n
  <2>1. PICK r \in 0..hay.n : r = Resumed
    BY <1>3
  <2>2. PICK a \in Nat, b \in Nat, f \in Nat : a = hay.off[r] /\ b = hay.off[u] /\ f = from
    BY <1>0, Scenery DEF Typed
  <2>3. a <= b
    BY <1>3, <1>4, <2>1, <2>2
  <2>4. r <= u
    BY <1>0, <2>2, <2>3, OffOrder
  <2> QED BY <1>0, <2>1, <2>4
<1>6. ASSUME NEW other \in Ids(pats), NEW v \in Resumed..hay.n, Occurs(pats, hay, other, v)
      PROVE  Before(u, id, v, other)
  <2>1. v \in 0..hay.n
    BY <1>0, <1>3
  <2>2. Decided(other, v)
    BY <1>0, <1>3, <1>6, <2>1, EmitDecides DEF Candidate
  <2>3. Before(hay.off[u], id, hay.off[v], other)
    BY <1>4, <2>2 DEF Decided
  <2>4. PICK a \in Nat, b \in Nat : a = hay.off[u] /\ b = hay.off[v]
    BY <1>0, <2>1, Scenery
  <2>5. (a <= b => u <= v) /\ (a = b => u = v) /\ (u = v => a = b)
    BY <1>0, <2>1, <2>4, OffOrder
  <2>6. a < b \/ (a = b /\ id <= other)
    BY <2>3, <2>4 DEF Before
  <2>7. u \in Nat /\ v \in Nat
    BY <1>0, <2>1
  <2>8. u < v \/ (u = v /\ id <= other)
    BY <2>4, <2>5, <2>6, <2>7
  <2> QED BY <2>8 DEF Before
<1>7. Contract!IsNext(Resumed, id, u)
  <2>1. Resumed <= u
    BY <1>5, <1>0, <1>3
  <2> QED BY <1>4, <1>6, <2>1, SameVocabulary DEF Contract!IsNext
<1>8. Resumed' = IF Len(pats[id]) = 0 THEN u + 1 ELSE u + Len(pats[id])
  <2>1. pats[id] # <<>> /\ pats[id] \in Seq(Token)
    BY <1>0, AnchorTyped, Scenery
  <2>2. Len(pats[id]) # 0
    BY <2>1, EmptySeq
  <2> QED BY <1>1, <2>2
<1> QED BY <1>1, <1>2, <1>5, <1>7, <1>8, SameVocabulary DEF Contract!Yield

\* Where the search ends without a match none is left.
LEMMA ExhaustedAsPromised ==
  ASSUME IInv, UNCHANGED args, UNCHANGED <<turn, last>>, phase # "done", result' = "true",
         \A id \in Ids(pats), u \in 0..hay.n : ~Candidate(id, u)
  PROVE  Contract!Exhausted
<1>1. /\ result = "none" /\ Resumed \in 0..hay.n
      /\ \A id \in Ids(pats), u \in Resumed..hay.n : Occurs(pats, hay, id, u) => from <= hay.off[u]
  BY DEF IInv, ResumedRight
<1>2. pats' = pats /\ hay' = hay /\ Resumed' = Resumed
  BY DEF args, Resumed
<1>3. ASSUME NEW id \in Ids(pats), NEW u \in Resumed..hay.n PROVE ~Occurs(pats, hay, id, u)
  <2>1. u \in 0..hay.n
    BY <1>1, Scenery DEF IInv
  <2> QED BY <1>1, <2>1 DEF Candidate
<1> QED BY <1>1, <1>2, <1>3, SameVocabulary DEF Contract!Exhausted

LEMMA StepAsPromised ==
  ASSUME IInv, [Next]_vars
  PROVE  Contract!Next \/ UNCHANGED Contract!vars
<1>0. Typed
  BY DEF IInv
<1>1. CASE UNCHANGED args /\ UNCHANGED yields
  <2>1. pats' = pats /\ hay' = hay /\ Resumed' = Resumed
    BY <1>1 DEF args, yields, Resumed
  <2> QED BY <1>1, <2>1 DEF Contract!vars, yields
<1>2. CASE EnterAtOrigin
  <2> DEFINE places(gate) == {i \in 0..(Bytes(hay) - 1) : hay.bytes[i] = gate.byte}
  <2>1. PICK gate \in OriginGates(pats) :
          \/ places(gate) = {} /\ Return("true")
          \/ UNCHANGED args /\ UNCHANGED yields
    BY <1>2 DEF EnterAtOrigin
  <2>2. CASE places(gate) = {} /\ Return("true")
    <3>1. \A id \in Ids(pats), u \in 0..hay.n : ~Candidate(id, u)
      <4> SUFFICES ASSUME NEW id \in Ids(pats), NEW u \in 0..hay.n PROVE ~Occurs(pats, hay, id, u)
        BY DEF Candidate
      <4>1. u \in Nat
        BY <1>0, Scenery
      <4> QED BY <1>0, <2>2, <4>1, OriginCutsNothing
    <3>2. UNCHANGED args /\ UNCHANGED <<turn, last>> /\ phase # "done" /\ result' = "true"
      BY <1>2, <2>2 DEF Return, EnterAtOrigin
    <3> QED BY <3>1, <3>2, ExhaustedAsPromised DEF Contract!Next
  <2> QED BY <1>1, <2>1, <2>2
<1>3. CASE Exhausted
  <2>1. \A id \in Ids(pats), u \in 0..hay.n : ~Candidate(id, u)
    BY <1>3, EmitDecides DEF Exhausted, Decided
  <2>2. UNCHANGED args /\ UNCHANGED <<turn, last>> /\ phase # "done" /\ result' = "true"
    BY <1>3 DEF Return, Exhausted
  <2> QED BY <2>1, <2>2, ExhaustedAsPromised DEF Contract!Next
<1>4. CASE Emit
  BY <1>4, YieldsAsPromised DEF Contract!Next
<1>5. CASE Enter \/ Skip \/ CheckStart \/ NextByte \/ ReplayUnit \/ Judge
  BY <1>1, <1>5 DEF Enter, Skip, CheckStart, NextByte, ReplayUnit, Judge
<1>6. CASE Done \/ UNCHANGED vars
  BY <1>1, <1>6 DEF Done, vars
<1> QED BY <1>2, <1>3, <1>4, <1>5, <1>6 DEF Next

(***************************************************************************)
(* Anchors inside the patterns, behind units of several widths, starts     *)
(* that are replayed out of order, and a haystack cut off by Find: what is *)
(* yielded is what repeated calls of Find would return.                    *)
(***************************************************************************)
THEOREM Refinement == Spec => ImplementsEach
<1>1. Init => Contract!Init
  <2> SUFFICES ASSUME Init PROVE Contract!Init
    OBVIOUS
  <2>1. Typed
    BY InitHolds DEF IInv
  <2>2. IsPatternSet(pats) /\ IsHaystack(hay)
    BY <2>1, Scenery
  <2> QED BY <2>2, SameVocabulary DEF Init, Contract!Init, Resumed
<1>2. IInv /\ [Next]_vars => [Contract!Next]_(Contract!vars)
  BY StepAsPromised
<1> QED BY <1>1, <1>2, Invariance, PTL DEF Spec, ImplementsEach, Contract!Spec
=============================================================================
