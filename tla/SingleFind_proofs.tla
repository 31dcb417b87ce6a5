-------------------------- MODULE SingleFind_proofs --------------------------
(***************************************************************************)
(* Every route for one pattern finds the leftmost match, with its width in *)
(* the haystack, or says that it is not the one to answer: for every       *)
(* folding that LiteralAssumption describes, needle and haystack           *)
(* (SingleFind).                                                           *)
(***************************************************************************)
EXTENDS SingleFind, FoldPlan_proofs, FiniteSetTheorems

Typed ==
  /\ needle \in Needles /\ hay \in Haystacks
  /\ pats = PatternOf(needle)
  /\ U!PlanInit

P == pats[0]

-----------------------------------------------------------------------------
\* A form is a string of at most four bytes; a longer one is a lead byte and
\* trail bytes.
LEMMA FormTyped ==
  ASSUME NEW t \in DOMAIN Forms, NEW f \in Forms[t]
  PROVE  /\ f \in Seq(0..255) /\ Len(f) \in 1..4
         /\ Len(f) > 1 => f[1] > 191 /\ \A i \in 2..Len(f) : f[i] \in Trail
<1>1. Forms[t] \in SUBSET (Seq(0..255) \ {<<>>})
  BY LiteralAssumption DEF LiteralAssumption
<1>2. f \in Seq(0..255) /\ f # <<>>
  BY <1>1
<1>3. Len(f) \in Nat /\ Len(f) # 0
  BY <1>2, EmptySeq, LenProperties
<1>4. Len(f) <= 4 /\ (Len(f) > 1 => f[1] > 191 /\ \A i \in 2..Len(f) : f[i] \in Trail)
  BY LiteralAssumption DEF LiteralAssumption
<1>5. Len(f) \in 1..4
  <2>1. PICK n \in Nat : n = Len(f)
    BY <1>3
  <2>2. n # 0 /\ n <= 4
    BY <1>3, <1>4, <2>1
  <2>3. n \in 1..4
    BY <2>2
  <2> QED BY <2>1, <2>3
<1> QED BY <1>2, <1>4, <1>5

\* The pattern is a sequence of tokens.
LEMMA PatternIs ==
  ASSUME Typed
  PROVE  /\ Ids(pats) = {0} /\ U!Pattern = P
         /\ P \in Seq(DOMAIN Forms) /\ Len(P) = Len(needle) /\ Len(P) \in Nat \ {0}
         /\ \A i \in 1..Len(P) : P[i] = TokenOf(needle[i]) /\ needle[i] \in Forms[P[i]]
         /\ DOMAIN Forms \subseteq Token /\ IsPatternSet(pats)
<1>1. needle \in Seq(UNION {Forms[t] : t \in DOMAIN Forms}) /\ needle # <<>>
  BY LiteralAssumption DEF LiteralAssumption, Typed
<1>2. Len(needle) \in Nat \ {0} /\ DOMAIN needle = 1..Len(needle)
  BY <1>1, EmptySeq, LenProperties
<1>3. P = [i \in 1..Len(needle) |-> TokenOf(needle[i])] /\ Ids(pats) = {0}
      /\ pats = [id \in {0} |-> P]
  BY <1>2 DEF PatternOf, Typed, P, Ids
<1>4. ASSUME NEW i \in 1..Len(needle)
      PROVE  TokenOf(needle[i]) \in DOMAIN Forms /\ needle[i] \in Forms[TokenOf(needle[i])]
  <2>1. needle[i] \in UNION {Forms[t] : t \in DOMAIN Forms}
    BY <1>1
  <2> QED BY <2>1 DEF TokenOf
<1>5. P \in Seq(DOMAIN Forms) /\ Len(P) = Len(needle)
  <2>1. P \in [1..Len(needle) -> DOMAIN Forms]
    BY <1>3, <1>4
  <2>2. PICK n \in Nat : n = Len(needle)
    BY <1>2
  <2> HIDE DEF P
  <2>3. P \in Seq(DOMAIN Forms) /\ Len(P) = n
    BY <2>1, <2>2
  <2> QED BY <2>2, <2>3
<1>6. DOMAIN Forms \subseteq Token
  <2>1. Forms \in Seq(SUBSET (Seq(0..255) \ {<<>>}))
    BY LiteralAssumption DEF LiteralAssumption
  <2>2. DOMAIN Forms = 1..Len(Forms) /\ Len(Forms) \in Nat
    BY <2>1
  <2> QED BY <2>2 DEF Token
<1>7. IsPatternSet(pats)
  <2>1. P \in Seq(Token)
    BY <1>5, <1>6
  <2> HIDE DEF P
  <2>2. DOMAIN pats = {0} /\ {0} \subseteq Nat
    BY <1>3
  <2>3. pats \in [{0} -> Seq(Token)]
    BY <1>3, <2>1
  <2> QED BY <2>2, <2>3 DEF IsPatternSet
<1> QED BY <1>2, <1>3, <1>4, <1>5, <1>6, <1>7 DEF U!Pattern, P

-----------------------------------------------------------------------------
\* The haystack and its offsets, in the words the arithmetic below needs.
LEMMA Scenery ==
  ASSUME Typed
  PROVE  /\ IsSpelled(hay) /\ IsHaystack(hay) /\ DecodesForms(hay)
         /\ hay.n \in Nat /\ Bytes(hay) \in Nat /\ Bytes(hay) = hay.off[hay.n]
         /\ hay.off[0] = 0
         /\ \A u \in 0..hay.n : hay.off[u] \in Nat /\ hay.off[u] <= Bytes(hay)
         /\ \A u, v \in 0..hay.n : u < v => hay.off[u] < hay.off[v]
<1>1. IsSpelled(hay) /\ DecodesForms(hay)
  BY LiteralAssumption DEF LiteralAssumption, Typed
<1>2. IsHaystack(hay)
  BY <1>1 DEF IsSpelled
<1>3. hay.n \in Nat /\ Bytes(hay) \in Nat /\ hay.off[0] = 0
  BY <1>2 DEF IsHaystack, Bytes
<1>4. \A u \in 0..hay.n : hay.off[u] \in Nat /\ hay.off[u] <= Bytes(hay)
  <2> TAKE u \in 0..hay.n
  <2>1. hay.off[u] \in 0..Bytes(hay)
    BY <1>2, OffTyped
  <2> QED BY <1>3, <2>1
<1>5. \A u, v \in 0..hay.n : u < v => hay.off[u] < hay.off[v]
  BY <1>2 DEF IsHaystack
<1> QED BY <1>1, <1>2, <1>3, <1>4, <1>5 DEF Bytes

\* What a byte offset says of its unit.
LEMMA OffOrder ==
  ASSUME Typed, NEW u \in 0..hay.n, NEW v \in 0..hay.n
  PROVE  /\ hay.off[u] <= hay.off[v] => u <= v
         /\ u <= v => hay.off[u] <= hay.off[v]
         /\ hay.off[u] = hay.off[v] => u = v
         /\ hay.off[u] < Bytes(hay) => u \in 0..(hay.n - 1)
<1>1. /\ hay.n \in Nat /\ Bytes(hay) = hay.off[hay.n]
      /\ \A x \in 0..hay.n : hay.off[x] \in Nat
      /\ \A x, y \in 0..hay.n : x < y => hay.off[x] < hay.off[y]
  BY Scenery
<1>2. PICK a \in Nat, b \in Nat : a = hay.off[u] /\ b = hay.off[v]
  BY <1>1
<1>3. (v < u => b < a) /\ (u < v => a < b)
  BY <1>1, <1>2
<1>4. u \in Nat /\ v \in Nat
  BY <1>1
<1>5. (a <= b => u <= v) /\ (u <= v => a <= b) /\ (a = b => u = v)
  BY <1>2, <1>3, <1>4
<1>6. hay.off[u] < Bytes(hay) => u \in 0..(hay.n - 1)
  BY <1>1
<1> QED BY <1>2, <1>5, <1>6

\* The bytes of one unit of the haystack.
LEMMA UnitBytes ==
  ASSUME Typed, NEW u \in 0..(hay.n - 1)
  PROVE  /\ u \in 0..hay.n /\ u + 1 \in 0..hay.n
         /\ hay.off[u] \in Nat /\ hay.off[u + 1] \in Nat
         /\ hay.off[u] < hay.off[u + 1] /\ hay.off[u + 1] <= Bytes(hay)
         /\ hay.off[u] < Bytes(hay)
         /\ hay.tok[u] \in Nat
         /\ hay.bytes[hay.off[u]] \in 0..255
         /\ hay.ascii[u] <=> hay.bytes[hay.off[u]] \in Ascii
         /\ hay.ascii[u] => hay.off[u + 1] = hay.off[u] + 1
<1>1. hay.n \in Nat /\ IsHaystack(hay) /\ IsSpelled(hay)
  BY Scenery
<1>2. u \in 0..hay.n /\ u + 1 \in 0..hay.n /\ u < u + 1
  BY <1>1
<1>3. /\ hay.off[u] \in Nat /\ hay.off[u + 1] \in Nat /\ Bytes(hay) \in Nat
      /\ hay.off[u] < hay.off[u + 1] /\ hay.off[u + 1] <= Bytes(hay)
  BY <1>2, Scenery
<1>4. hay.off[u] \in 0..(Bytes(hay) - 1) /\ hay.off[u] < Bytes(hay)
  BY <1>3
<1>5. hay.bytes[hay.off[u]] \in 0..255
  BY <1>1, <1>4 DEF IsSpelled
<1>6. Spelling(hay, u)[1] = hay.bytes[hay.off[u]]
  <2>1. 1 \in 1..(hay.off[u + 1] - hay.off[u]) /\ hay.off[u] + 1 - 1 = hay.off[u]
    BY <1>3
  <2> QED BY <2>1 DEF Spelling
<1>7. hay.ascii[u] <=> hay.bytes[hay.off[u]] \in Ascii
  BY <1>1, <1>6 DEF IsSpelled
<1>8. hay.tok[u] \in Nat /\ (hay.ascii[u] => hay.off[u + 1] = hay.off[u] + 1)
  BY <1>1 DEF IsHaystack
<1> QED BY <1>2, <1>3, <1>4, <1>5, <1>7, <1>8

\* The bytes of a unit as a sequence.
LEMMA SpellingIs ==
  ASSUME Typed, NEW u \in 0..(hay.n - 1), NEW w, w = hay.off[u + 1] - hay.off[u]
  PROVE  /\ w \in Nat \ {0}
         /\ Spelling(hay, u) \in Seq(0..255) /\ Len(Spelling(hay, u)) = w
         /\ \A i \in 1..w : Spelling(hay, u)[i] = hay.bytes[hay.off[u] + i - 1]
         /\ w = 1 => Spelling(hay, u) = <<hay.bytes[hay.off[u]]>>
         /\ w = 2 => Spelling(hay, u) = <<hay.bytes[hay.off[u]], hay.bytes[hay.off[u] + 1]>>
<1>1. PICK a \in Nat, b \in Nat : a = hay.off[u] /\ b = hay.off[u + 1]
  BY UnitBytes
<1>2. a < b /\ b <= Bytes(hay) /\ w = b - a /\ Bytes(hay) \in Nat
  BY <1>1, UnitBytes, Scenery
<1>3. w \in Nat \ {0}
  BY <1>1, <1>2
<1>4. Spelling(hay, u) = [i \in 1..w |-> hay.bytes[a + i - 1]]
  BY <1>1, <1>2 DEF Spelling
<1>5. hay.bytes \in [0..(Bytes(hay) - 1) -> 0..255]
  BY Scenery DEF IsSpelled
<1>6. \A i \in 1..w : hay.bytes[a + i - 1] \in 0..255
  <2> TAKE i \in 1..w
  <2>1. a + i - 1 \in 0..(Bytes(hay) - 1)
    BY <1>1, <1>2
  <2> QED BY <1>5, <2>1
<1>7. Spelling(hay, u) \in Seq(0..255) /\ Len(Spelling(hay, u)) = w
  <2> DEFINE g == [i \in 1..w |-> hay.bytes[a + i - 1]]
  <2>1. PICK n \in Nat : n = w
    BY <1>3
  <2>2. g \in [1..n -> 0..255]
    BY <1>6, <2>1
  <2> HIDE DEF g
  <2>3. g \in Seq(0..255)
    BY <2>2
  <2>4. Len(g) = n
    BY <2>2
  <2> QED BY <1>4, <2>1, <2>3, <2>4 DEF g
<1>8. ASSUME w = 1 PROVE Spelling(hay, u) = <<hay.bytes[a]>>
  <2>1. \A i \in 1..1 : a + i - 1 = a
    BY <1>1
  <2>2. [i \in 1..1 |-> hay.bytes[a + i - 1]] = <<hay.bytes[a]>>
    BY <2>1
  <2> QED BY <1>4, <1>8, <2>2
<1>9. ASSUME w = 2 PROVE Spelling(hay, u) = <<hay.bytes[a], hay.bytes[a + 1]>>
  <2>1. a + 1 - 1 = a /\ a + 2 - 1 = a + 1
    BY <1>1
  <2> DEFINE g == [i \in 1..2 |-> hay.bytes[a + i - 1]]
  <2>2. g[1] = hay.bytes[a] /\ g[2] = hay.bytes[a + 1]
    BY <2>1
  <2>3. DOMAIN g = 1..2
    OBVIOUS
  <2>4. g = [i \in 1..2 |-> g[i]]
    OBVIOUS
  <2> HIDE DEF g
  <2>5. [i \in 1..2 |-> g[i]] = <<g[1], g[2]>>
    OBVIOUS
  <2> QED BY <1>4, <1>9, <2>2, <2>4, <2>5 DEF g
<1> QED BY <1>1, <1>3, <1>4, <1>7, <1>8, <1>9

\* Every byte belongs to a unit; where none starts there is a continuation byte.
LEMMA InsideUnit ==
  ASSUME Typed, NEW s \in 0..(Bytes(hay) - 1), \A u \in 0..(hay.n - 1) : hay.off[u] # s
  PROVE  hay.bytes[s] \in Trail
<1> DEFINE Behind == {u \in 0..hay.n : s < hay.off[u]}
<1>0. /\ hay.n \in Nat /\ Bytes(hay) \in Nat /\ Bytes(hay) = hay.off[hay.n] /\ hay.off[0] = 0
      /\ \A u \in 0..hay.n : hay.off[u] \in Nat
  BY Scenery
<1>1. PICK e \in Behind : \A u \in Behind : e <= u
  <2>1. hay.n \in Behind
    BY <1>0
  <2>2. Behind \in SUBSET Nat /\ Behind # {}
    BY <1>0, <2>1
  <2> HIDE DEF Behind
  <2> QED BY <2>2, Least
<1>2. e \in 0..hay.n /\ s < hay.off[e] /\ e # 0
  BY <1>0
<1>3. e - 1 \in 0..(hay.n - 1) /\ e - 1 \in 0..hay.n /\ ~(e <= e - 1) /\ e - 1 + 1 = e
  BY <1>0, <1>2
<1>4. ~(s < hay.off[e - 1])
  BY <1>1, <1>3
<1>5. PICK a \in Nat, b \in Nat : a = hay.off[e - 1] /\ b = hay.off[e]
  BY <1>0, <1>2, <1>3
<1>6. a < s /\ s < b
  <2>1. hay.off[e - 1] # s
    BY <1>3
  <2> QED BY <1>2, <1>4, <1>5, <2>1
<1>7. PICK i \in Nat : i = s - a + 1
  BY <1>5, <1>6
<1>8. PICK w \in Nat : w = b - a
  BY <1>5, <1>6
<1>9. i \in 2..w /\ a + i - 1 = s /\ w > 1 /\ i \in 1..w
  BY <1>5, <1>6, <1>7, <1>8
<1>10. w = hay.off[e - 1 + 1] - hay.off[e - 1]
  BY <1>3, <1>5, <1>8
<1>11. Len(Spelling(hay, e - 1)) = w /\ Spelling(hay, e - 1)[i] = hay.bytes[s]
  <2>1. \A j \in 1..w : Spelling(hay, e - 1)[j] = hay.bytes[hay.off[e - 1] + j - 1]
    BY <1>3, <1>10, SpellingIs
  <2>2. Len(Spelling(hay, e - 1)) = w
    BY <1>3, <1>10, SpellingIs
  <2> QED BY <1>5, <1>9, <2>1, <2>2
<1>12. \A j \in 2..w : Spelling(hay, e - 1)[j] \in Trail
  <2>1. IsSpelled(hay)
    BY Scenery
  <2> QED BY <1>3, <1>9, <1>11, <2>1 DEF IsSpelled
<1> QED BY <1>9, <1>11, <1>12

-----------------------------------------------------------------------------
(***************************************************************************)
(* The raw forms of the tokens.  A form that is there where a unit begins  *)
(* is that unit.                                                           *)
(***************************************************************************)
\* A form that the confirmation by raw bytes takes.
IsPackable(f) == Len(f) = 1 => f[1] \in Ascii

\* What it says that the bytes from s on are a form.
LEMMA HasIs ==
  ASSUME Typed, NEW s \in Int, NEW t \in DOMAIN Forms, NEW f \in Forms[t], U!Has(s, f)
  PROVE  /\ s \in Nat /\ s + Len(f) <= Bytes(hay) /\ s \in 0..(Bytes(hay) - 1)
         /\ hay.bytes[s] = f[1]
         /\ \A i \in DOMAIN f : hay.bytes[s + i - 1] = f[i]
<1>1. s >= 0 /\ s + Len(f) <= Bytes(hay) /\ \A i \in DOMAIN f : hay.bytes[s + i - 1] = f[i]
  BY DEF U!Has, U!Bytes, Bytes
<1>2. Len(f) \in 1..4 /\ DOMAIN f = 1..Len(f)
  BY FormTyped
<1>3. Bytes(hay) \in Nat
  BY Scenery
<1>4. s \in Nat /\ s \in 0..(Bytes(hay) - 1)
  BY <1>1, <1>2, <1>3
<1>5. hay.bytes[s] = f[1]
  <2>1. 1 \in DOMAIN f /\ s + 1 - 1 = s
    BY <1>2
  <2> QED BY <1>1, <2>1
<1> QED BY <1>1, <1>4, <1>5

\* A packable form starts no byte inside a unit.
LEMMA FormStartsUnit ==
  ASSUME Typed, NEW s \in Int, NEW t \in DOMAIN Forms, NEW f \in Forms[t],
         U!Has(s, f), IsPackable(f)
  PROVE  \E u \in 0..hay.n : hay.off[u] = s
<1>1. s \in 0..(Bytes(hay) - 1) /\ hay.bytes[s] = f[1]
  BY HasIs
<1>2. f[1] \notin Trail
  <2>1. CASE Len(f) = 1
    BY <2>1 DEF IsPackable, Ascii, Trail
  <2>2. CASE Len(f) # 1
    <3>1. Len(f) \in 1..4
      BY FormTyped
    <3>2. Len(f) > 1
      BY <2>2, <3>1
    <3>3. f[1] > 191
      BY <3>2, FormTyped
    <3> QED BY <3>3 DEF Trail
  <2> QED BY <2>1, <2>2
<1>3. ~ \A u \in 0..(hay.n - 1) : hay.off[u] # s
  BY <1>1, <1>2, InsideUnit
<1>4. 0..(hay.n - 1) \subseteq 0..hay.n
  BY Scenery
<1> QED BY <1>3, <1>4

\* Where a packable form stands at a unit, the unit is the form's.
LEMMA FormStands ==
  ASSUME Typed, NEW u \in 0..hay.n, NEW t \in DOMAIN Forms, NEW f \in Forms[t],
         U!Has(hay.off[u], f), IsPackable(f)
  PROVE  /\ u \in 0..(hay.n - 1) /\ u + 1 \in 0..hay.n /\ hay.tok[u] = t
         /\ hay.off[u + 1] = hay.off[u] + Len(f)
<1>0. PICK a \in Nat : a = hay.off[u]
  BY Scenery
<1>1. a + Len(f) <= Bytes(hay) /\ a \in 0..(Bytes(hay) - 1) /\ hay.bytes[a] = f[1]
      /\ \A i \in DOMAIN f : hay.bytes[a + i - 1] = f[i]
  BY <1>0, HasIs
<1>2. u \in 0..(hay.n - 1)
  <2>1. hay.off[u] < Bytes(hay)
    BY <1>0, <1>1, Scenery
  <2> QED BY <2>1, OffOrder
<1>3. PICK b \in Nat : b = hay.off[u + 1]
  BY <1>2, UnitBytes
<1>4. u + 1 \in 0..hay.n /\ a < b
  BY <1>0, <1>2, <1>3, UnitBytes
<1>5. PICK w \in Nat : w = b - a
  BY <1>4
<1>6. w = hay.off[u + 1] - hay.off[u]
  BY <1>0, <1>3, <1>5
<1> DEFINE s == Spelling(hay, u)
<1>7. /\ s \in Seq(0..255) /\ Len(s) = w /\ w # 0
      /\ \A i \in 1..w : s[i] = hay.bytes[a + i - 1]
  <2>1. /\ w \in Nat \ {0} /\ s \in Seq(0..255) /\ Len(s) = w
        /\ \A i \in 1..w : s[i] = hay.bytes[hay.off[u] + i - 1]
    BY <1>2, <1>6, SpellingIs
  <2> QED BY <1>0, <2>1
<1>8. IsSpelled(hay) /\ DecodesForms(hay)
  BY Scenery
<1>9. /\ Len(s) > 1 => s[1] > 191
      /\ hay.tok[u] = t <=> s \in Forms[t]
  BY <1>2, <1>8 DEF IsSpelled
<1>10. /\ f \in Seq(0..255) /\ Len(f) \in 1..4 /\ DOMAIN f = 1..Len(f)
       /\ Len(f) > 1 => f[1] > 191
  BY FormTyped
<1> HIDE DEF s
<1>11. w = Len(f)
  <2>1. CASE Len(f) > 1
    <3>1. hay.off[u + 1] = hay.off[u] + Len(f)
      BY <1>0, <1>1, <1>2, <1>8, <2>1 DEF DecodesForms
    <3> QED BY <1>0, <1>3, <1>5, <1>10, <3>1
  <2>2. CASE Len(f) = 1
    <3>1. s[1] = f[1]
      <4>1. 1 \in 1..w /\ a + 1 - 1 = a
        BY <1>7
      <4> QED BY <1>1, <1>7, <4>1
    <3>2. ~(s[1] > 191)
      BY <2>2, <3>1 DEF IsPackable, Ascii
    <3> QED BY <1>7, <1>9, <2>2, <3>2
  <2>3. Len(f) > 1 \/ Len(f) = 1
    <3>1. PICK m \in 1..4 : m = Len(f)
      BY <1>10
    <3>2. m > 1 \/ m = 1
      OBVIOUS
    <3> QED BY <3>1, <3>2
  <2> QED BY <2>1, <2>2, <2>3
<1>12. s = f
  <2>1. \A i \in 1..w : s[i] = f[i]
    BY <1>1, <1>7, <1>10, <1>11
  <2> QED BY <1>7, <1>10, <1>11, <2>1, SeqEqual
<1> QED BY <1>0, <1>2, <1>3, <1>4, <1>5, <1>9, <1>11, <1>12

-----------------------------------------------------------------------------
\* e[k] is where the first k forms end, or -1.
IsChain(s, e) ==
  /\ e \in [0..Len(P) -> Int] /\ e[0] = s
  /\ \A k \in 1..Len(P) :
       e[k] >= 0 => /\ e[k - 1] >= 0
                    /\ \E f \in Forms[P[k]] : /\ IsPackable(f) /\ U!Has(e[k - 1], f)
                                              /\ e[k] = e[k - 1] + Len(f)

Reads(u, k, end) ==
  /\ u + k \in 0..hay.n /\ hay.off[u + k] = end
  /\ \A i \in 1..k : hay.tok[u + i - 1] = P[i]

\* A chain of forms through the haystack reads an occurrence off it.
LEMMA ChainReads ==
  ASSUME Typed, NEW s \in Int, NEW e, IsChain(s, e), e[Len(P)] >= 0
  PROVE  \E u \in 0..hay.n : /\ hay.off[u] = s /\ Occurs(pats, hay, 0, u)
                             /\ hay.off[u + Len(P)] = e[Len(P)]
<1>0. Len(P) \in Nat \ {0} /\ P \in Seq(DOMAIN Forms) /\ hay.n \in Nat
  BY PatternIs, Scenery
<1>1. /\ e \in [0..Len(P) -> Int] /\ e[0] = s
      /\ \A k \in 1..Len(P) :
           e[k] >= 0 => /\ e[k - 1] >= 0
                        /\ \E f \in Forms[P[k]] : /\ IsPackable(f) /\ U!Has(e[k - 1], f)
                                                  /\ e[k] = e[k - 1] + Len(f)
  BY DEF IsChain
<1> DEFINE Good(k) == e[k] >= 0 => \E u \in 0..hay.n : hay.off[u] = s /\ Reads(u, k, e[k])
           Bad == {k \in 1..Len(P) : ~Good(k)}
<1>2. ASSUME NEW k \in 1..Len(P), e[k] >= 0, NEW u \in 0..hay.n, hay.off[u] = s,
             Reads(u, k - 1, e[k - 1])
      PROVE  Reads(u, k, e[k])
  <2>1. PICK f \in Forms[P[k]] : /\ IsPackable(f) /\ U!Has(e[k - 1], f)
                                 /\ e[k] = e[k - 1] + Len(f)
    BY <1>1, <1>2
  <2>2. PICK v \in 0..hay.n : v = u + (k - 1)
    BY <1>2 DEF Reads
  <2>3. hay.off[v] = e[k - 1] /\ \A i \in 1..(k - 1) : hay.tok[u + i - 1] = P[i]
    BY <1>2, <2>2 DEF Reads
  <2>4. P[k] \in DOMAIN Forms
    BY <1>0
  <2>5. /\ v + 1 \in 0..hay.n /\ hay.tok[v] = P[k]
        /\ hay.off[v + 1] = hay.off[v] + Len(f)
    BY <2>1, <2>3, <2>4, FormStands
  <2>6. v + 1 = u + k /\ v = u + k - 1
    BY <1>0, <2>2
  <2>7. ASSUME NEW i \in 1..k PROVE hay.tok[u + i - 1] = P[i]
    <3>1. CASE i = k
      BY <2>5, <2>6, <3>1
    <3>2. CASE i # k
      <4>1. i \in 1..(k - 1)
        BY <1>0, <3>2
      <4> QED BY <2>3, <4>1
    <3> QED BY <3>1, <3>2
  <2> QED BY <2>1, <2>3, <2>5, <2>6, <2>7 DEF Reads
<1>3. Good(1)
  <2> SUFFICES ASSUME e[1] >= 0 PROVE \E u \in 0..hay.n : hay.off[u] = s /\ Reads(u, 1, e[1])
    OBVIOUS
  <2>0. 1 \in 1..Len(P) /\ 1 - 1 = 0
    BY <1>0
  <2>1. PICK f \in Forms[P[1]] : IsPackable(f) /\ U!Has(s, f)
    BY <1>1, <2>0
  <2>2. P[1] \in DOMAIN Forms
    BY <1>0, <2>0
  <2>3. PICK u \in 0..hay.n : hay.off[u] = s
    BY <2>1, <2>2, FormStartsUnit
  <2>4. Reads(u, 0, e[0])
    <3>1. u + 0 = u /\ 1..0 = {}
      BY <1>0
    <3> QED BY <1>1, <2>3, <3>1 DEF Reads
  <2> QED BY <1>2, <2>0, <2>3, <2>4
<1>4. Bad = {}
  <2> SUFFICES ASSUME Bad # {} PROVE FALSE
    OBVIOUS
  <2>1. PICK k \in Bad : \A m \in Bad : k <= m
    <3>1. Bad \in SUBSET Nat
      BY <1>0
    <3> HIDE DEF Bad
    <3> QED BY <3>1, Least
  <2>2. k \in 1..Len(P) /\ ~Good(k)
    OBVIOUS
  <2>3. k # 1
    BY <1>3, <2>2
  <2>4. k - 1 \in 1..Len(P) /\ ~(k <= k - 1)
    BY <1>0, <2>2, <2>3
  <2>5. Good(k - 1)
    <3>1. k - 1 \notin Bad
      BY <2>1, <2>4
    <3> QED BY <2>4, <3>1
  <2>6. Good(k)
    <3> SUFFICES ASSUME e[k] >= 0
                 PROVE  \E u \in 0..hay.n : hay.off[u] = s /\ Reads(u, k, e[k])
      OBVIOUS
    <3>1. PICK u \in 0..hay.n : hay.off[u] = s /\ Reads(u, k - 1, e[k - 1])
      BY <1>1, <2>2, <2>5
    <3> QED BY <1>2, <2>2, <3>1
  <2> QED BY <2>2, <2>6
<1>5. PICK u \in 0..hay.n : hay.off[u] = s /\ Reads(u, Len(P), e[Len(P)])
  <2>1. Len(P) \in 1..Len(P)
    BY <1>0
  <2> HIDE DEF Good
  <2>2. Good(Len(P))
    BY <1>4, <2>1
  <2> QED BY <2>2 DEF Good
<1>6. Occurs(pats, hay, 0, u)
  <2>1. u + Len(P) <= hay.n
    BY <1>0, <1>5 DEF Reads
  <2> QED BY <1>5, <2>1 DEF Reads, Occurs, P
<1> QED BY <1>5, <1>6 DEF Reads

-----------------------------------------------------------------------------
(***************************************************************************)
(* The widths of the spellings, and what the plan adds up of them.         *)
(***************************************************************************)
LEMMA LeastIs ==
  ASSUME NEW S \in SUBSET Nat, S # {}
  PROVE  U!Least(S) \in S /\ \A y \in S : U!Least(S) <= y
BY Least DEF U!Least

\* The largest of the lengths of forms.
LEMMA MostIs ==
  ASSUME NEW S \in SUBSET (1..4), S # {}
  PROVE  U!Most(S) \in S /\ \A y \in S : y <= U!Most(S)
<1> DEFINE Top == \E x \in S : \A y \in S : y <= x
<1>1. 4 \in S => Top
  OBVIOUS
<1>2. 4 \notin S /\ 3 \in S => Top
  OBVIOUS
<1>3. 4 \notin S /\ 3 \notin S /\ 2 \in S => Top
  OBVIOUS
<1>4. ASSUME 4 \notin S, 3 \notin S, 2 \notin S PROVE Top
  <2>1. \A y \in S : y = 1
    BY <1>4
  <2>2. PICK x \in S : TRUE
    OBVIOUS
  <2>3. x = 1 /\ \A y \in S : y <= x
    BY <2>1
  <2> QED BY <2>3
<1>5. Top
  <2> HIDE DEF Top
  <2> QED BY <1>1, <1>2, <1>3, <1>4, Zenon
<1> QED BY <1>5 DEF U!Most

\* The lengths of the forms of a token.
LEMMA LensAre ==
  ASSUME NEW t \in DOMAIN Forms
  PROVE  /\ U!Lens(t) \in SUBSET (1..4) /\ U!Lens(t) # {} /\ U!Lens(t) \in SUBSET Nat
         /\ \A f \in Forms[t] : Len(f) \in U!Lens(t)
<1>1. \A f \in Forms[t] : Len(f) \in 1..4
  BY FormTyped
<1>2. Forms[t] # {}
  BY LiteralAssumption DEF LiteralAssumption
<1>3. U!Lens(t) = {Len(f) : f \in Forms[t]}
  BY DEF U!Lens
<1>4. 1..4 \subseteq Nat
  OBVIOUS
<1>5. U!Lens(t) \subseteq 1..4
  BY <1>1, <1>3
<1> QED BY <1>2, <1>3, <1>4, <1>5, Zenon

\* A unit that is as wide in all its forms.
LEMMA UniformIs ==
  ASSUME NEW t \in DOMAIN Forms, U!Uniform(t), NEW f \in Forms[t]
  PROVE  U!Least(U!Lens(t)) = Len(f) /\ U!Most(U!Lens(t)) = Len(f)
<1>1. U!Lens(t) = {Len(f)}
  BY DEF U!Uniform, U!Lens
<1>2. U!Least(U!Lens(t)) \in U!Lens(t) /\ U!Most(U!Lens(t)) \in U!Lens(t)
  BY LensAre, LeastIs, MostIs
<1> QED BY <1>1, <1>2

\* Cardinality is the same in the instance.
LEMMA SameCardinality ==
  ASSUME NEW S
  PROVE  U!Cardinality(S) = Cardinality(S)
BY Zenon DEF U!Cardinality, Cardinality

IsOffsets(f) ==
  f = [i \in 1..(Len(P) + 1) |-> IF i = 1 THEN 0 ELSE f[i - 1] + U!Least(U!Lens(P[i - 1]))]

\* The least offsets of the units of the pattern: a function, built unit by
\* unit.
LEMMA OffsetsExist ==
  ASSUME Typed
  PROVE  \E f : IsOffsets(f)
<1> DEFINE n == Len(P)
           round == [x \in (1..n) \X Nat |-> x[2] + U!Least(U!Lens(P[x[1]]))]
<1>0. n \in Nat /\ P \in Seq(DOMAIN Forms)
  BY PatternIs
<1>1. round \in [(1..n) \X Nat -> Nat]
  <2>1. ASSUME NEW x \in (1..n) \X Nat PROVE x[2] + U!Least(U!Lens(P[x[1]])) \in Nat
    <3>1. x[1] \in 1..n /\ x[2] \in Nat
      OBVIOUS
    <3>2. P[x[1]] \in DOMAIN Forms
      BY <1>0, <3>1
    <3>3. U!Least(U!Lens(P[x[1]])) \in Nat
      BY <3>2, LensAre, LeastIs
    <3> QED BY <3>1, <3>3
  <2> QED BY <2>1
<1>2. PICK g : IsIteration(Nat, 0, round, n, g)
  <2> HIDE DEF round, n
  <2> QED BY <1>0, <1>1, RunExists
<1>3. g \in [0..n -> Nat] /\ g[0] = 0 /\ \A m \in 1..n : g[m] = round[<<m, g[m - 1]>>]
  BY <1>2 DEF IsIteration
<1> DEFINE f == [i \in 1..(n + 1) |-> g[i - 1]]
<1>4. ASSUME NEW i \in 1..(n + 1)
      PROVE  f[i] = IF i = 1 THEN 0 ELSE f[i - 1] + U!Least(U!Lens(P[i - 1]))
  <2>1. CASE i = 1
    BY <1>0, <1>3, <2>1
  <2>2. CASE i # 1
    <3>1. PICK m \in Nat : m = i - 1
      BY <1>0
    <3>2. m \in 1..n /\ m - 1 \in 0..n /\ m \in 1..(n + 1)
      BY <1>0, <2>2, <3>1
    <3>3. g[m - 1] \in Nat
      BY <1>3, <3>2
    <3>4. round[<<m, g[m - 1]>>] = g[m - 1] + U!Least(U!Lens(P[m]))
      BY <3>2, <3>3
    <3>5. f[i] = g[m] /\ f[m] = g[m - 1]
      BY <3>1, <3>2
    <3> HIDE DEF f, round, n
    <3> QED BY <1>3, <2>2, <3>1, <3>2, <3>4, <3>5
  <2> QED BY <2>1, <2>2
<1>5. f = [i \in 1..(n + 1) |-> f[i]]
  OBVIOUS
<1> HIDE DEF f
<1>6. f = [i \in 1..(n + 1) |-> IF i = 1 THEN 0 ELSE f[i - 1] + U!Least(U!Lens(P[i - 1]))]
  BY <1>4, <1>5, Zenon
<1> QED BY <1>6, Zenon DEF IsOffsets

\* Each least offset is the one before and the shortest form between.
LEMMA OffsetsAre ==
  ASSUME Typed
  PROVE  /\ U!OffsetIn(P, 1) = 0
         /\ \A i \in 1..(Len(P) + 1) : U!OffsetIn(P, i) \in Nat
         /\ \A i \in 1..Len(P) :
              U!OffsetIn(P, i + 1) = U!OffsetIn(P, i) + U!Least(U!Lens(P[i]))
<1> DEFINE f == CHOOSE g : IsOffsets(g)
<1>0. Len(P) \in Nat /\ P \in Seq(DOMAIN Forms)
  BY PatternIs
<1>1. IsOffsets(f)
  BY OffsetsExist
<1>2. \A i : U!OffsetIn(P, i) = f[i]
  BY Zenon DEF U!OffsetIn, U!Offsets, IsOffsets
<1> HIDE DEF f
<1>3. \A i \in 1..(Len(P) + 1) :
        f[i] = IF i = 1 THEN 0 ELSE f[i - 1] + U!Least(U!Lens(P[i - 1]))
  BY <1>1 DEF IsOffsets
<1>4. f[1] = 0
  BY <1>0, <1>3
<1>5. ASSUME NEW i \in 1..Len(P)
      PROVE  f[i + 1] = f[i] + U!Least(U!Lens(P[i])) /\ U!Least(U!Lens(P[i])) \in Nat
  <2>1. i + 1 \in 1..(Len(P) + 1) /\ i + 1 # 1 /\ i + 1 - 1 = i
    BY <1>0
  <2>2. P[i] \in DOMAIN Forms
    BY <1>0
  <2> QED BY <1>3, <2>1, <2>2, LensAre, LeastIs
<1> DEFINE Bad == {i \in 1..(Len(P) + 1) : f[i] \notin Nat}
<1>6. Bad = {}
  <2> SUFFICES ASSUME Bad # {} PROVE FALSE
    OBVIOUS
  <2>1. PICK i \in Bad : \A m \in Bad : i <= m
    <3>1. Bad \in SUBSET Nat
      BY <1>0
    <3> HIDE DEF Bad
    <3> QED BY <3>1, Least
  <2>2. i # 1 /\ i \in 1..(Len(P) + 1) /\ f[i] \notin Nat
    BY <1>4
  <2>3. PICK j \in Nat : j = i - 1
    BY <1>0, <2>2
  <2>4. j \in 1..Len(P) /\ j \in 1..(Len(P) + 1) /\ ~(i <= j) /\ i = j + 1
    BY <1>0, <2>2, <2>3
  <2>5. f[j] \in Nat
    BY <2>1, <2>4
  <2> QED BY <1>5, <2>2, <2>4, <2>5
<1> QED BY <1>2, <1>4, <1>5, <1>6

IsWide(f) ==
  f = [i \in 0..Len(P) |-> IF i = 0 THEN 0 ELSE f[i - 1] + U!Most(U!Lens(P[i]))]

\* The number of units of more than one width, likewise.
LEMMA WideExists ==
  ASSUME Typed
  PROVE  \E f : IsWide(f)
<1> DEFINE n == Len(P)
           round == [x \in (1..n) \X Nat |-> x[2] + U!Most(U!Lens(P[x[1]]))]
<1>0. n \in Nat /\ P \in Seq(DOMAIN Forms)
  BY PatternIs
<1>1. round \in [(1..n) \X Nat -> Nat]
  <2>1. ASSUME NEW x \in (1..n) \X Nat PROVE x[2] + U!Most(U!Lens(P[x[1]])) \in Nat
    <3>1. x[1] \in 1..n /\ x[2] \in Nat
      OBVIOUS
    <3>2. P[x[1]] \in DOMAIN Forms
      BY <1>0, <3>1
    <3>3. U!Most(U!Lens(P[x[1]])) \in Nat
      BY <3>2, LensAre, MostIs
    <3> QED BY <3>1, <3>3
  <2> QED BY <2>1
<1>2. PICK g : IsIteration(Nat, 0, round, n, g)
  <2> HIDE DEF round, n
  <2> QED BY <1>0, <1>1, RunExists
<1>3. g \in [0..n -> Nat] /\ g[0] = 0 /\ \A m \in 1..n : g[m] = round[<<m, g[m - 1]>>]
  BY <1>2 DEF IsIteration
<1>4. ASSUME NEW i \in 0..n
      PROVE  g[i] = IF i = 0 THEN 0 ELSE g[i - 1] + U!Most(U!Lens(P[i]))
  <2>1. CASE i = 0
    BY <1>3, <2>1
  <2>2. CASE i # 0
    <3>1. i \in 1..n /\ i - 1 \in 0..n
      BY <1>0, <2>2
    <3>2. g[i - 1] \in Nat
      BY <1>3, <3>1
    <3>3. round[<<i, g[i - 1]>>] = g[i - 1] + U!Most(U!Lens(P[i]))
      BY <3>1, <3>2
    <3> HIDE DEF round, n
    <3> QED BY <1>3, <2>2, <3>1, <3>3
  <2> QED BY <2>1, <2>2
<1>5. g = [i \in 0..n |-> g[i]]
  BY <1>3
<1>6. g = [i \in 0..n |-> IF i = 0 THEN 0 ELSE g[i - 1] + U!Most(U!Lens(P[i]))]
  BY <1>4, <1>5, Zenon
<1> QED BY <1>6, Zenon DEF IsWide

\* The length of the widest match: that of every match if no width varies.
LEMMA MaxLengthIs ==
  ASSUME Typed
  PROVE  /\ U!MaxLength \in Nat
         /\ (\A i \in 1..Len(P) : U!Uniform(P[i])) => U!MaxLength = U!OffsetIn(P, Len(P) + 1)
<1> DEFINE f == CHOOSE g : IsWide(g)
<1>0. Len(P) \in Nat /\ P \in Seq(DOMAIN Forms) /\ U!Pattern = P
  BY PatternIs
<1>1. IsWide(f)
  BY WideExists
<1>2. U!MaxLength = f[Len(P)]
  BY <1>0, Zenon DEF U!MaxLength, IsWide
<1> HIDE DEF f
<1>3. \A i \in 0..Len(P) : f[i] = IF i = 0 THEN 0 ELSE f[i - 1] + U!Most(U!Lens(P[i]))
  BY <1>1 DEF IsWide
<1> DEFINE Right(i) == /\ f[i] \in Nat
                       /\ (\A j \in 1..Len(P) : U!Uniform(P[j])) => f[i] = U!OffsetIn(P, i + 1)
           Bad == {i \in 0..Len(P) : ~Right(i)}
<1>4. Right(0)
  <2>1. f[0] = 0 /\ 0 + 1 = 1
    BY <1>0, <1>3
  <2> QED BY <2>1, OffsetsAre
<1>5. ASSUME NEW i \in 1..Len(P), Right(i - 1) PROVE Right(i)
  <2>1. i \in 0..Len(P) /\ i # 0 /\ i - 1 + 1 = i
    BY <1>0
  <2>2. f[i] = f[i - 1] + U!Most(U!Lens(P[i]))
    BY <1>3, <2>1
  <2>3. P[i] \in DOMAIN Forms
    BY <1>0
  <2>4. U!Most(U!Lens(P[i])) \in Nat
    BY <2>3, LensAre, MostIs
  <2>5. ASSUME \A j \in 1..Len(P) : U!Uniform(P[j])
        PROVE  f[i] = U!OffsetIn(P, i + 1)
    <3>1. f[i - 1] = U!OffsetIn(P, i)
      BY <1>5, <2>1, <2>5
    <3>2. U!OffsetIn(P, i + 1) = U!OffsetIn(P, i) + U!Least(U!Lens(P[i]))
      BY OffsetsAre
    <3>3. PICK g \in Forms[P[i]] : TRUE
      BY <2>3, LiteralAssumption DEF LiteralAssumption
    <3>4. U!Least(U!Lens(P[i])) = U!Most(U!Lens(P[i]))
      BY <2>3, <2>5, UniformIs
    <3> QED BY <2>2, <3>1, <3>2, <3>4
  <2> QED BY <1>5, <2>2, <2>4, <2>5
<1>6. Bad = {}
  <2> SUFFICES ASSUME Bad # {} PROVE FALSE
    OBVIOUS
  <2>1. PICK i \in Bad : \A m \in Bad : i <= m
    <3>1. Bad \in SUBSET Nat
      BY <1>0
    <3> HIDE DEF Bad
    <3> QED BY <3>1, Least
  <2>2. i # 0 /\ i \in 0..Len(P) /\ ~Right(i)
    BY <1>4
  <2>3. i \in 1..Len(P) /\ i - 1 \in 0..Len(P) /\ ~(i <= i - 1)
    BY <1>0, <2>2
  <2>4. Right(i - 1)
    <3>1. i - 1 \notin Bad
      BY <2>1, <2>3
    <3> QED BY <2>3, <3>1
  <2> QED BY <1>5, <2>2, <2>3, <2>4
<1>7. Right(Len(P))
  <2>1. Len(P) \in 0..Len(P)
    BY <1>0
  <2> HIDE DEF Right
  <2> QED BY <1>6, <2>1
<1> QED BY <1>2, <1>7

-----------------------------------------------------------------------------
(***************************************************************************)
(* The confirmation by raw forms: where it succeeds a match begins, and    *)
(* it knows how wide it is.                                                *)
(***************************************************************************)
Fits(from, i) == {f \in Forms[P[i]] : from >= 0 /\ U!Has(from, f)}

EndStep(from, i) ==
  IF Fits(from, i) = {} THEN -1 ELSE from + Len(CHOOSE f \in Fits(from, i) : TRUE)

IsEnds(s, e) == e = [i \in 0..Len(P) |-> IF i = 0 THEN s ELSE EndStep(e[i - 1], i)]

\* One unit of the confirmation ends at a byte, or fails.
LEMMA EndStepTyped ==
  ASSUME Typed, NEW from \in Int, NEW i \in 1..Len(P)
  PROVE  EndStep(from, i) \in Int
<1>1. P[i] \in DOMAIN Forms
  BY PatternIs
<1>2. CASE Fits(from, i) = {}
  BY <1>2 DEF EndStep
<1>3. CASE Fits(from, i) # {}
  <2>1. PICK f : f = CHOOSE g \in Fits(from, i) : TRUE
    OBVIOUS
  <2>2. f \in Forms[P[i]]
    BY <1>3, <2>1 DEF Fits
  <2>3. Len(f) \in 1..4
    BY <1>1, <2>2, FormTyped
  <2>4. EndStep(from, i) = from + Len(f)
    BY <1>3, <2>1 DEF EndStep
  <2> QED BY <2>3, <2>4
<1> QED BY <1>2, <1>3

\* The ends of the units from byte s on, as the confirmation reads them.
LEMMA EndsExist ==
  ASSUME Typed, NEW s \in Int
  PROVE  \E e : IsEnds(s, e)
<1> DEFINE n == Len(P)
           round == [x \in (1..n) \X Int |-> EndStep(x[2], x[1])]
<1>0. n \in Nat
  BY PatternIs
<1>1. round \in [(1..n) \X Int -> Int]
  <2>1. ASSUME NEW x \in (1..n) \X Int PROVE EndStep(x[2], x[1]) \in Int
    <3>1. x[1] \in 1..n /\ x[2] \in Int
      OBVIOUS
    <3> QED BY <3>1, EndStepTyped
  <2> QED BY <2>1
<1>2. PICK g : IsIteration(Int, s, round, n, g)
  <2> HIDE DEF round, n
  <2> QED BY <1>0, <1>1, RunExists
<1>3. g \in [0..n -> Int] /\ g[0] = s /\ \A m \in 1..n : g[m] = round[<<m, g[m - 1]>>]
  BY <1>2 DEF IsIteration
<1>4. ASSUME NEW i \in 0..n PROVE g[i] = IF i = 0 THEN s ELSE EndStep(g[i - 1], i)
  <2>1. CASE i = 0
    BY <1>3, <2>1
  <2>2. CASE i # 0
    <3>1. i \in 1..n /\ i - 1 \in 0..n
      BY <1>0, <2>2
    <3>2. g[i - 1] \in Int
      BY <1>3, <3>1
    <3>3. round[<<i, g[i - 1]>>] = EndStep(g[i - 1], i)
      BY <3>1, <3>2
    <3> HIDE DEF round, n
    <3> QED BY <1>3, <2>2, <3>1, <3>3
  <2> QED BY <2>1, <2>2
<1>5. g = [i \in 0..n |-> g[i]]
  BY <1>3
<1>6. g = [i \in 0..n |-> IF i = 0 THEN s ELSE EndStep(g[i - 1], i)]
  BY <1>4, <1>5, Zenon
<1> QED BY <1>6, Zenon DEF IsEnds

\* What makeUnicodePairConfirm packs.
LEMMA PackableIs ==
  ASSUME Typed, confirm # "none"
  PROVE  /\ confirm \in {"fixed", "variable"} /\ U!IsPairPair
         /\ \A i \in 1..Len(P) : \A f \in Forms[P[i]] : IsPackable(f)
         /\ confirm = "fixed" => \A i \in 1..Len(P) : U!Uniform(P[i])
<1>0. U!Pattern = P /\ P \in Seq(DOMAIN Forms) /\ confirm = U!ConfirmOf(P)
  BY PatternIs DEF Typed, U!PlanInit
<1>1. U!IsPairPair /\ U!Packable(P) /\ confirm \in {"fixed", "variable"}
  BY <1>0 DEF U!ConfirmOf
<1>2. DOMAIN P = 1..Len(P) /\ U!Ascii = Ascii
  BY <1>0 DEF U!Ascii, Ascii
<1>3. \A i \in 1..Len(P) : \A f \in Forms[P[i]] : IsPackable(f)
  BY <1>1, <1>2 DEF U!Packable, IsPackable
<1>4. confirm = "fixed" => \A i \in 1..Len(P) : U!Uniform(P[i])
  BY <1>0, <1>1, <1>2 DEF U!ConfirmOf
<1> QED BY <1>1, <1>3, <1>4

\* matchWidthAt: where it does not fail there is an occurrence, which ends
\* there.
LEMMA EndFromReads ==
  ASSUME Typed, confirm # "none", NEW s \in Int, U!EndFrom(s) >= 0
  PROVE  \E u \in 0..hay.n : /\ hay.off[u] = s /\ Occurs(pats, hay, 0, u)
                             /\ hay.off[u + Len(P)] = U!EndFrom(s)
<1> DEFINE e == CHOOSE g : IsEnds(s, g)
<1>0. Len(P) \in Nat \ {0} /\ U!Pattern = P
  BY PatternIs
<1>1. IsEnds(s, e)
  BY EndsExist
<1>2. U!EndFrom(s) = e[Len(P)]
  BY Zenon DEF U!EndFrom, IsEnds, EndStep, Fits, U!Pattern, P
<1> HIDE DEF e
<1>3. \A i \in 0..Len(P) : e[i] = IF i = 0 THEN s ELSE EndStep(e[i - 1], i)
  BY <1>1 DEF IsEnds
<1>4. e[0] = s
  BY <1>0, <1>3
<1>5. \A i \in 1..Len(P) : e[i] = EndStep(e[i - 1], i)
  BY <1>0, <1>3
<1>6. e \in [0..Len(P) -> Int]
  <2> DEFINE Bad == {i \in 0..Len(P) : e[i] \notin Int}
  <2>1. Bad = {}
    <3> SUFFICES ASSUME Bad # {} PROVE FALSE
      OBVIOUS
    <3>1. PICK i \in Bad : \A m \in Bad : i <= m
      <4>1. Bad \in SUBSET Nat
        BY <1>0
      <4> HIDE DEF Bad
      <4> QED BY <4>1, Least
    <3>2. i # 0 /\ i \in 0..Len(P) /\ e[i] \notin Int
      BY <1>4
    <3>3. i \in 1..Len(P) /\ i - 1 \in 0..Len(P) /\ ~(i <= i - 1)
      BY <1>0, <3>2
    <3>4. e[i - 1] \in Int
      BY <3>1, <3>3
    <3> QED BY <1>5, <3>2, <3>3, <3>4, EndStepTyped
  <2>2. \A i \in 0..Len(P) : e[i] \in Int
    BY <2>1
  <2>3. e = [i \in 0..Len(P) |-> e[i]]
    BY <1>1 DEF IsEnds
  <2> QED BY <2>2, <2>3
<1>7. IsChain(s, e)
  <2>1. ASSUME NEW k \in 1..Len(P), e[k] >= 0
        PROVE  /\ e[k - 1] >= 0
               /\ \E f \in Forms[P[k]] : /\ IsPackable(f) /\ U!Has(e[k - 1], f)
                                         /\ e[k] = e[k - 1] + Len(f)
    <3>1. Fits(e[k - 1], k) # {}
      <4>1. EndStep(e[k - 1], k) >= 0
        BY <1>5, <2>1
      <4> QED BY <4>1 DEF EndStep
    <3>2. PICK f : f = CHOOSE g \in Fits(e[k - 1], k) : TRUE
      OBVIOUS
    <3>3. f \in Forms[P[k]] /\ e[k - 1] >= 0 /\ U!Has(e[k - 1], f)
      BY <3>1, <3>2 DEF Fits
    <3>4. e[k] = e[k - 1] + Len(f)
      BY <1>5, <3>1, <3>2 DEF EndStep
    <3> QED BY <2>1, <3>3, <3>4, PackableIs
  <2> QED BY <1>4, <1>6, <2>1 DEF IsChain
<1> QED BY <1>2, <1>7, ChainReads

\* The confirmation of units of one width each, likewise.
LEMMA FixedFormsRead ==
  ASSUME Typed, confirm = "fixed", NEW s \in Nat, U!FixedFormsAt(s)
  PROVE  \E u \in 0..hay.n : /\ hay.off[u] = s /\ Occurs(pats, hay, 0, u)
                             /\ hay.off[u + Len(P)] = s + U!MaxLength
<1> DEFINE e == [k \in 0..Len(P) |-> s + U!OffsetIn(P, k + 1)]
<1>0. Len(P) \in Nat \ {0} /\ U!Pattern = P /\ P \in Seq(DOMAIN Forms) /\ DOMAIN P = 1..Len(P)
  BY PatternIs
<1>1. \A k \in 0..Len(P) : U!OffsetIn(P, k + 1) \in Nat
  BY <1>0, OffsetsAre
<1>2. e \in [0..Len(P) -> Int] /\ \A k \in 0..Len(P) : e[k] >= 0
  BY <1>1
<1>3. e[0] = s
  <2>1. 0 \in 0..Len(P) /\ 0 + 1 = 1 /\ U!OffsetIn(P, 1) = 0
    BY <1>0, OffsetsAre
  <2> QED BY <2>1
<1>4. ASSUME NEW k \in 1..Len(P)
      PROVE  \E f \in Forms[P[k]] : /\ IsPackable(f) /\ U!Has(e[k - 1], f)
                                    /\ e[k] = e[k - 1] + Len(f)
  <2>1. PICK f \in Forms[P[k]] : U!Has(s + U!OffsetIn(P, k), f)
    BY <1>0 DEF U!FixedFormsAt
  <2>2. k - 1 \in 0..Len(P) /\ k \in 0..Len(P) /\ k - 1 + 1 = k
    BY <1>0
  <2>3. e[k - 1] = s + U!OffsetIn(P, k) /\ e[k] = s + U!OffsetIn(P, k + 1)
    BY <2>2
  <2>4. P[k] \in DOMAIN Forms /\ U!Uniform(P[k]) /\ IsPackable(f)
    BY <1>0, PackableIs
  <2>5. U!OffsetIn(P, k + 1) = U!OffsetIn(P, k) + Len(f)
    BY <2>4, OffsetsAre, UniformIs
  <2>6. U!OffsetIn(P, k) \in Nat /\ Len(f) \in Nat
    <3>1. U!OffsetIn(P, k) \in Nat
      BY <1>1, <2>2
    <3>2. Len(f) \in 1..4
      BY <2>4, FormTyped
    <3> QED BY <3>1, <3>2
  <2> HIDE DEF e
  <2> QED BY <2>1, <2>3, <2>4, <2>5, <2>6
<1>5. e[Len(P)] = s + U!MaxLength
  <2>1. U!MaxLength = U!OffsetIn(P, Len(P) + 1)
    BY PackableIs, MaxLengthIs
  <2>2. Len(P) \in 0..Len(P)
    BY <1>0
  <2> QED BY <2>1, <2>2
<1>6. IsChain(s, e) /\ e[Len(P)] >= 0
  <2> HIDE DEF e
  <2>1. \A k \in 1..Len(P) : k - 1 \in 0..Len(P)
    BY <1>0
  <2>2. \A k \in 1..Len(P) : e[k - 1] >= 0
    BY <1>2, <2>1
  <2>3. Len(P) \in 0..Len(P)
    BY <1>0
  <2> QED BY <1>2, <1>3, <1>4, <2>2, <2>3 DEF IsChain
<1> HIDE DEF e
<1> QED BY <1>5, <1>6, ChainReads

\* Where the forms are, the pattern occurs, and as wide as it is said to be.
IsMatch(s, w) ==
  \E u \in 0..hay.n :
    hay.off[u] = s /\ Occurs(pats, hay, 0, u) /\ hay.off[u + Len(P)] = s + w

\* What a confirmation accepts is a match, with its width.
LEMMA FormsAreMatch ==
  ASSUME Typed, confirm # "none", NEW s \in Int, U!FormsAt(s)
  PROVE  IsMatch(s, U!WidthAt(s))
<1>1. s \in Nat
  BY DEF U!FormsAt
<1>2. CASE confirm = "fixed"
  <2>1. U!FixedFormsAt(s) /\ U!WidthAt(s) = U!MaxLength
    BY <1>2 DEF U!FormsAt, U!WidthAt
  <2> QED BY <1>1, <1>2, <2>1, FixedFormsRead DEF IsMatch
<1>3. CASE confirm # "fixed"
  <2>1. U!EndFrom(s) >= 0 /\ U!WidthAt(s) = U!EndFrom(s) - s
    BY <1>3 DEF U!FormsAt, U!WidthAt
  <2>2. PICK u \in 0..hay.n : /\ hay.off[u] = s /\ Occurs(pats, hay, 0, u)
                              /\ hay.off[u + Len(P)] = U!EndFrom(s)
    BY <2>1, EndFromReads
  <2>3. U!EndFrom(s) \in Nat
    <3>1. u + Len(P) \in 0..hay.n
      BY <2>2, PatternIs, Scenery DEF Occurs, P
    <3> QED BY <2>2, <3>1, Scenery
  <2>4. U!EndFrom(s) = s + U!WidthAt(s)
    BY <2>1, <2>3
  <2> QED BY <2>2, <2>4 DEF IsMatch
<1> QED BY <1>2, <1>3

-----------------------------------------------------------------------------
(***************************************************************************)
(* The instances speak of the same things.                                 *)
(***************************************************************************)
LEMMA SharedVocabulary ==
  /\ \A h : L!Bytes(h) = Bytes(h) /\ U!Bytes(h) = Bytes(h)
  /\ \A h, s : L!UnitAt(h, s) = UnitAt(h, s)
  /\ \A p, h, id, u : /\ L!Occurs(p, h, id, u) <=> Occurs(p, h, id, u)
                      /\ U!Occurs(p, h, id, u) <=> Occurs(p, h, id, u)
  /\ L!Ascii = Ascii /\ U!Ascii = Ascii /\ L!NoMatch = NoMatch /\ U!NoMatch = NoMatch
  /\ \A b : (L!IsLetter(b) <=> IsLetter(b)) /\ L!Lower(b) = Lower(b)
<1>1. \A h : L!Bytes(h) = Bytes(h) /\ U!Bytes(h) = Bytes(h)
  BY DEF L!Bytes, U!Bytes, Bytes
<1>2. \A h, s : L!UnitAt(h, s) = UnitAt(h, s)
  BY DEF L!UnitAt, UnitAt
<1>3. \A p, h, id, u : /\ L!Occurs(p, h, id, u) <=> Occurs(p, h, id, u)
                       /\ U!Occurs(p, h, id, u) <=> Occurs(p, h, id, u)
  BY DEF L!Occurs, U!Occurs, Occurs
<1>4. L!Ascii = Ascii /\ U!Ascii = Ascii /\ L!NoMatch = NoMatch /\ U!NoMatch = NoMatch
  BY DEF L!Ascii, U!Ascii, Ascii, L!NoMatch, U!NoMatch, NoMatch
<1>5. \A b : (L!IsLetter(b) <=> IsLetter(b)) /\ L!Lower(b) = Lower(b)
  BY DEF L!IsLetter, IsLetter, L!Lower, Lower
<1> QED BY <1>1, <1>2, <1>3, <1>4, <1>5

\* What the instance calls by the same names is the same.
LEMMA LiteralVocabulary ==
  /\ \A i : (L!InAscii(i) <=> InAscii(i)) /\ (L!Fixed(i) <=> Fixed(i))
  /\ \A i, j : L!IsStretch(i, j) <=> IsStretch(i, j)
  /\ (L!AsciiOnly <=> AsciiOnly) /\ (L!IsRun <=> IsRun) /\ (L!HasPair <=> HasPair)
  /\ L!Probes = Probes /\ (L!VerifyTokens <=> VerifyTokens) /\ (L!OnlyLong <=> OnlyLong)
  /\ \A b, i : L!ByteIs(b, i) <=> ByteIs(b, i)
  /\ \A s, o : L!BytesAt(s, o) <=> BytesAt(s, o)
  /\ \A s, p : (L!ProbeAt(s, p) <=> ProbeAt(s, p)) /\ L!StartAt(s, p) = StartAt(s, p)
  /\ \A s : (L!PatternAt(s) <=> PatternAt(s)) /\ (L!AnchorMatches(s) <=> AnchorMatches(s))
  /\ \A p : L!ProbeLimit(p) = ProbeLimit(p)
<1>1. \A i : (L!InAscii(i) <=> InAscii(i))
  BY DEF L!InAscii, InAscii, L!Ascii, Ascii
<1>2. \A f : L!TokenOf(f) = TokenOf(f)
  BY DEF L!TokenOf, TokenOf
<1>3. \A i : L!Fixed(i) <=> Fixed(i)
  BY <1>1, <1>2 DEF L!Fixed, Fixed
<1>4. \A i, j : L!IsStretch(i, j) <=> IsStretch(i, j)
  BY <1>3 DEF L!IsStretch, IsStretch
<1>5. L!AsciiOnly <=> AsciiOnly
  BY <1>1 DEF L!AsciiOnly, AsciiOnly
<1>6. L!OnlyLong <=> OnlyLong
  BY SharedVocabulary DEF L!OnlyLong, OnlyLong
<1>7. L!IsRun <=> IsRun
  BY SharedVocabulary DEF L!IsRun, IsRun, L!SameByte, SameByte
<1>8. L!HasPair <=> HasPair
  BY <1>7 DEF L!HasPair, HasPair
<1>9. L!Interior = Interior
  BY <1>4, <1>5 DEF L!Interior, Interior
<1>10. L!Probes = Probes
  BY <1>7, <1>9 DEF L!Probes, Probes
<1>11. L!VerifyTokens <=> VerifyTokens
  BY DEF L!VerifyTokens, VerifyTokens
<1>12. \A b, i : L!ByteIs(b, i) <=> ByteIs(b, i)
  BY SharedVocabulary DEF L!ByteIs, ByteIs
<1>13. \A s, o : L!BytesAt(s, o) <=> BytesAt(s, o)
  BY <1>12, SharedVocabulary DEF L!BytesAt, BytesAt
<1>14. \A s, p : L!ProbeAt(s, p) <=> ProbeAt(s, p)
  BY <1>13 DEF L!ProbeAt, ProbeAt
<1>15. \A s : L!PatternAt(s) <=> PatternAt(s)
  BY <1>13 DEF L!PatternAt, PatternAt
<1>16. \A s : L!AnchorMatches(s) <=> AnchorMatches(s)
  BY <1>11, <1>15, SharedVocabulary
    DEF L!AnchorMatches, AnchorMatches, L!MatchesSingleAt, MatchesSingleAt
<1>17. \A w, k : L!Recover(w, k) = Recover(w, k)
  BY SharedVocabulary DEF L!Recover, Recover, L!Malformed, Malformed
<1>18. \A s, p : L!StartAt(s, p) = StartAt(s, p)
  BY <1>14, <1>17 DEF L!StartAt, StartAt
<1>19. \A p : L!ProbeLimit(p) = ProbeLimit(p)
  BY <1>11, SharedVocabulary DEF L!ProbeLimit, ProbeLimit
<1> QED BY <1>1, <1>3, <1>4, <1>5, <1>6, <1>7, <1>8, <1>10, <1>11, <1>12, <1>13, <1>14,
           <1>15, <1>16, <1>18, <1>19

-----------------------------------------------------------------------------
(***************************************************************************)
(* The bytes of a literal in the haystack.                                 *)
(***************************************************************************)
LEMMA OccurrenceUnits ==
  ASSUME Typed, NEW u \in 0..hay.n, Occurs(pats, hay, 0, u)
  PROVE  /\ u + Len(P) \in 0..hay.n
         /\ \A i \in 0..Len(P) : u + i \in 0..hay.n /\ hay.off[u + i] \in Nat
                                 /\ hay.off[u + i] <= Bytes(hay)
         /\ \A i \in 1..Len(P) :
              /\ u + i - 1 \in 0..(hay.n - 1) /\ u + i - 1 + 1 = u + i
              /\ hay.tok[u + i - 1] = P[i]
              /\ Spelling(hay, u + i - 1) \in Forms[P[i]]
              /\ hay.off[u + i] = hay.off[u + i - 1] + Len(Spelling(hay, u + i - 1))
<1>0. Len(P) \in Nat \ {0} /\ hay.n \in Nat /\ P \in Seq(DOMAIN Forms)
  BY PatternIs, Scenery
<1>1. u + Len(P) <= hay.n /\ \A i \in 1..Len(P) : hay.tok[u + i - 1] = P[i]
  BY DEF Occurs, P
<1>2. \A i \in 0..Len(P) : u + i \in 0..hay.n
  BY <1>0, <1>1
<1>3. \A i \in 0..Len(P) : hay.off[u + i] \in Nat /\ hay.off[u + i] <= Bytes(hay)
  BY <1>2, Scenery
<1>4. ASSUME NEW i \in 1..Len(P)
      PROVE  /\ u + i - 1 \in 0..(hay.n - 1) /\ u + i - 1 + 1 = u + i
             /\ hay.tok[u + i - 1] = P[i]
             /\ Spelling(hay, u + i - 1) \in Forms[P[i]]
             /\ hay.off[u + i] = hay.off[u + i - 1] + Len(Spelling(hay, u + i - 1))
  <2>1. u + i - 1 \in 0..(hay.n - 1) /\ u + i - 1 + 1 = u + i
    BY <1>0, <1>1
  <2>2. PICK v \in 0..(hay.n - 1) : v = u + i - 1
    BY <2>1
  <2>3. hay.tok[v] = P[i] /\ P[i] \in DOMAIN Forms /\ v + 1 = u + i
    BY <1>0, <1>1, <2>1, <2>2
  <2>4. Spelling(hay, v) \in Forms[P[i]]
    <3>1. IsSpelled(hay)
      BY Scenery
    <3> QED BY <2>3, <3>1 DEF IsSpelled
  <2>5. PICK a \in Nat, b \in Nat : a = hay.off[v] /\ b = hay.off[v + 1]
    BY UnitBytes
  <2>6. Len(Spelling(hay, v)) = b - a
    BY <2>5, SpellingIs
  <2>7. hay.off[v + 1] = hay.off[v] + Len(Spelling(hay, v))
    BY <2>5, <2>6
  <2> QED BY <2>1, <2>2, <2>3, <2>4, <2>7
<1>5. u + Len(P) \in 0..hay.n
  BY <1>0, <1>1
<1> QED BY <1>2, <1>3, <1>4, <1>5

\* A form of one byte.
LEMMA OneByte ==
  ASSUME NEW t \in DOMAIN Forms, NEW f \in Forms[t], Len(f) = 1
  PROVE  f = <<f[1]>> /\ f[1] \in 0..255
<1>1. f \in Seq(0..255)
  BY FormTyped
<1>2. f[1] \in 0..255
  <2>1. f \in [1..Len(f) -> 0..255]
    BY <1>1, LenProperties
  <2>2. 1 \in 1..Len(f)
    OBVIOUS
  <2> QED BY <2>1, <2>2
<1>3. f = <<f[1]>>
  BY <1>1
<1> QED BY <1>2, <1>3

\* What the pattern spells in ASCII.
LEMMA AsciiFormIs ==
  ASSUME Typed, NEW i \in 1..Len(P), InAscii(i)
  PROVE  /\ \A c \in Ascii : <<c>> \in Forms[P[i]] <=> ByteIs(c, i - 1)
         /\ \A f \in Forms[P[i]] : Len(f) = 1 => f[1] \in Ascii
<1>0. P[i] \in DOMAIN Forms /\ needle[i] \in Forms[P[i]] /\ Len(P) \in Nat
  BY PatternIs
<1>1. Len(needle[i]) = 1 /\ needle[i][1] \in Ascii
  BY DEF InAscii
<1>2. needle[i] = <<needle[i][1]>>
  BY <1>0, <1>1, OneByte
<1>3. PICK b \in Ascii : b = needle[i][1] /\ <<b>> \in Forms[P[i]]
  BY <1>0, <1>1, <1>2
<1>4. i - 1 + 1 = i
  BY <1>0
<1>5. ASSUME NEW c \in Ascii
      PROVE  <<c>> \in Forms[P[i]] <=> ByteIs(c, i - 1)
  <2>1. <<c>> \in Forms[P[i]] <=> IF IsLetter(b) THEN Lower(c) = Lower(b) ELSE c = b
    BY <1>0, <1>3, LiteralAssumption DEF LiteralAssumption
  <2>2. ByteIs(c, i - 1) <=> IF IsLetter(b) THEN Lower(c) = Lower(b) ELSE c = b
    BY <1>3, <1>4 DEF ByteIs
  <2> QED BY <2>1, <2>2
<1>6. ASSUME NEW f \in Forms[P[i]], Len(f) = 1, f[1] \notin Ascii
      PROVE  FALSE
  <2>1. Forms[P[i]] = {f}
    BY <1>0, <1>6, LiteralAssumption DEF LiteralAssumption
  <2>2. f = needle[i]
    BY <1>0, <2>1
  <2> QED BY <1>1, <1>6, <2>2
<1> QED BY <1>5, <1>6

\* A byte that equals a fixed byte of the pattern is ASCII.
LEMMA ByteIsAscii ==
  ASSUME Typed, NEW i \in 1..Len(P), InAscii(i), NEW b \in 0..255, ByteIs(b, i - 1)
  PROVE  b \in Ascii
<1>1. i - 1 + 1 = i
  BY PatternIs
<1>2. PICK w \in Ascii : w = needle[i][1]
  BY DEF InAscii
<1>3. IF IsLetter(w) THEN Lower(b) = Lower(w) ELSE b = w
  BY <1>1, <1>2 DEF ByteIs
<1>4. CASE ~IsLetter(w)
  BY <1>3, <1>4
<1>5. CASE IsLetter(w)
  <2>1. Lower(w) < 128
    <3>1. CASE w \in 65..90
      <4>1. w \div 32 = 2
        BY <3>1
      <4>2. Lower(w) = w + 32
        BY <4>1 DEF Lower
      <4> QED BY <3>1, <4>2
    <3>2. CASE w \in 97..122
      <4>1. w \div 32 = 3
        BY <3>2
      <4>2. Lower(w) = w
        BY <4>1 DEF Lower
      <4> QED BY <3>2, <4>2
    <3> QED BY <1>5, <3>1, <3>2 DEF IsLetter
  <2>2. b <= Lower(b) /\ Lower(b) \in Nat
    BY DEF Lower
  <2>3. PICK c \in Nat : c = Lower(b)
    BY <2>2
  <2>4. c < 128 /\ b <= c
    BY <1>3, <1>5, <2>1, <2>2, <2>3
  <2> QED BY <2>4 DEF Ascii
<1> QED BY <1>4, <1>5

\* A unit that is ASCII, of a match.
LEMMA AsciiUnitOf ==
  ASSUME Typed, NEW u \in 0..hay.n, Occurs(pats, hay, 0, u), NEW i \in 1..Len(P),
         InAscii(i), Len(Spelling(hay, u + i - 1)) = 1
  PROVE  /\ hay.off[u + i] = hay.off[u + i - 1] + 1
         /\ hay.off[u + i - 1] \in 0..(Bytes(hay) - 1)
         /\ hay.bytes[hay.off[u + i - 1]] \in Ascii
         /\ ByteIs(hay.bytes[hay.off[u + i - 1]], i - 1)
<1>1. PICK v \in 0..(hay.n - 1) : v = u + i - 1
  BY OccurrenceUnits
<1> DEFINE s == Spelling(hay, v)
<1>2. /\ s \in Forms[P[i]] /\ P[i] \in DOMAIN Forms /\ Len(s) = 1
      /\ hay.off[u + i] = hay.off[v] + 1
  <2>1. s \in Forms[P[i]] /\ Len(s) = 1
    BY <1>1, OccurrenceUnits
  <2>2. hay.off[u + i] = hay.off[v] + Len(s)
    BY <1>1, OccurrenceUnits
  <2>3. P[i] \in DOMAIN Forms
    BY PatternIs
  <2> HIDE DEF s
  <2> QED BY <2>1, <2>2, <2>3
<1>3. PICK a \in Nat : a = hay.off[v] /\ a \in 0..(Bytes(hay) - 1)
  BY UnitBytes, Scenery
<1>4. s = <<hay.bytes[a]>>
  <2>1. PICK e \in Nat : e = hay.off[v + 1]
    BY UnitBytes
  <2>2. Len(s) = e - a
    BY <1>3, <2>1, SpellingIs
  <2>3. 1 = e - a
    BY <1>2, <2>2
  <2> QED BY <1>3, <2>1, <2>3, SpellingIs
<1>5. s[1] = hay.bytes[a] /\ s[1] \in Ascii
  <2>1. s[1] \in Ascii
    BY <1>2, AsciiFormIs
  <2> QED BY <1>4, <2>1
<1>6. ByteIs(hay.bytes[a], i - 1)
  BY <1>2, <1>4, <1>5, AsciiFormIs
<1> QED BY <1>1, <1>2, <1>3, <1>5, <1>6

\* A unit of fixed width of an occurrence is one ASCII byte.
LEMMA FixedUnit ==
  ASSUME Typed, NEW u \in 0..hay.n, Occurs(pats, hay, 0, u), NEW i \in 1..Len(P), Fixed(i)
  PROVE  /\ hay.off[u + i] = hay.off[u + i - 1] + 1
         /\ hay.off[u + i - 1] \in 0..(Bytes(hay) - 1)
         /\ hay.bytes[hay.off[u + i - 1]] \in Ascii
         /\ ByteIs(hay.bytes[hay.off[u + i - 1]], i - 1)
<1>1. Spelling(hay, u + i - 1) \in Forms[P[i]] /\ TokenOf(needle[i]) = P[i]
  BY OccurrenceUnits, PatternIs
<1>2. InAscii(i) /\ Len(Spelling(hay, u + i - 1)) = 1
  BY <1>1 DEF Fixed
<1> QED BY <1>2, AsciiUnitOf

\* A stretch of fixed units is as many bytes, which are those of the pattern.
LEMMA StretchThere ==
  ASSUME Typed, NEW u \in 0..hay.n, Occurs(pats, hay, 0, u),
         NEW a \in 0..Len(P), NEW b \in a..Len(P), \A k \in (a + 1)..b : Fixed(k)
  PROVE  /\ hay.off[u + b] = hay.off[u + a] + (b - a)
         /\ \A i \in a..(b - 1) :
              /\ hay.off[u + i] = hay.off[u + a] + (i - a)
              /\ hay.off[u + i] \in 0..(Bytes(hay) - 1)
              /\ hay.bytes[hay.off[u + i]] \in Ascii
              /\ ByteIs(hay.bytes[hay.off[u + i]], i)
<1>0. Len(P) \in Nat
  BY PatternIs
<1> DEFINE Bad == {k \in a..b : hay.off[u + k] # hay.off[u + a] + (k - a)}
<1>1. Bad = {}
  <2> SUFFICES ASSUME Bad # {} PROVE FALSE
    OBVIOUS
  <2>1. PICK k \in Bad : \A m \in Bad : k <= m
    <3>1. Bad \in SUBSET Nat
      BY <1>0
    <3> HIDE DEF Bad
    <3> QED BY <3>1, Least
  <2>2. k \in a..b /\ hay.off[u + k] # hay.off[u + a] + (k - a)
    OBVIOUS
  <2>3. PICK base \in Nat : base = hay.off[u + a]
    BY OccurrenceUnits
  <2>4. k # a
    <3>1. base = base + (a - a)
      BY <1>0
    <3> QED BY <2>2, <2>3, <3>1
  <2>5. PICK j \in Nat : j = k - 1
    BY <1>0, <2>2, <2>4
  <2>6. j \in a..b /\ ~(k <= j) /\ k \in (a + 1)..b /\ k \in 1..Len(P) /\ u + k - 1 = u + j
    BY <1>0, <2>2, <2>4, <2>5
  <2>7. hay.off[u + j] = base + (j - a)
    BY <2>1, <2>3, <2>6
  <2>8. hay.off[u + k] = hay.off[u + j] + 1
    BY <2>6, FixedUnit
  <2>9. base + (j - a) + 1 = base + (k - a)
    BY <1>0, <2>2, <2>5
  <2> QED BY <2>2, <2>3, <2>7, <2>8, <2>9
<1>2. \A k \in a..b : hay.off[u + k] = hay.off[u + a] + (k - a)
  BY <1>1
<1>3. b \in a..b
  BY <1>0
<1>4. ASSUME NEW i \in a..(b - 1)
      PROVE  /\ hay.off[u + i] = hay.off[u + a] + (i - a)
             /\ hay.off[u + i] \in 0..(Bytes(hay) - 1)
             /\ hay.bytes[hay.off[u + i]] \in Ascii
             /\ ByteIs(hay.bytes[hay.off[u + i]], i)
  <2>1. i \in a..b /\ i + 1 \in (a + 1)..b /\ i + 1 \in 1..Len(P) /\ u + (i + 1) - 1 = u + i
        /\ i + 1 - 1 = i
    BY <1>0
  <2>2. /\ hay.off[u + i] \in 0..(Bytes(hay) - 1)
        /\ hay.bytes[hay.off[u + i]] \in Ascii
        /\ ByteIs(hay.bytes[hay.off[u + i]], i)
    BY <2>1, FixedUnit
  <2> QED BY <1>2, <2>1, <2>2
<1> HIDE DEF Bad
<1> QED BY <1>2, <1>3, <1>4

\* Bytes that are those of an ASCII pattern are a match.
LEMMA PatternAtSound ==
  ASSUME Typed, \A i \in 1..Len(P) : InAscii(i), NEW s \in Nat, PatternAt(s)
  PROVE  \E u \in 0..hay.n : /\ hay.off[u] = s /\ Occurs(pats, hay, 0, u)
                             /\ hay.off[u + Len(P)] = s + Len(P)
<1>0. /\ Len(P) \in Nat \ {0} /\ P \in Seq(DOMAIN Forms) /\ hay.n \in Nat /\ Bytes(hay) \in Nat
      /\ Len(needle) = Len(P)
  BY PatternIs, Scenery
<1> DEFINE e == [k \in 0..Len(P) |-> s + k]
<1>1. ASSUME NEW k \in 1..Len(P)
      PROVE  \E f \in Forms[P[k]] : /\ IsPackable(f) /\ U!Has(e[k - 1], f)
                                    /\ e[k] = e[k - 1] + Len(f)
  <2>1. k - 1 \in 0..(Len(needle) - 1) /\ k - 1 \in 0..Len(P) /\ k \in 0..Len(P)
    BY <1>0
  <2>2. PICK x \in Nat : x = s + (k - 1)
    BY <2>1
  <2>3. x < Bytes(hay) /\ ByteIs(hay.bytes[x], k - 1)
    BY <2>1, <2>2 DEF PatternAt, BytesAt
  <2>4. PICK b : b = hay.bytes[x]
    OBVIOUS
  <2>5. b \in 0..255
    <3>1. x \in 0..(Bytes(hay) - 1)
      BY <1>0, <2>3
    <3>2. hay.bytes \in [0..(Bytes(hay) - 1) -> 0..255]
      BY Scenery DEF IsSpelled
    <3> QED BY <2>4, <3>1, <3>2
  <2>6. b \in Ascii /\ <<b>> \in Forms[P[k]]
    <3>1. b \in Ascii
      BY <2>3, <2>4, <2>5, ByteIsAscii
    <3> QED BY <2>3, <2>4, <3>1, AsciiFormIs
  <2>7. Len(<<b>>) = 1 /\ <<b>>[1] = b /\ DOMAIN <<b>> = 1..1
    OBVIOUS
  <2>8. U!Has(x, <<b>>)
    <3>1. x >= 0 /\ x + 1 <= U!Bytes(hay)
      BY <1>0, <2>3, SharedVocabulary
    <3>2. \A i \in 1..1 : hay.bytes[x + i - 1] = <<b>>[i]
      <4>1. x + 1 - 1 = x
        OBVIOUS
      <4> QED BY <2>4, <4>1
    <3> QED BY <2>7, <3>1, <3>2 DEF U!Has
  <2>9. e[k - 1] = x /\ e[k] = x + 1
    BY <2>1, <2>2
  <2>10. IsPackable(<<b>>)
    BY <2>6, <2>7 DEF IsPackable
  <2> HIDE DEF e
  <2> QED BY <2>6, <2>7, <2>8, <2>9, <2>10
<1>2. e \in [0..Len(P) -> Int] /\ \A k \in 0..Len(P) : e[k] >= 0
  BY <1>0
<1>3. e[0] = s /\ e[Len(P)] = s + Len(P) /\ Len(P) \in 0..Len(P)
  BY <1>0
<1> HIDE DEF e
<1>4. \A k \in 1..Len(P) : e[k - 1] >= 0
  <2>1. \A k \in 1..Len(P) : k - 1 \in 0..Len(P)
    BY <1>0
  <2> QED BY <1>2, <2>1
<1>5. IsChain(s, e) /\ e[Len(P)] >= 0
  BY <1>1, <1>2, <1>3, <1>4 DEF IsChain
<1> QED BY <1>3, <1>5, ChainReads

\* Of a match that is all ASCII the bytes are those of the pattern.
LEMMA PatternAtComplete ==
  ASSUME Typed, NEW u \in 0..hay.n, Occurs(pats, hay, 0, u),
         \A i \in 1..Len(P) : InAscii(i) /\ Len(Spelling(hay, u + i - 1)) = 1
  PROVE  PatternAt(hay.off[u])
<1>0. Len(P) \in Nat \ {0} /\ Len(needle) = Len(P) /\ hay.n \in Nat
  BY PatternIs, Scenery
<1> DEFINE Bad == {k \in 0..Len(P) : hay.off[u + k] # hay.off[u] + k}
<1>1. PICK base \in Nat : base = hay.off[u]
  BY Scenery
<1>2. Bad = {}
  <2> SUFFICES ASSUME Bad # {} PROVE FALSE
    OBVIOUS
  <2>1. PICK k \in Bad : \A m \in Bad : k <= m
    <3>1. Bad \in SUBSET Nat
      BY <1>0
    <3> HIDE DEF Bad
    <3> QED BY <3>1, Least
  <2>2. k \in 0..Len(P) /\ hay.off[u + k] # base + k
    BY <1>1
  <2>3. k # 0
    <3>1. u + 0 = u /\ base + 0 = base
      BY <1>0
    <3> QED BY <1>1, <2>2, <3>1
  <2>4. PICK j \in Nat : j = k - 1
    BY <1>0, <2>2, <2>3
  <2>5. j \in 0..Len(P) /\ ~(k <= j) /\ k \in 1..Len(P) /\ u + k - 1 = u + j
    BY <1>0, <2>2, <2>3, <2>4
  <2>6. hay.off[u + j] = base + j
    BY <1>1, <2>1, <2>5
  <2>7. hay.off[u + k] = hay.off[u + j] + 1
    BY <2>5, AsciiUnitOf
  <2> QED BY <2>2, <2>4, <2>6, <2>7
<1>3. ASSUME NEW i \in 0..(Len(needle) - 1)
      PROVE  base + i < Bytes(hay) /\ ByteIs(hay.bytes[base + i], i)
  <2>1. PICK j \in 1..Len(P) : j = i + 1
    BY <1>0
  <2>2. i \in 0..Len(P) /\ u + j - 1 = u + i /\ j - 1 = i
    BY <1>0, <2>1
  <2>3. hay.off[u + i] = base + i
    BY <1>1, <1>2, <2>2
  <2>4. /\ hay.off[u + j - 1] \in 0..(Bytes(hay) - 1)
        /\ ByteIs(hay.bytes[hay.off[u + j - 1]], j - 1)
    BY AsciiUnitOf
  <2>5. base + i \in 0..(Bytes(hay) - 1) /\ ByteIs(hay.bytes[base + i], i)
    BY <2>2, <2>3, <2>4
  <2>6. base + i < Bytes(hay)
    BY <2>5, Scenery
  <2> QED BY <2>5, <2>6
<1> QED BY <1>1, <1>3 DEF PatternAt, BytesAt

\* The prefix whose units are a byte in all their forms.
LEMMA FixedIs ==
  ASSUME Typed, fixed = FixedPrefix
  PROVE  fixed \in 0..Len(P) /\ \A i \in 1..fixed : Fixed(i)
<1>0. Len(P) \in Nat \ {0} /\ Len(needle) = Len(P)
  BY PatternIs
<1>1. \E k \in 0..Len(needle) :
        (\A i \in 1..k : Fixed(i)) /\ (k < Len(needle) => ~Fixed(k + 1))
  <2>1. CASE \A i \in 1..Len(needle) : Fixed(i)
    <3>1. Len(needle) \in 0..Len(needle) /\ ~(Len(needle) < Len(needle))
      BY <1>0
    <3> QED BY <2>1, <3>1
  <2>2. CASE ~ \A i \in 1..Len(needle) : Fixed(i)
    <3> DEFINE Wide == {i \in 1..Len(needle) : ~Fixed(i)}
    <3>1. PICK i \in Wide : \A j \in Wide : i <= j
      <4>1. Wide \in SUBSET Nat /\ Wide # {}
        BY <1>0, <2>2
      <4> HIDE DEF Wide
      <4> QED BY <4>1, Least
    <3>2. PICK k \in Nat : k = i - 1
      BY <1>0
    <3>3. k \in 0..Len(needle) /\ k + 1 = i /\ ~Fixed(i)
      BY <1>0, <3>2
    <3>4. ASSUME NEW j \in 1..k PROVE Fixed(j)
      <4>1. j \in 1..Len(needle) /\ ~(i <= j)
        BY <1>0, <3>2
      <4> QED BY <3>1, <4>1
    <3> QED BY <3>3, <3>4
  <2> QED BY <2>1, <2>2
<1> QED BY <1>0, <1>1 DEF FixedPrefix

-----------------------------------------------------------------------------
(***************************************************************************)
(* The bytes of wider units in the haystack.                               *)
(***************************************************************************)
\* A match is as wide as its narrowest spelling, or wider; what precedes a unit
\* is as wide as that if no width varies.
LEMMA OffsetThere ==
  ASSUME Typed, NEW u \in 0..hay.n, Occurs(pats, hay, 0, u), NEW i \in 1..(Len(P) + 1)
  PROVE  /\ hay.off[u] + U!OffsetIn(P, i) <= hay.off[u + i - 1]
         /\ (\A j \in 1..(i - 1) : U!Uniform(P[j])) =>
              hay.off[u + i - 1] = hay.off[u] + U!OffsetIn(P, i)
<1>0. Len(P) \in Nat \ {0} /\ P \in Seq(DOMAIN Forms) /\ hay.n \in Nat
  BY PatternIs, Scenery
<1>1. PICK base \in Nat : base = hay.off[u]
  BY Scenery
<1> DEFINE Right(k) == /\ base + U!OffsetIn(P, k) <= hay.off[u + k - 1]
                       /\ (\A j \in 1..(k - 1) : U!Uniform(P[j])) =>
                            hay.off[u + k - 1] = base + U!OffsetIn(P, k)
           Bad == {k \in 1..(Len(P) + 1) : ~Right(k)}
<1>2. Right(1)
  <2>1. u + 1 - 1 = u /\ U!OffsetIn(P, 1) = 0 /\ base + 0 = base
    BY <1>0, OffsetsAre
  <2> QED BY <1>1, <2>1
<1>3. ASSUME NEW k \in 1..Len(P), Right(k) PROVE Right(k + 1)
  <2>1. U!OffsetIn(P, k + 1) = U!OffsetIn(P, k) + U!Least(U!Lens(P[k]))
    BY OffsetsAre
  <2> DEFINE s == Spelling(hay, u + k - 1)
  <2>2. s \in Forms[P[k]] /\ P[k] \in DOMAIN Forms
    BY <1>0, OccurrenceUnits
  <2>3. hay.off[u + k] = hay.off[u + k - 1] + Len(s)
    BY OccurrenceUnits
  <2> HIDE DEF s
  <2>4. U!Least(U!Lens(P[k])) <= Len(s)
    BY <2>2, LensAre, LeastIs
  <2>5. PICK a \in Nat : a = hay.off[u + k - 1]
    <3>1. PICK m \in 0..Len(P) : m = k - 1
      BY <1>0
    <3>2. u + m = u + k - 1
      BY <1>0, <3>1
    <3>3. hay.off[u + m] \in Nat
      BY OccurrenceUnits
    <3> QED BY <3>2, <3>3
  <2>6. PICK o \in Nat, m \in Nat, w \in Nat :
          o = U!OffsetIn(P, k) /\ m = U!Least(U!Lens(P[k])) /\ w = Len(s)
    <3>1. U!OffsetIn(P, k) \in Nat
      BY <1>0, OffsetsAre
    <3>2. U!Least(U!Lens(P[k])) \in Nat
      BY <2>2, LensAre, LeastIs
    <3>3. Len(s) \in Nat
      BY <2>2, FormTyped
    <3> QED BY <3>1, <3>2, <3>3
  <2>7. u + (k + 1) - 1 = u + k
    BY <1>0
  <2>8. base + (o + m) <= a + w
    <3>1. base + o <= a
      BY <1>3, <2>5, <2>6
    <3>2. m <= w
      BY <2>4, <2>6
    <3> QED BY <3>1, <3>2
  <2>9. ASSUME \A j \in 1..((k + 1) - 1) : U!Uniform(P[j])
        PROVE  a + w = base + (o + m)
    <3>1. k \in 1..((k + 1) - 1) /\ 1..(k - 1) \subseteq 1..((k + 1) - 1)
      BY <1>0
    <3>2. a = base + o
      BY <1>3, <2>5, <2>6, <2>9, <3>1
    <3>3. U!Uniform(P[k])
      BY <2>9, <3>1
    <3>4. m = w
      BY <2>2, <2>6, <3>3, UniformIs
    <3> QED BY <3>2, <3>4
  <2>10. hay.off[u + (k + 1) - 1] = a + w /\ U!OffsetIn(P, k + 1) = o + m
    BY <2>1, <2>3, <2>5, <2>6, <2>7
  <2> QED BY <2>8, <2>9, <2>10
<1>4. Bad = {}
  <2> SUFFICES ASSUME Bad # {} PROVE FALSE
    OBVIOUS
  <2>1. PICK k \in Bad : \A m \in Bad : k <= m
    <3>1. Bad \in SUBSET Nat
      BY <1>0
    <3> HIDE DEF Bad
    <3> QED BY <3>1, Least
  <2>2. k \in 1..(Len(P) + 1) /\ ~Right(k)
    OBVIOUS
  <2>3. k # 1
    BY <1>2, <2>2
  <2>4. PICK j \in Nat : j = k - 1
    BY <1>0, <2>2
  <2>5. j \in 1..Len(P) /\ j \in 1..(Len(P) + 1) /\ ~(k <= j) /\ k = j + 1
    BY <1>0, <2>2, <2>3, <2>4
  <2>6. Right(j)
    BY <2>1, <2>5
  <2> HIDE DEF Right
  <2> QED BY <1>3, <2>2, <2>5, <2>6
<1>5. Right(i)
  BY <1>4
<1> QED BY <1>1, <1>5

\* A match has room.
LEMMA MinLengthFits ==
  ASSUME Typed, NEW u \in 0..hay.n, Occurs(pats, hay, 0, u)
  PROVE  U!MinLength \in Nat /\ hay.off[u] + U!MinLength <= Bytes(hay)
<1>0. Len(P) \in Nat \ {0} /\ U!Pattern = P /\ hay.n \in Nat
  BY PatternIs, Scenery
<1>1. U!MinLength = U!OffsetIn(P, Len(P) + 1) /\ Len(P) + 1 \in 1..(Len(P) + 1)
  BY <1>0 DEF U!MinLength
<1>2. hay.off[u] + U!MinLength <= hay.off[u + (Len(P) + 1) - 1]
  BY <1>1, OffsetThere
<1>3. u + (Len(P) + 1) - 1 = u + Len(P) /\ u + Len(P) \in 0..hay.n
  <2>1. u + Len(P) \in 0..hay.n
    BY OccurrenceUnits
  <2> QED BY <1>0, <2>1
<1>4. hay.off[u + Len(P)] \in Nat /\ hay.off[u + Len(P)] <= Bytes(hay)
  BY <1>3, Scenery
<1>5. U!MinLength \in Nat
  BY <1>1, OffsetsAre
<1>6. PICK a \in Nat, b \in Nat, e \in Nat, m \in Nat :
        a = hay.off[u] /\ b = hay.off[u + Len(P)] /\ e = Bytes(hay) /\ m = U!MinLength
  BY <1>4, <1>5, Scenery
<1>7. a + m <= b /\ b <= e
  BY <1>2, <1>3, <1>4, <1>6
<1>8. a + m <= e
  BY <1>7
<1> QED BY <1>5, <1>6, <1>8

\* The form of a unit is there.
LEMMA UnitHas ==
  ASSUME Typed, NEW u \in 0..(hay.n - 1)
  PROVE  U!Has(hay.off[u], Spelling(hay, u))
<1>1. PICK a \in Nat, b \in Nat : a = hay.off[u] /\ b = hay.off[u + 1]
  BY UnitBytes
<1>2. PICK w \in Nat : w = b - a
  BY <1>1, UnitBytes
<1>3. w = hay.off[u + 1] - hay.off[u] /\ a < b /\ b <= Bytes(hay) /\ Bytes(hay) \in Nat
  BY <1>1, <1>2, UnitBytes, Scenery
<1>4. /\ Len(Spelling(hay, u)) = w /\ Spelling(hay, u) \in Seq(0..255)
      /\ \A i \in 1..w : Spelling(hay, u)[i] = hay.bytes[a + i - 1]
  BY <1>1, <1>3, SpellingIs
<1>5. DOMAIN Spelling(hay, u) = 1..w
  BY <1>4
<1>6. a + w <= Bytes(hay)
  BY <1>2, <1>3
<1>7. a >= 0 /\ U!Bytes(hay) = Bytes(hay)
  BY SharedVocabulary
<1> QED BY <1>1, <1>4, <1>5, <1>6, <1>7 DEF U!Has

\* Each unit of an occurrence stands in the haystack in its spelling.
LEMMA OccurrenceHas ==
  ASSUME Typed, NEW u \in 0..hay.n, Occurs(pats, hay, 0, u), NEW i \in 1..Len(P)
  PROVE  U!Has(hay.off[u + i - 1], Spelling(hay, u + i - 1))
BY OccurrenceUnits, UnitHas

\* No occurrence fails the confirmation.
LEMMA FormsComplete ==
  ASSUME Typed, confirm # "none", NEW u \in 0..hay.n, Occurs(pats, hay, 0, u)
  PROVE  U!FormsAt(hay.off[u])
<1>0. Len(P) \in Nat \ {0} /\ U!Pattern = P /\ P \in Seq(DOMAIN Forms) /\ DOMAIN P = 1..Len(P)
      /\ hay.n \in Nat
  BY PatternIs, Scenery
<1>1. PICK base \in Nat : base = hay.off[u]
  BY Scenery
<1>2. base >= 0 /\ U!Bytes(hay) - base >= U!MinLength
  <2>1. PICK e \in Nat, m \in Nat : e = Bytes(hay) /\ m = U!MinLength
    BY Scenery, MinLengthFits
  <2>2. base + m <= e
    BY <1>1, <2>1, MinLengthFits
  <2>3. e - base >= m
    BY <2>2
  <2> QED BY <2>1, <2>3, SharedVocabulary
<1>3. ASSUME confirm = "fixed" PROVE U!FixedFormsAt(base)
  <2>1. ASSUME NEW i \in 1..Len(P)
        PROVE  \E f \in Forms[P[i]] : U!Has(base + U!OffsetIn(P, i), f)
    <3>1. \A j \in 1..(i - 1) : U!Uniform(P[j])
      <4>1. 1..(i - 1) \subseteq 1..Len(P)
        BY <1>0
      <4> QED BY <1>3, <4>1, PackableIs
    <3>2. i \in 1..(Len(P) + 1)
      BY <1>0
    <3>3. hay.off[u + i - 1] = base + U!OffsetIn(P, i)
      BY <1>1, <3>1, <3>2, OffsetThere
    <3>4. Spelling(hay, u + i - 1) \in Forms[P[i]]
      BY OccurrenceUnits
    <3> QED BY <3>3, <3>4, OccurrenceHas
  <2> QED BY <1>0, <2>1 DEF U!FixedFormsAt
<1>4. U!EndFrom(base) >= 0
  <2> DEFINE e == CHOOSE g : IsEnds(base, g)
  <2>1. IsEnds(base, e)
    BY EndsExist
  <2>2. U!EndFrom(base) = e[Len(P)]
    BY Zenon DEF U!EndFrom, IsEnds, EndStep, Fits, U!Pattern, P
  <2> HIDE DEF e
  <2>3. \A i \in 0..Len(P) : e[i] = IF i = 0 THEN base ELSE EndStep(e[i - 1], i)
    BY <2>1 DEF IsEnds
  <2> DEFINE Bad == {k \in 0..Len(P) : e[k] # hay.off[u + k]}
  <2>4. Bad = {}
    <3> SUFFICES ASSUME Bad # {} PROVE FALSE
      OBVIOUS
    <3>1. PICK k \in Bad : \A m \in Bad : k <= m
      <4>1. Bad \in SUBSET Nat
        BY <1>0
      <4> HIDE DEF Bad
      <4> QED BY <4>1, Least
    <3>2. k \in 0..Len(P) /\ e[k] # hay.off[u + k]
      OBVIOUS
    <3>3. k # 0
      <4>1. u + 0 = u /\ 0 \in 0..Len(P)
        BY <1>0
      <4> QED BY <1>1, <2>3, <3>2, <4>1
    <3>4. PICK j \in Nat : j = k - 1
      BY <1>0, <3>2, <3>3
    <3>5. j \in 0..Len(P) /\ ~(k <= j) /\ k \in 1..Len(P) /\ u + k - 1 = u + j
      BY <1>0, <3>2, <3>3, <3>4
    <3>6. e[j] = hay.off[u + j]
      BY <3>1, <3>5
    <3>7. PICK a \in Nat : a = hay.off[u + j]
      BY <3>5, OccurrenceUnits
    <3>8. e[k] = EndStep(a, k)
      BY <2>3, <3>2, <3>3, <3>4, <3>6, <3>7
    <3> DEFINE s == Spelling(hay, u + j)
    <3>9. s \in Fits(a, k)
      <4>1. s \in Forms[P[k]] /\ U!Has(a, s)
        BY <3>5, <3>7, OccurrenceUnits, OccurrenceHas
      <4>2. a >= 0
        OBVIOUS
      <4> QED BY <4>1, <4>2 DEF Fits
    <3> HIDE DEF s
    <3>10. PICK f : f = CHOOSE g \in Fits(a, k) : TRUE
      OBVIOUS
    <3>11. f \in Forms[P[k]] /\ U!Has(a, f) /\ e[k] = a + Len(f)
      <4>1. f \in Fits(a, k)
        BY <3>9, <3>10
      <4>2. Fits(a, k) # {}
        BY <3>9
      <4>3. EndStep(a, k) = a + Len(f)
        BY <3>10, <4>2 DEF EndStep
      <4> QED BY <3>8, <4>1, <4>3 DEF Fits
    <3>12. P[k] \in DOMAIN Forms /\ IsPackable(f)
      BY <1>0, <3>5, <3>11, PackableIs
    <3>13. u + j \in 0..hay.n /\ u + j + 1 = u + k
      BY <1>0, <3>4, <3>5, OccurrenceUnits
    <3>14. hay.off[u + j + 1] = hay.off[u + j] + Len(f)
      BY <3>7, <3>11, <3>12, <3>13, FormStands
    <3> QED BY <3>2, <3>7, <3>11, <3>13, <3>14
  <2>5. e[Len(P)] = hay.off[u + Len(P)] /\ hay.off[u + Len(P)] \in Nat
    <3>1. Len(P) \in 0..Len(P)
      BY <1>0
    <3>2. e[Len(P)] = hay.off[u + Len(P)]
      BY <2>4, <3>1
    <3> HIDE DEF Bad
    <3> QED BY <3>1, <3>2, OccurrenceUnits
  <2> QED BY <2>2, <2>5
<1> QED BY <1>1, <1>2, <1>3, <1>4 DEF U!FormsAt

\* The two pairs of the plan are units of the pattern, of two bytes each.
LEMMA PairsAre ==
  ASSUME Typed, pairs # <<>>, NEW k \in 1..2
  PROVE  /\ pairs[k].at \in Nat
         /\ \E i \in 1..Len(P) :
              /\ pairs[k] = U!PairOf(P, i) /\ U!Lens(P[i]) = {2}
              /\ \A j \in 1..(i - 1) : U!Uniform(P[j])
<1>0. Len(P) \in Nat \ {0} /\ U!Pattern = P /\ DOMAIN P = 1..Len(P) /\ pairs = U!Pairs(P)
  BY PatternIs DEF Typed, U!PlanInit
<1> DEFINE units == U!PairUnits(P)
           first == U!Least(units)
           second == U!Least(units \ {first})
<1>1. ~(U!Cardinality(units) < 2) /\ pairs = <<U!PairOf(P, first), U!PairOf(P, second)>>
  BY <1>0 DEF U!Pairs
<1>2. units \in SUBSET Nat /\ units \subseteq 1..Len(P)
  BY <1>0 DEF U!PairUnits, U!Anchorable
<1>3. ~(Cardinality(units) < 2)
  BY <1>1, SameCardinality
<1>4. \A i \in units : U!Lens(P[i]) = {2} /\ \A j \in 1..(i - 1) : U!Uniform(P[j])
  BY DEF U!PairUnits, U!Anchorable
<1> HIDE DEF units
<1>5. units # {}
  <2> SUFFICES ASSUME units = {} PROVE FALSE
    OBVIOUS
  <2>1. Cardinality({}) = 0
    BY FS_EmptySet
  <2>2. Cardinality(units) = 0
    BY <2>1
  <2> QED BY <1>3, <2>2
<1>6. first \in units
  BY <1>2, <1>5, LeastIs
<1> HIDE DEF first
<1>7. units \ {first} # {}
  <2> SUFFICES ASSUME units \ {first} = {} PROVE FALSE
    OBVIOUS
  <2>1. units = {first}
    BY <1>6
  <2>2. Cardinality({first}) = 1
    BY FS_Singleton
  <2> QED BY <1>3, <2>1, <2>2
<1>8. second \in units
  <2>1. units \ {first} \in SUBSET Nat
    BY <1>2
  <2>2. second \in units \ {first}
    BY <1>7, <2>1, LeastIs
  <2> HIDE DEF second
  <2> QED BY <2>2
<1> HIDE DEF second
<1>9. \E i \in units : pairs[k] = U!PairOf(P, i)
  <2>1. pairs[1] = U!PairOf(P, first) /\ pairs[2] = U!PairOf(P, second)
    BY <1>1
  <2>2. k = 1 \/ k = 2
    OBVIOUS
  <2> QED BY <1>6, <1>8, <2>1, <2>2
<1>10. PICK i \in units : pairs[k] = U!PairOf(P, i)
  BY <1>9
<1>11. pairs[k].at \in Nat
  <2>1. pairs[k].at = U!OffsetIn(P, i)
    BY <1>10 DEF U!PairOf
  <2>2. i \in 1..(Len(P) + 1)
    BY <1>0, <1>2
  <2> QED BY <2>1, <2>2, OffsetsAre
<1>12. i \in 1..Len(P)
  BY <1>2
<1> QED BY <1>4, <1>10, <1>11, <1>12

\* Both pairs of the plan stand at their places in every occurrence.
LEMMA PairThere ==
  ASSUME Typed, pairs # <<>>, NEW k \in 1..2, NEW u \in 0..hay.n, Occurs(pats, hay, 0, u)
  PROVE  /\ U!PairIs(hay.off[u] + pairs[k].at, pairs[k])
         /\ hay.off[u] + pairs[k].at + 2 <= Bytes(hay)
<1>0. Len(P) \in Nat \ {0} /\ P \in Seq(DOMAIN Forms)
  BY PatternIs
<1>1. PICK i \in 1..Len(P) : /\ pairs[k] = U!PairOf(P, i) /\ U!Lens(P[i]) = {2}
                             /\ \A j \in 1..(i - 1) : U!Uniform(P[j])
  BY PairsAre
<1>2. pairs[k].at = U!OffsetIn(P, i) /\ pairs[k].forms = Forms[P[i]]
  BY <1>1 DEF U!PairOf
<1>3. hay.off[u + i - 1] = hay.off[u] + pairs[k].at
  <2>1. i \in 1..(Len(P) + 1)
    BY <1>0
  <2> QED BY <1>1, <1>2, <2>1, OffsetThere
<1> DEFINE s == Spelling(hay, u + i - 1)
<1>4. s \in Forms[P[i]] /\ U!Has(hay.off[u + i - 1], s)
  BY OccurrenceUnits, OccurrenceHas
<1> HIDE DEF s
<1>5. Len(s) = 2
  <2>1. P[i] \in DOMAIN Forms
    BY <1>0
  <2> QED BY <1>1, <1>4, <2>1, LensAre
<1>6. hay.off[u + i - 1] + 2 <= Bytes(hay)
  BY <1>4, <1>5, SharedVocabulary DEF U!Has
<1> QED BY <1>2, <1>3, <1>4, <1>6 DEF U!PairIs

-----------------------------------------------------------------------------
(***************************************************************************)
(* The triple: the three bytes that every spelling has at its place.       *)
(***************************************************************************)
LEMMA LargestIs ==
  ASSUME NEW S \in SUBSET Nat, S # {}, NEW b \in Nat, \A y \in S : y <= b
  PROVE  \E x \in S : \A y \in S : y <= x
<1> DEFINE T == {b - y : y \in S}
<1>1. PICK least \in T : \A y \in T : least <= y
  <2>1. \A y \in S : y \in Nat /\ y <= b /\ b - y \in Nat
    OBVIOUS
  <2>2. T \in SUBSET Nat /\ T # {}
    BY <2>1
  <2> HIDE DEF T
  <2> QED BY <2>2, Least
<1>2. PICK m \in S : least = b - m
  OBVIOUS
<1>3. ASSUME NEW y \in S PROVE y <= m
  <2>1. b - m <= b - y
    BY <1>1, <1>2
  <2>2. m \in Nat /\ y \in Nat
    OBVIOUS
  <2> QED BY <2>1, <2>2
<1> QED BY <1>3

\* A unit takes at most four bytes.
LEMMA OffsetsBounded ==
  ASSUME Typed, NEW i \in 1..(Len(P) + 1)
  PROVE  U!OffsetIn(P, i) <= 4 * Len(P)
<1>0. Len(P) \in Nat \ {0} /\ P \in Seq(DOMAIN Forms)
  BY PatternIs
<1>1. PICK n \in Nat : n = Len(P)
  BY <1>0
<1> DEFINE Bad == {k \in 1..(n + 1) : ~(U!OffsetIn(P, k) <= 4 * (k - 1))}
<1>2. Bad = {}
  <2> SUFFICES ASSUME Bad # {} PROVE FALSE
    OBVIOUS
  <2>1. PICK k \in Bad : \A m \in Bad : k <= m
    <3>1. Bad \in SUBSET Nat
      BY <1>1
    <3> HIDE DEF Bad
    <3> QED BY <3>1, Least
  <2>2. k \in 1..(n + 1) /\ ~(U!OffsetIn(P, k) <= 4 * (k - 1))
    OBVIOUS
  <2>3. k # 1
    <3>1. U!OffsetIn(P, 1) = 0 /\ 4 * (1 - 1) = 0
      BY OffsetsAre
    <3> QED BY <2>2, <3>1
  <2>4. PICK j \in Nat : j = k - 1
    BY <1>1, <2>2
  <2>5. j \in 1..Len(P) /\ j \in 1..(n + 1) /\ ~(k <= j) /\ k = j + 1
    BY <1>1, <2>2, <2>3, <2>4
  <2>6. U!OffsetIn(P, j) <= 4 * (j - 1)
    BY <2>1, <2>5
  <2>7. PICK o \in Nat : o = U!OffsetIn(P, j)
    BY <1>1, <2>5, OffsetsAre
  <2>8. PICK m \in 1..4 : m = U!Least(U!Lens(P[j]))
    <3>1. P[j] \in DOMAIN Forms
      BY <1>0, <2>5
    <3> QED BY <3>1, LensAre, LeastIs
  <2>9. U!OffsetIn(P, k) = o + m
    BY <2>5, <2>7, <2>8, OffsetsAre
  <2>10. o <= 4 * (j - 1) /\ o + m <= 4 * (k - 1)
    BY <2>5, <2>6, <2>7
  <2> QED BY <2>2, <2>9, <2>10
<1>3. U!OffsetIn(P, i) <= 4 * (i - 1)
  BY <1>1, <1>2
<1>4. PICK o \in Nat : o = U!OffsetIn(P, i)
  BY OffsetsAre
<1>5. o <= 4 * n
  BY <1>1, <1>3, <1>4
<1> QED BY <1>1, <1>4, <1>5

\* One more form behind the words that are shorter than three bytes.
Longer(words, t) ==
  {w \o f : w \in {v \in words : Len(v) < 3}, f \in Forms[t]} \cup {v \in words : Len(v) >= 3}

IsWords(i, f) ==
  f = [j \in (i - 1)..Len(P) |-> IF j = i - 1 THEN {<<>>} ELSE Longer(f[j - 1], P[j])]

\* Words of the triple with a form appended are strings of bytes.
LEMMA LongerTyped ==
  ASSUME NEW t \in DOMAIN Forms, NEW words \in SUBSET Seq(0..255)
  PROVE  Longer(words, t) \in SUBSET Seq(0..255)
<1>1. ASSUME NEW w \in Seq(0..255), NEW f \in Forms[t] PROVE w \o f \in Seq(0..255)
  <2>1. f \in Seq(0..255)
    BY FormTyped
  <2> QED BY <2>1, ConcatProperties
<1>2. ASSUME NEW x \in Longer(words, t) PROVE x \in Seq(0..255)
  <2>1. \/ \E w \in {v \in words : Len(v) < 3}, f \in Forms[t] : x = w \o f
        \/ x \in words
    BY <1>2, SMT DEF Longer
  <2>2. CASE x \in words
    BY <2>2
  <2>3. CASE \E w \in {v \in words : Len(v) < 3}, f \in Forms[t] : x = w \o f
    <3>1. PICK w \in {v \in words : Len(v) < 3}, f \in Forms[t] : x = w \o f
      BY <2>3
    <3>2. w \in Seq(0..255)
      OBVIOUS
    <3>3. w \o f \in Seq(0..255)
      BY <1>1, <3>2
    <3> QED BY <3>1, <3>3, Zenon
  <2> QED BY <2>1, <2>2, <2>3
<1> QED BY <1>2

\* Each short word is continued by each form of the next token.
LEMMA LongerHas ==
  ASSUME NEW t, NEW words, NEW w \in words, Len(w) < 3, NEW f \in Forms[t]
  PROVE  w \o f \in Longer(words, t)
BY SMT DEF Longer

\* The words that begin at unit i, by the function that builds them.
LEMMA WordsAre ==
  ASSUME NEW i
  PROVE  U!Spelled(P, i) = (CHOOSE g : IsWords(i, g))[Len(P)]
BY SMT DEF U!Spelled, IsWords, Longer

\* There is such a function.
LEMMA WordsExist ==
  ASSUME Typed, NEW i \in 1..Len(P)
  PROVE  \E f : IsWords(i, f)
<1> DEFINE n == Len(P) - (i - 1)
           V == SUBSET Seq(0..255)
           round == [x \in (1..n) \X V |-> Longer(x[2], P[x[1] + (i - 1)])]
<1>0. Len(P) \in Nat /\ P \in Seq(DOMAIN Forms) /\ n \in Nat
  BY PatternIs
<1>1. {<<>>} \in V
  <2>1. <<>> \in Seq(0..255)
    BY EmptySeq
  <2> QED BY <2>1
<1>2. round \in [(1..n) \X V -> V]
  <2>1. ASSUME NEW x \in (1..n) \X V PROVE Longer(x[2], P[x[1] + (i - 1)]) \in V
    <3>1. x[1] \in 1..n /\ x[2] \in SUBSET Seq(0..255)
      OBVIOUS
    <3>2. x[1] + (i - 1) \in 1..Len(P)
      BY <1>0, <3>1
    <3>3. P[x[1] + (i - 1)] \in DOMAIN Forms
      BY <1>0, <3>2
    <3> QED BY <3>1, <3>3, LongerTyped
  <2> QED BY <2>1
<1> HIDE DEF V
<1>3. PICK g : IsIteration(V, {<<>>}, round, n, g)
  <2> HIDE DEF round, n
  <2> QED BY <1>0, <1>1, <1>2, RunExists
<1>4. g \in [0..n -> V] /\ g[0] = {<<>>} /\ \A m \in 1..n : g[m] = round[<<m, g[m - 1]>>]
  BY <1>3 DEF IsIteration
<1> DEFINE f == [j \in (i - 1)..Len(P) |-> g[j - (i - 1)]]
<1>5. ASSUME NEW j \in (i - 1)..Len(P)
      PROVE  f[j] = IF j = i - 1 THEN {<<>>} ELSE Longer(f[j - 1], P[j])
  <2>1. CASE j = i - 1
    <3>1. j - (i - 1) = 0
      BY <1>0, <2>1
    <3> QED BY <1>4, <2>1, <3>1
  <2>2. CASE j # i - 1
    <3>1. PICK m \in Nat : m = j - (i - 1)
      BY <1>0
    <3>2. /\ m \in 1..n /\ m - 1 \in 0..n /\ j - 1 \in (i - 1)..Len(P)
          /\ j - 1 - (i - 1) = m - 1 /\ m + (i - 1) = j
      BY <1>0, <2>2, <3>1
    <3>3. g[m - 1] \in V
      BY <1>4, <3>2
    <3>4. <<m, g[m - 1]>> \in (1..n) \X V
      BY <3>2, <3>3
    <3>5. round[<<m, g[m - 1]>>] = Longer(g[m - 1], P[m + (i - 1)])
      BY <3>4
    <3>6. f[j] = g[m] /\ f[j - 1] = g[m - 1]
      BY <3>1, <3>2
    <3> HIDE DEF f, round, n
    <3>7. g[m] = Longer(g[m - 1], P[j])
      BY <1>4, <3>2, <3>5
    <3> QED BY <2>2, <3>6, <3>7
  <2> QED BY <2>1, <2>2
<1>6. f = [j \in (i - 1)..Len(P) |-> f[j]]
  OBVIOUS
<1> HIDE DEF f
<1>7. f = [j \in (i - 1)..Len(P) |-> IF j = i - 1 THEN {<<>>} ELSE Longer(f[j - 1], P[j])]
  BY <1>5, <1>6, Zenon
<1> QED BY <1>7, Zenon DEF IsWords

\* A word and the form behind it stand in the haystack together.
LEMMA ConcatHas ==
  ASSUME NEW s \in Nat, NEW w \in Seq(0..255), NEW f \in Seq(0..255),
         U!Has(s, w), U!Has(s + Len(w), f)
  PROVE  U!Has(s, w \o f)
<1>1. PICK m \in Nat, n \in Nat : m = Len(w) /\ n = Len(f)
  OBVIOUS
<1>2. /\ w \o f \in Seq(0..255) /\ Len(w \o f) = m + n
      /\ \A i \in 1..(m + n) : (w \o f)[i] = IF i <= m THEN w[i] ELSE f[i - m]
  BY <1>1, ConcatProperties
<1>3. /\ s + m + n <= U!Bytes(hay)
      /\ \A i \in 1..m : hay.bytes[s + i - 1] = w[i]
      /\ \A i \in 1..n : hay.bytes[s + m + i - 1] = f[i]
  <2>1. DOMAIN w = 1..m /\ DOMAIN f = 1..n
    BY <1>1
  <2> QED BY <1>1, <2>1 DEF U!Has
<1>4. ASSUME NEW i \in 1..(m + n) PROVE hay.bytes[s + i - 1] = (w \o f)[i]
  <2>1. CASE i <= m
    <3>1. i \in 1..m
      BY <2>1
    <3> QED BY <1>2, <1>3, <2>1, <3>1
  <2>2. CASE ~(i <= m)
    <3>1. PICK j \in Nat : j = i - m
      BY <2>2
    <3>2. j \in 1..n /\ s + m + j - 1 = s + i - 1
      BY <2>2, <3>1
    <3>3. hay.bytes[s + m + j - 1] = f[j]
      BY <1>3, <3>2
    <3> QED BY <1>2, <2>2, <3>1, <3>2, <3>3
  <2> QED BY <2>1, <2>2
<1>5. DOMAIN (w \o f) = 1..(m + n) /\ s >= 0 /\ s + (m + n) <= U!Bytes(hay)
  BY <1>2, <1>3
<1> QED BY <1>2, <1>4, <1>5 DEF U!Has

\* Some spelling is that of the match.
LEMMA SpelledThere ==
  ASSUME Typed, NEW u \in 0..hay.n, Occurs(pats, hay, 0, u), NEW i \in 1..Len(P)
  PROVE  \E v \in U!Spelled(P, i) : v \in Seq(0..255) /\ U!Has(hay.off[u + i - 1], v)
<1> DEFINE words == CHOOSE g : IsWords(i, g)
<1>0. Len(P) \in Nat \ {0} /\ P \in Seq(DOMAIN Forms) /\ hay.n \in Nat
  BY PatternIs, Scenery
<1>1. IsWords(i, words)
  BY WordsExist
<1>2. U!Spelled(P, i) = words[Len(P)]
  BY WordsAre
<1> HIDE DEF words
<1>3. \A j \in (i - 1)..Len(P) :
        words[j] = IF j = i - 1 THEN {<<>>} ELSE Longer(words[j - 1], P[j])
  BY <1>1 DEF IsWords
<1>4. PICK s \in Nat : s = hay.off[u + i - 1]
  <2>1. PICK m \in 0..Len(P) : m = i - 1
    BY <1>0
  <2>2. u + m = u + i - 1
    BY <1>0, <2>1
  <2>3. hay.off[u + m] \in Nat
    BY OccurrenceUnits
  <2> QED BY <2>2, <2>3
<1> DEFINE Right(j) == \E v \in words[j] : /\ v \in Seq(0..255) /\ U!Has(s, v)
                                           /\ Len(v) < 3 => hay.off[u + j] = s + Len(v)
           Bad == {j \in (i - 1)..Len(P) : ~Right(j)}
<1>5. Right(i - 1)
  <2>1. i - 1 \in (i - 1)..Len(P)
    BY <1>0
  <2>2. <<>> \in words[i - 1] /\ <<>> \in Seq(0..255) /\ Len(<<>>) = 0 /\ DOMAIN <<>> = {}
    BY <1>3, <2>1
  <2>3. s <= Bytes(hay)
    <3>1. PICK m \in 0..Len(P) : m = i - 1
      BY <1>0
    <3>2. u + m = u + i - 1
      BY <1>0, <3>1
    <3> QED BY <1>4, <3>2, OccurrenceUnits
  <2>4. U!Has(s, <<>>)
    <3>1. s >= 0 /\ s + 0 <= U!Bytes(hay)
      BY <2>3, SharedVocabulary
    <3> QED BY <2>2, <3>1 DEF U!Has
  <2>5. hay.off[u + (i - 1)] = s + 0
    <3>1. u + (i - 1) = u + i - 1
      BY <1>0
    <3> QED BY <1>4, <3>1
  <2> QED BY <2>2, <2>4, <2>5
<1>6. ASSUME NEW j \in i..Len(P), Right(j - 1) PROVE Right(j)
  <2>1. j \in (i - 1)..Len(P) /\ j # i - 1 /\ j \in 1..Len(P) /\ u + (j - 1) = u + j - 1
    BY <1>0
  <2>2. words[j] = Longer(words[j - 1], P[j])
    BY <1>3, <2>1
  <2>3. PICK v \in words[j - 1] : /\ v \in Seq(0..255) /\ U!Has(s, v)
                                  /\ Len(v) < 3 => hay.off[u + (j - 1)] = s + Len(v)
    BY <1>6
  <2>4. CASE Len(v) >= 3
    <3>1. v \in words[j]
      BY <2>2, <2>4 DEF Longer
    <3>2. ~(Len(v) < 3)
      <4>1. Len(v) \in Nat
        BY <2>3
      <4> QED BY <2>4, <4>1
    <3> QED BY <2>3, <3>1, <3>2
  <2>5. CASE ~(Len(v) >= 3)
    <3>1. Len(v) < 3 /\ Len(v) \in Nat
      <4>1. Len(v) \in Nat
        BY <2>3
      <4> QED BY <2>5, <4>1
    <3> DEFINE f == Spelling(hay, u + j - 1)
    <3>2. f \in Forms[P[j]] /\ U!Has(hay.off[u + j - 1], f)
          /\ hay.off[u + j] = hay.off[u + j - 1] + Len(f)
      BY <2>1, OccurrenceUnits, OccurrenceHas
    <3> HIDE DEF f
    <3>3. hay.off[u + j - 1] = s + Len(v)
      BY <2>1, <2>3, <3>1
    <3>4. P[j] \in DOMAIN Forms
      BY <1>0, <2>1
    <3>5. f \in Seq(0..255) /\ Len(f) \in Nat
      <4>1. f \in Seq(0..255) /\ Len(f) \in 1..4
        BY <3>2, <3>4, FormTyped
      <4> QED BY <4>1
    <3>6. U!Has(s, v \o f)
      BY <2>3, <3>2, <3>3, <3>5, ConcatHas
    <3>7. v \o f \in words[j]
      <4>1. v \o f \in Longer(words[j - 1], P[j])
        BY <3>1, <3>2, LongerHas
      <4> QED BY <2>2, <4>1, Zenon
    <3>8. v \o f \in Seq(0..255) /\ Len(v \o f) = Len(v) + Len(f)
      BY <2>3, <3>5, ConcatProperties
    <3>9. hay.off[u + j] = s + Len(v \o f)
      BY <3>1, <3>2, <3>3, <3>5, <3>8
    <3> QED BY <3>6, <3>7, <3>8, <3>9
  <2> QED BY <2>4, <2>5
<1>7. Bad = {}
  <2> SUFFICES ASSUME Bad # {} PROVE FALSE
    OBVIOUS
  <2>1. PICK j \in Bad : \A m \in Bad : j <= m
    <3>1. Bad \in SUBSET Nat
      BY <1>0
    <3> HIDE DEF Bad
    <3> QED BY <3>1, Least
  <2>2. j \in (i - 1)..Len(P) /\ ~Right(j)
    OBVIOUS
  <2> HIDE DEF Right
  <2>3. j # i - 1
    BY <1>5, <2>2
  <2>4. j \in i..Len(P) /\ j - 1 \in (i - 1)..Len(P) /\ ~(j <= j - 1)
    BY <1>0, <2>2, <2>3
  <2>5. Right(j - 1)
    BY <2>1, <2>4
  <2> QED BY <1>6, <2>2, <2>4, <2>5
<1>8. Right(Len(P))
  <2>1. Len(P) \in (i - 1)..Len(P)
    BY <1>0
  <2> HIDE DEF Right
  <2> QED BY <1>7, <2>1
<1> QED BY <1>2, <1>4, <1>8

\* The triple of a plan is one of those that makeUnicodeAnchor finds.
LEMMA TripleIs ==
  ASSUME Typed, triple # U!NoTriple
  PROVE  triple \in U!Triples(P)
<1>0. Len(P) \in Nat \ {0} /\ U!Pattern = P /\ DOMAIN P = 1..Len(P) /\ triple = U!Triple(P)
  BY PatternIs DEF Typed, U!PlanInit
<1>1. U!Triples(P) # {} /\ triple = CHOOSE t \in U!Triples(P) : \A o \in U!Triples(P) : o.at <= t.at
  BY <1>0 DEF U!Triple
<1>2. \A t \in U!Triples(P) : t.at \in Nat /\ t.at <= 4 * Len(P)
  <2> TAKE t \in U!Triples(P)
  <2>1. PICK i \in 1..Len(P) : t.at = U!OffsetIn(P, i)
    BY <1>0 DEF U!Triples, U!Anchorable
  <2>2. i \in 1..(Len(P) + 1)
    BY <1>0
  <2> QED BY <2>1, <2>2, OffsetsAre, OffsetsBounded
<1> DEFINE T == U!Triples(P)
           ats == {t.at : t \in T}
<1> HIDE DEF T
<1>3. \E t \in T : \A o \in T : o.at <= t.at
  <2>1. ats \in SUBSET Nat /\ ats # {} /\ \A y \in ats : y <= 4 * Len(P)
    BY <1>1, <1>2 DEF T
  <2>2. 4 * Len(P) \in Nat
    BY <1>0
  <2>3. \E x \in ats : \A y \in ats : y <= x
    <3> HIDE DEF ats
    <3> QED BY <2>1, <2>2, LargestIs
  <2> QED BY <2>3
<1>4. triple \in T
  BY <1>1, <1>3 DEF T
<1> QED BY <1>4 DEF T

\* The first three bytes of a word.
LEMMA FirstThree ==
  ASSUME NEW v \in Seq(0..255), Len(v) >= 3
  PROVE  LET b == SubSeq(v, 1, 3)
         IN  Len(b) = 3 /\ DOMAIN b = 1..3 /\ \A k \in 1..3 : b[k] = v[k]
<1>1. \A k \in 1..3 : v[k] \in 0..255
  <2>1. PICK m \in Nat : m = Len(v)
    OBVIOUS
  <2>2. \A k \in 1..3 : k \in 1..m
    BY <2>1
  <2>3. \A k \in 1..Len(v) : v[k] \in 0..255
    BY ElementOfSeq
  <2> QED BY <2>1, <2>2, <2>3
<1>2. PICK b : b = SubSeq(v, 1, 3)
  OBVIOUS
<1>3. /\ b \in Seq(0..255) /\ Len(b) = (IF 1 <= 3 THEN 3 - 1 + 1 ELSE 0)
      /\ \A k \in 1..(3 - 1 + 1) : b[k] = v[1 + k - 1]
  BY <1>1, <1>2, SubSeqProperties
<1>4. \A k \in 1..3 : k \in 1..(3 - 1 + 1) /\ 1 + k - 1 = k
  OBVIOUS
<1>5. Len(b) = 3 /\ DOMAIN b = 1..3 /\ \A k \in 1..3 : b[k] = v[k]
  BY <1>3, <1>4
<1> QED BY <1>2, <1>5

\* The triple of the plan stands at its place in every occurrence.
LEMMA TripleThere ==
  ASSUME Typed, triple # U!NoTriple
  PROVE  /\ triple.at \in Nat
         /\ \A u \in 0..hay.n :
              Occurs(pats, hay, 0, u) => /\ U!Has(hay.off[u] + triple.at, triple.bytes)
                                         /\ hay.off[u] + triple.at + 3 <= Bytes(hay)
<1>0. Len(P) \in Nat \ {0} /\ P \in Seq(DOMAIN Forms) /\ DOMAIN P = 1..Len(P) /\ hay.n \in Nat
  BY PatternIs, Scenery
<1>1. PICK i \in 1..Len(P), w \in UNION {U!Spelled(P, k) : k \in DOMAIN P} :
        /\ triple = [at |-> U!OffsetIn(P, i), bytes |-> SubSeq(w, 1, 3)]
        /\ \A j \in 1..(i - 1) : U!Uniform(P[j])
        /\ \A v \in U!Spelled(P, i) : Len(v) >= 3 /\ SubSeq(v, 1, 3) = SubSeq(w, 1, 3)
  BY <1>0, TripleIs DEF U!Triples, U!Anchorable
<1>2. triple.at = U!OffsetIn(P, i) /\ triple.bytes = SubSeq(w, 1, 3)
  BY <1>1
<1>3. i \in 1..(Len(P) + 1)
  BY <1>0
<1>4. triple.at \in Nat
  BY <1>2, <1>3, OffsetsAre
<1>5. ASSUME NEW u \in 0..hay.n, Occurs(pats, hay, 0, u)
      PROVE  /\ U!Has(hay.off[u] + triple.at, triple.bytes)
             /\ hay.off[u] + triple.at + 3 <= Bytes(hay)
  <2>1. PICK s \in Nat : s = hay.off[u] + triple.at
    BY <1>4, Scenery
  <2>2. hay.off[u + i - 1] = s
    BY <1>1, <1>2, <1>3, <1>5, <2>1, OffsetThere
  <2>3. PICK v \in U!Spelled(P, i) : v \in Seq(0..255) /\ U!Has(s, v)
    BY <1>5, <2>2, SpelledThere
  <2>4. Len(v) >= 3 /\ triple.bytes = SubSeq(v, 1, 3)
    BY <1>1, <1>2
  <2>5. PICK m \in Nat : m = Len(v)
    BY <2>3
  <2>6. m >= 3 /\ s + m <= U!Bytes(hay) /\ \A k \in 1..m : hay.bytes[s + k - 1] = v[k]
    <3>1. DOMAIN v = 1..m /\ m >= 3
      BY <2>3, <2>4, <2>5
    <3>2. s + Len(v) <= U!Bytes(hay) /\ \A k \in DOMAIN v : hay.bytes[s + k - 1] = v[k]
      BY <2>3 DEF U!Has
    <3> QED BY <2>5, <3>1, <3>2
  <2> DEFINE b == SubSeq(v, 1, 3)
  <2>7. Len(b) = 3 /\ DOMAIN b = 1..3 /\ \A k \in 1..3 : b[k] = v[k]
    BY <2>3, <2>4, FirstThree
  <2> HIDE DEF b
  <2>8. s + 3 <= U!Bytes(hay) /\ s + 3 <= Bytes(hay)
    <3>1. PICK e \in Nat : e = Bytes(hay)
      BY Scenery
    <3>2. s + m <= e
      BY <2>6, <3>1, SharedVocabulary
    <3>3. s + 3 <= e
      BY <2>6, <3>2
    <3> QED BY <3>1, <3>3, SharedVocabulary
  <2>9. ASSUME NEW k \in 1..3 PROVE hay.bytes[s + k - 1] = b[k]
    <3>1. k \in 1..m
      BY <2>6
    <3>2. b[k] = v[k] /\ hay.bytes[s + k - 1] = v[k]
      BY <2>6, <2>7, <3>1
    <3> QED BY <3>2
  <2>10. U!Has(s, b)
    BY <2>7, <2>8, <2>9 DEF U!Has
  <2>11. hay.off[u] + triple.at + 3 <= Bytes(hay)
    BY <2>1, <2>8
  <2> QED BY <2>1, <2>4, <2>10, <2>11 DEF b
<1> QED BY <1>4, <1>5

-----------------------------------------------------------------------------
(***************************************************************************)
(* The routes, and what is known of the plan on each.                      *)
(***************************************************************************)
Setting ==
  /\ Typed /\ fixed = FixedPrefix
  /\ \E r \in Routes : route = r[1] /\ anchor = r[2]

\* What a route by a Unicode anchor says of the plan.
LEMMA UnicodeRouteIs ==
  ASSUME Setting, IsUnicode(route)
  PROVE  /\ route \in {"confirm", "replay"} => pairs # <<>> /\ U!IsPairPair
         /\ route = "confirm" => confirm # "none"
         /\ route = "pairs" => pairs # <<>>
         /\ route = "triple" => triple # U!NoTriple
<1>1. PICK r \in Routes : route = r[1] /\ anchor = r[2]
  BY DEF Setting
<1>2. r \notin L!Routes
  <2>1. \A x \in L!Routes : x[1] \in {"run", "probe", "pair", "byte", "only"}
    BY DEF L!Routes
  <2> QED BY <1>1, <2>1 DEF IsUnicode
<1>3. route \in U!Routes
  BY <1>1, <1>2 DEF Routes
<1> QED BY <1>3 DEF U!Routes

\* What a route by the bytes of a literal says of the plan.
LEMMA LiteralRouteIs ==
  ASSUME Setting, ~IsUnicode(route)
  PROVE  \/ route = "run" /\ IsRun /\ anchor \in Nat
         \/ route = "probe" /\ anchor \in Probes
         \/ route = "pair" /\ HasPair /\ anchor = <<0, PairAt, PairAt>>
         \/ route = "byte" /\ fixed >= 3 /\ anchor \in 0..(fixed - 1)
         \/ route = "only" /\ AsciiOnly /\ anchor = L!OnlyProbe
<1>1. PICK r \in Routes : route = r[1] /\ anchor = r[2]
  BY DEF Setting
<1>2. \A x \in U!Routes : IsUnicode(x)
  BY DEF U!Routes, IsUnicode
<1>3. r \in L!Routes
  <2>1. CASE L!Routes # {}
    BY <1>1, <2>1 DEF Routes
  <2>2. CASE L!Routes = {}
    <3>1. r \in {<<x, 0>> : x \in U!Routes}
      BY <1>1, <2>2 DEF Routes
    <3>2. r[1] \in U!Routes
      BY <3>1
    <3> QED BY <1>1, <1>2, <3>2
  <2> QED BY <2>1, <2>2
<1>4. RunBlocks \subseteq Nat
  BY SingleAssumption DEF SingleAssumption
<1>5. CASE L!IsRun
  <2>1. r \in {<<"run", block>> : block \in RunBlocks}
    BY <1>3, <1>5 DEF L!Routes
  <2>2. PICK b \in RunBlocks : r = <<"run", b>>
    BY <2>1
  <2> QED BY <1>1, <1>4, <1>5, <2>2, LiteralVocabulary
<1>6. CASE ~L!IsRun
  <2>1. \/ r \in {<<"probe", p>> : p \in L!Probes}
        \/ L!HasPair /\ r = <<"pair", <<0, PairAt, PairAt>>>>
        \/ fixed >= 3 /\ r \in {<<"byte", i>> : i \in L!ByteAnchors}
        \/ L!AsciiOnly /\ r = <<"only", L!OnlyProbe>>
    BY <1>3, <1>6 DEF L!Routes
  <2>2. CASE r \in {<<"probe", p>> : p \in L!Probes}
    <3>1. PICK p \in L!Probes : r = <<"probe", p>>
      BY <2>2
    <3> QED BY <1>1, <3>1, LiteralVocabulary
  <2>3. CASE L!HasPair /\ r = <<"pair", <<0, PairAt, PairAt>>>>
    BY <1>1, <2>3, LiteralVocabulary
  <2>4. CASE fixed >= 3 /\ r \in {<<"byte", i>> : i \in L!ByteAnchors}
    <3>1. PICK i \in L!ByteAnchors : r = <<"byte", i>>
      BY <2>4
    <3>2. i \in 0..(fixed - 1)
      BY <3>1 DEF L!ByteAnchors
    <3> QED BY <1>1, <2>4, <3>1, <3>2
  <2>5. CASE L!AsciiOnly /\ r = <<"only", L!OnlyProbe>>
    BY <1>1, <2>5, LiteralVocabulary
  <2> QED BY <2>1, <2>2, <2>3, <2>4, <2>5
<1> QED BY <1>5, <1>6

-----------------------------------------------------------------------------
(***************************************************************************)
(* Answers: no match, or the leftmost.                                     *)
(***************************************************************************)
IsLeftmost(s) ==
  MatchesSingleAt(s) /\ \A u \in 0..hay.n : Occurs(pats, hay, 0, u) => s <= hay.off[u]

\* The leftmost place where the pattern matches is the answer.
LEMMA LeftmostAnswers ==
  ASSUME Typed, NEW s, IsLeftmost(s)
  PROVE  IsAnswer(pats, hay, [pattern |-> 0, start |-> s])
<1>1. PICK u \in 0..hay.n : hay.off[u] = s /\ Occurs(pats, hay, 0, u)
  BY DEF IsLeftmost, MatchesSingleAt
<1>2. Ids(pats) = {0}
  BY PatternIs
<1>3. ASSUME NEW v \in 0..hay.n, Occurs(pats, hay, 0, v) PROVE Before(u, 0, v, 0)
  <2>1. hay.off[u] <= hay.off[v]
    BY <1>1, <1>3 DEF IsLeftmost
  <2>2. u <= v
    BY <2>1, OffOrder
  <2> QED BY <2>2, Scenery DEF Before
<1>4. \A other \in Ids(pats), v \in 0..hay.n :
        Occurs(pats, hay, other, v) => Before(u, 0, v, other)
  BY <1>2, <1>3
<1> QED BY <1>1, <1>2, <1>4 DEF IsAnswer

\* Where the pattern does not occur the answer is that there is none.
LEMMA NothingAnswers ==
  ASSUME Typed, \A u \in 0..hay.n : ~Occurs(pats, hay, 0, u)
  PROVE  IsAnswer(pats, hay, NoMatch)
BY PatternIs DEF IsAnswer

-----------------------------------------------------------------------------
(***************************************************************************)
(* A scan by the bytes of wider units: the place it looks for.             *)
(***************************************************************************)
UnicodeAt == IF route = "triple" THEN triple.at ELSE pairs[1].at

UnicodeSite(u) == hay.off[u] + UnicodeAt

\* The least width of a match is a number.
LEMMA MinLengthTyped ==
  ASSUME Typed
  PROVE  U!MinLength \in Nat
<1>1. U!Pattern = P /\ Len(P) + 1 \in 1..(Len(P) + 1)
  BY PatternIs
<1> QED BY <1>1, OffsetsAre DEF U!MinLength

\* At the anchor of an occurrence the kernels stop, before the scan's limit.
LEMMA UnicodeSiteStops ==
  ASSUME Setting, IsUnicode(route), NEW u \in 0..hay.n, Occurs(pats, hay, 0, u)
  PROVE  /\ UnicodeAt \in Nat /\ UnicodeSite(u) \in Nat /\ U!Limit \in Int
         /\ UnicodeSite(u) < U!Limit /\ U!Stop(UnicodeSite(u))
<1>0. Typed
  BY DEF Setting
<1>1. PICK o \in Nat, e \in Nat : o = hay.off[u] /\ e = U!Bytes(hay) /\ e = Bytes(hay)
  BY <1>0, Scenery, SharedVocabulary
<1>2. CASE route = "triple"
  <2>1. PICK t \in Nat : t = triple.at
    BY <1>0, <1>2, UnicodeRouteIs, TripleThere
  <2>2. U!Has(o + t, triple.bytes) /\ o + t + 3 <= e
    BY <1>0, <1>1, <1>2, <2>1, UnicodeRouteIs, TripleThere
  <2>3. UnicodeAt = t /\ UnicodeSite(u) = o + t /\ U!Limit = e - 2
    BY <1>1, <1>2, <2>1 DEF UnicodeAt, UnicodeSite, U!Limit
  <2>4. U!Stop(UnicodeSite(u))
    BY <1>2, <2>2, <2>3 DEF U!Stop
  <2> QED BY <2>2, <2>3, <2>4
<1>3. CASE route # "triple"
  <2>1. pairs # <<>>
    BY <1>3, UnicodeRouteIs DEF IsUnicode
  <2>2. PICK p \in Nat, q \in Nat : p = pairs[1].at /\ q = pairs[2].at
    BY <1>0, <2>1, PairsAre
  <2>3. /\ U!PairIs(o + p, pairs[1]) /\ o + p + 2 <= e
        /\ U!PairIs(o + q, pairs[2]) /\ o + q + 2 <= e
    BY <1>0, <1>1, <2>1, <2>2, PairThere
  <2>4. UnicodeAt = p /\ UnicodeSite(u) = o + p
    BY <1>1, <1>3, <2>2 DEF UnicodeAt, UnicodeSite
  <2>5. CASE route = "pairs"
    <3>1. U!Limit = e - 1 /\ U!Stop(UnicodeSite(u))
      BY <1>1, <2>3, <2>4, <2>5 DEF U!Limit, U!Stop
    <3> QED BY <2>3, <2>4, <3>1
  <2>6. CASE route \in {"confirm", "replay"}
    <3>1. U!Stop(UnicodeSite(u))
      <4>1. o + p + q - p = o + q
        OBVIOUS
      <4>2. U!PairPairAt(o + p)
        BY <2>2, <2>3, <4>1 DEF U!PairPairAt
      <4> QED BY <2>4, <2>6, <4>2 DEF U!Stop
    <3>2. CASE route = "replay"
      <4>1. U!Limit = e - (q - p) - 1
        BY <1>1, <2>2, <3>2 DEF U!Limit, U!PairPairLimit
      <4> QED BY <2>3, <2>4, <3>1, <4>1
    <3>3. CASE route = "confirm"
      <4>1. PICK m \in Nat : m = U!MinLength /\ o + m <= e
        BY <1>0, <1>1, MinLengthFits
      <4>2. U!Limit = e - m + p + 1
        BY <1>1, <2>2, <3>3, <4>1 DEF U!Limit, U!ConfirmLimit
      <4> QED BY <2>4, <3>1, <4>1, <4>2
    <3> QED BY <2>6, <3>2, <3>3
  <2> QED BY <1>3, <2>5, <2>6 DEF IsUnicode
<1> QED BY <1>2, <1>3

\* The limit of the scan is a number.
LEMMA UnicodeLimit ==
  ASSUME Setting, IsUnicode(route)
  PROVE  U!Limit \in Int
<1>0. Typed
  BY DEF Setting
<1>1. PICK e \in Nat : e = U!Bytes(hay)
  BY <1>0, Scenery, SharedVocabulary
<1>2. CASE route = "triple"
  BY <1>1, <1>2 DEF U!Limit
<1>3. CASE route = "pairs"
  BY <1>1, <1>3 DEF U!Limit
<1>4. CASE route \in {"confirm", "replay"}
  <2>1. pairs # <<>>
    BY <1>4, UnicodeRouteIs
  <2>2. PICK p \in Nat, q \in Nat : p = pairs[1].at /\ q = pairs[2].at
    BY <1>0, <2>1, PairsAre
  <2>3. CASE route = "replay"
    BY <1>1, <2>2, <2>3 DEF U!Limit, U!PairPairLimit
  <2>4. CASE route = "confirm"
    <3>1. PICK m \in Nat : m = U!MinLength
      BY <1>0, MinLengthTyped
    <3> QED BY <1>1, <2>2, <2>4, <3>1 DEF U!Limit, U!ConfirmLimit
  <2> QED BY <1>4, <2>3, <2>4
<1> QED BY <1>2, <1>3, <1>4 DEF IsUnicode

\* At the anchor of an occurrence the confirmation succeeds.
LEMMA UnicodeSiteConfirmed ==
  ASSUME Setting, IsUnicode(route), NEW u \in 0..hay.n, Occurs(pats, hay, 0, u),
         at = UnicodeSite(u)
  PROVE  U!Confirmed
<1>0. Typed
  BY DEF Setting
<1>1. PICK o \in Nat, t \in Nat : o = hay.off[u] /\ t = UnicodeAt
  BY <1>0, Scenery, UnicodeSiteStops
<1>2. U!Start = o /\ U!Start >= 0
  BY <1>1 DEF U!Start, UnicodeSite, UnicodeAt
<1>3. U!MatchesSingleAt(o)
  BY <1>1, SharedVocabulary DEF U!MatchesSingleAt
<1>4. route = "confirm" => U!FormsAt(o)
  BY <1>0, <1>1, UnicodeRouteIs, FormsComplete
<1>5. route = "pairs" => U!PairIs(o + pairs[2].at, pairs[2])
  BY <1>0, <1>1, UnicodeRouteIs, PairThere
<1> QED BY <1>2, <1>3, <1>4, <1>5 DEF U!Confirmed

\* What is accepted is a match.
LEMMA UnicodeAcceptIsMatch ==
  ASSUME Setting, IsUnicode(route), at \in Nat, U!Confirmed
  PROVE  /\ U!Start \in Nat /\ U!Start + UnicodeAt = at /\ MatchesSingleAt(U!Start)
         /\ route = "confirm" => IsMatch(U!Start, U!WidthAt(U!Start))
<1>0. Typed
  BY DEF Setting
<1>1. PICK t \in Nat : t = UnicodeAt
  <2>1. CASE route = "triple"
    BY <1>0, <2>1, UnicodeRouteIs, TripleThere DEF UnicodeAt
  <2>2. CASE route # "triple"
    <3>1. pairs # <<>>
      BY <2>2, UnicodeRouteIs DEF IsUnicode
    <3> QED BY <1>0, <2>2, <3>1, PairsAre DEF UnicodeAt
  <2> QED BY <2>1, <2>2
<1>2. U!Start = at - t
  BY <1>1 DEF U!Start, UnicodeAt
<1>3. U!Start \in Nat /\ U!Start + t = at
  BY <1>2 DEF U!Confirmed
<1>4. CASE route = "confirm"
  <2>1. IsMatch(U!Start, U!WidthAt(U!Start))
    BY <1>0, <1>3, <1>4, UnicodeRouteIs, FormsAreMatch DEF U!Confirmed
  <2> QED BY <1>1, <1>3, <2>1 DEF IsMatch, MatchesSingleAt
<1>5. CASE route # "confirm"
  <2>1. U!MatchesSingleAt(U!Start)
    BY <1>5 DEF U!Confirmed
  <2> QED BY <1>1, <1>3, <1>5, <2>1, SharedVocabulary DEF U!MatchesSingleAt, MatchesSingleAt
<1> QED BY <1>4, <1>5

-----------------------------------------------------------------------------
(***************************************************************************)
(* The steps of such a scan: it passes over no match, what it accepts is   *)
(* the leftmost, and what it reports as the width is the match's.          *)
(***************************************************************************)
UnicodeAhead(s) == \A u \in 0..hay.n : Occurs(pats, hay, 0, u) => UnicodeSite(u) >= s

Right(m, w) == IsAnswer(pats, hay, m) /\ (w > 0 => IsMatch(m.start, w))

\* A skip passes the anchor of no occurrence.
LEMMA UnicodeSkips ==
  ASSUME Setting, IsUnicode(route), at \in Nat, UnicodeAhead(at), U!Skip
  PROVE  at' \in Nat /\ UnicodeAhead(at')
<1>0. Typed
  BY DEF Setting
<1>1. U!SkipEnd \in Int
  <2>1. U!Limit \in Int
    BY UnicodeLimit
  <2>2. CASE route # "confirm"
    BY <2>1, <2>2 DEF U!SkipEnd
  <2>3. CASE route = "confirm"
    <3>1. pairs # <<>>
      BY <2>3, UnicodeRouteIs
    <3>2. PICK p \in Nat, q \in Nat, e \in Nat : p = pairs[1].at /\ q = pairs[2].at /\ e = U!Bytes(hay)
      BY <1>0, <3>1, PairsAre, Scenery, SharedVocabulary
    <3>3. PICK l \in Int : l = U!PairPairLimit
      BY <3>2 DEF U!PairPairLimit
    <3>4. \E x \in {at, l} : \A y \in {at, l} : y <= x
      <4>1. CASE at <= l
        BY <3>3, <4>1
      <4>2. CASE ~(at <= l)
        BY <3>3, <4>2
      <4> QED BY <4>1, <4>2
    <3>5. U!Most({at, l}) \in {at, l}
      BY <3>4 DEF U!Most
    <3>6. U!SkipEnd = U!Most({at, l})
      BY <2>3, <3>3 DEF U!SkipEnd
    <3> QED BY <3>3, <3>5, <3>6
  <2> QED BY <2>2, <2>3
<1>2. PICK s \in at..U!SkipEnd : at' = s /\ \A i \in at..(s - 1) : ~U!Stop(i)
  BY DEF U!Skip
<1>3. at' \in Nat /\ at' >= at
  BY <1>1, <1>2
<1>4. ASSUME NEW u \in 0..hay.n, Occurs(pats, hay, 0, u) PROVE UnicodeSite(u) >= at'
  <2>1. PICK x \in Nat : x = UnicodeSite(u)
    BY <1>4, UnicodeSiteStops
  <2>2. x >= at /\ U!Stop(x)
    BY <1>4, <2>1, UnicodeSiteStops DEF UnicodeAhead
  <2>3. PICK n \in Nat : n = at'
    BY <1>3
  <2>4. ~(x \in at..(n - 1))
    BY <1>2, <2>2, <2>3
  <2> QED BY <2>1, <2>2, <2>3, <2>4
<1> QED BY <1>3, <1>4 DEF UnicodeAhead

\* A candidate that is rejected is no occurrence.
LEMMA UnicodeRejects ==
  ASSUME Setting, IsUnicode(route), at \in Nat, UnicodeAhead(at), U!Reject
  PROVE  at' \in Nat /\ UnicodeAhead(at')
<1>1. at' = at + 1 /\ ~U!Confirmed
  BY DEF U!Reject
<1>2. ASSUME NEW u \in 0..hay.n, Occurs(pats, hay, 0, u) PROVE UnicodeSite(u) >= at + 1
  <2>1. PICK x \in Nat : x = UnicodeSite(u)
    BY <1>2, UnicodeSiteStops
  <2>2. x # at
    BY <1>1, <1>2, <2>1, UnicodeSiteConfirmed
  <2>3. x >= at
    BY <1>2, <2>1 DEF UnicodeAhead
  <2> QED BY <2>1, <2>2, <2>3
<1> QED BY <1>1, <1>2 DEF UnicodeAhead

\* The first match that is accepted is the leftmost, with its width.
LEMMA UnicodeAccepts ==
  ASSUME Setting, IsUnicode(route), at \in Nat, UnicodeAhead(at), U!Accept
  PROVE  Right(answer', width')
<1>0. Typed
  BY DEF Setting
<1>1. PICK s \in Nat, t \in Nat : s = U!Start /\ t = UnicodeAt /\ s + t = at /\ MatchesSingleAt(s)
  <2>1. U!Confirmed
    BY DEF U!Accept
  <2>2. UnicodeAt \in Nat
    <3>1. PICK u \in 0..hay.n : Occurs(pats, hay, 0, u)
      BY <2>1, UnicodeAcceptIsMatch DEF MatchesSingleAt
    <3> QED BY <3>1, UnicodeSiteStops
  <2> QED BY <2>1, <2>2, UnicodeAcceptIsMatch
<1>2. /\ answer' = [pattern |-> 0, start |-> s]
      /\ width' = IF route = "confirm" THEN U!WidthAt(s) ELSE 0
  BY <1>1 DEF U!Accept, U!Answer, U!MatchAt
<1>3. ASSUME NEW u \in 0..hay.n, Occurs(pats, hay, 0, u) PROVE s <= hay.off[u]
  <2>1. PICK o \in Nat : o = hay.off[u]
    BY <1>0, Scenery
  <2>2. o + t >= at
    BY <1>1, <1>3, <2>1 DEF UnicodeAhead, UnicodeSite
  <2> QED BY <1>1, <2>1, <2>2
<1>4. IsAnswer(pats, hay, answer')
  BY <1>0, <1>1, <1>2, <1>3, LeftmostAnswers DEF IsLeftmost
<1>5. ASSUME width' > 0 PROVE IsMatch(answer'.start, width')
  <2>1. route = "confirm"
    BY <1>2, <1>5
  <2>2. IsMatch(s, U!WidthAt(s))
    BY <1>1, <2>1, UnicodeAcceptIsMatch DEF U!Accept
  <2> QED BY <1>2, <2>1, <2>2
<1> QED BY <1>4, <1>5 DEF Right

\* At the end of the scan nothing occurs.
LEMMA UnicodeExhausts ==
  ASSUME Setting, IsUnicode(route), at \in Nat, UnicodeAhead(at), U!Exhausted
  PROVE  Right(answer', width')
<1>0. Typed
  BY DEF Setting
<1>1. at >= U!Limit /\ answer' = NoMatch /\ width' = 0
  BY SharedVocabulary DEF U!Exhausted, U!Answer
<1>2. ASSUME NEW u \in 0..hay.n, Occurs(pats, hay, 0, u) PROVE FALSE
  <2>1. PICK x \in Nat, l \in Int : x = UnicodeSite(u) /\ l = U!Limit
    BY <1>2, UnicodeSiteStops
  <2>2. x < l /\ x >= at
    BY <1>2, <2>1, UnicodeSiteStops DEF UnicodeAhead
  <2> QED BY <1>1, <2>1, <2>2
<1> QED BY <1>0, <1>1, <1>2, NothingAnswers DEF Right

\* The number of starts that the blocks decide.
LEMMA FullStartsIs ==
  ASSUME Typed
  PROVE  U!FullStarts \in Nat
<1>1. PICK e \in Nat, m \in Nat, b \in Nat \ {0} : e = U!Bytes(hay) /\ m = U!MaxLength /\ b = Block
  BY Scenery, SharedVocabulary, MaxLengthIs, SingleAssumption DEF SingleAssumption
<1>2. PICK k \in Int : k = e - m + 1
  OBVIOUS
<1>3. CASE k <= 0
  <2>1. U!FullStarts = 0
    BY <1>1, <1>2, <1>3 DEF U!FullStarts
  <2> QED BY <2>1
<1>4. CASE ~(k <= 0)
  <2>1. PICK q \in Nat : q = k \div b
    BY <1>4
  <2>2. U!FullStarts = q * b
    BY <1>1, <1>2, <1>4, <2>1 DEF U!FullStarts
  <2>3. q * b \in Nat
    OBVIOUS
  <2> QED BY <2>2, <2>3
<1> QED BY <1>3, <1>4

\* A match among the starts of the blocks is a hit.
LEMMA MatchIsHit ==
  ASSUME Setting, route = "confirm", NEW u \in 0..hay.n, Occurs(pats, hay, 0, u),
         hay.off[u] < U!FullStarts
  PROVE  hay.off[u] \in U!Hits
<1>0. Typed /\ IsUnicode(route)
  BY DEF Setting, IsUnicode
<1>1. PICK o \in Nat, f \in Nat : o = hay.off[u] /\ f = U!FullStarts
  BY <1>0, Scenery, FullStartsIs
<1>2. o \in 0..(f - 1)
  BY <1>1
<1>3. U!FormsAt(o)
  BY <1>0, <1>1, UnicodeRouteIs, FormsComplete
<1>4. U!PairPairAt(o + pairs[1].at)
  BY <1>0, <1>1, UnicodeSiteStops DEF UnicodeSite, UnicodeAt, U!Stop
<1> QED BY <1>1, <1>2, <1>3, <1>4 DEF U!Hits

\* What the blocks of the confirmed route return is right, and they pass no
\* occurrence.
LEMMA UnicodeBlocks ==
  ASSUME Setting, route = "confirm", at \in Nat, at = pairs[1].at, U!Blocks
  PROVE  \/ phase' = "done" /\ Right(answer', width')
         \/ /\ phase' = "skip" /\ UNCHANGED <<answer, width>>
            /\ at' \in Nat /\ UnicodeAhead(at')
<1>0. Typed /\ IsUnicode(route) /\ confirm # "none"
  BY UnicodeRouteIs DEF Setting, IsUnicode
<1>1. CASE U!Bytes(hay) < U!MinLength /\ U!Answer(U!NoMatch, 0)
  <2>1. phase' = "done" /\ answer' = NoMatch /\ width' = 0
    BY <1>1, SharedVocabulary DEF U!Answer
  <2>2. ASSUME NEW u \in 0..hay.n, Occurs(pats, hay, 0, u) PROVE FALSE
    <3>1. PICK o \in Nat, m \in Nat, e \in Nat :
            o = hay.off[u] /\ m = U!MinLength /\ e = U!Bytes(hay) /\ o + m <= e
      BY <1>0, <2>2, Scenery, MinLengthFits, SharedVocabulary
    <3> QED BY <1>1, <3>1
  <2> QED BY <1>0, <2>1, <2>2, NothingAnswers DEF Right
<1>2. CASE U!Hits # {} /\ U!Answer(U!MatchAt(U!Least(U!Hits)), U!WidthAt(U!Least(U!Hits)))
  <2>1. U!Hits \in SUBSET Nat
    BY <1>0, FullStartsIs DEF U!Hits
  <2>2. PICK s \in U!Hits : s = U!Least(U!Hits) /\ \A y \in U!Hits : s <= y
    BY <1>2, <2>1, LeastIs
  <2>3. phase' = "done" /\ answer' = [pattern |-> 0, start |-> s] /\ width' = U!WidthAt(s)
    BY <1>2, <2>2 DEF U!Answer, U!MatchAt
  <2>4. s \in Nat /\ s < U!FullStarts /\ U!FormsAt(s)
    BY <1>0, FullStartsIs DEF U!Hits
  <2>5. IsMatch(s, U!WidthAt(s))
    BY <1>0, <2>4, FormsAreMatch
  <2>6. MatchesSingleAt(s)
    BY <2>5 DEF IsMatch, MatchesSingleAt
  <2>7. ASSUME NEW u \in 0..hay.n, Occurs(pats, hay, 0, u) PROVE s <= hay.off[u]
    <3>1. PICK o \in Nat, f \in Nat : o = hay.off[u] /\ f = U!FullStarts
      BY <1>0, Scenery, FullStartsIs
    <3>2. CASE o < f
      BY <2>2, <2>7, <3>1, <3>2, MatchIsHit
    <3>3. CASE ~(o < f)
      BY <2>4, <3>1, <3>3
    <3> QED BY <3>2, <3>3
  <2>8. IsAnswer(pats, hay, answer')
    BY <1>0, <2>3, <2>6, <2>7, LeftmostAnswers DEF IsLeftmost
  <2> QED BY <2>3, <2>5, <2>8 DEF Right
<1>3. CASE U!Hits = {} /\ at' = at + U!FullStarts /\ phase' = "skip" /\ UNCHANGED <<answer, width>>
  <2>1. PICK f \in Nat : f = U!FullStarts
    BY <1>0, FullStartsIs
  <2>2. ASSUME NEW u \in 0..hay.n, Occurs(pats, hay, 0, u) PROVE UnicodeSite(u) >= at + f
    <3>1. PICK o \in Nat : o = hay.off[u]
      BY <1>0, Scenery
    <3>2. UnicodeSite(u) = o + at
      BY <3>1 DEF UnicodeSite, UnicodeAt
    <3>3. ~(o < f)
      BY <1>3, <2>1, <2>2, <3>1, MatchIsHit
    <3> QED BY <3>2, <3>3
  <2>3. at' \in Nat /\ at' = at + f
    BY <1>3, <2>1
  <2> QED BY <1>3, <2>2, <2>3 DEF UnicodeAhead
<1> QED BY <1>1, <1>2, <1>3 DEF U!Blocks

-----------------------------------------------------------------------------
(***************************************************************************)
(* A scan by the bytes of a literal: the place it looks for.               *)
(***************************************************************************)
LEMMA ProbeIs ==
  ASSUME Setting, NEW p \in Probes
  PROVE  /\ p[1] \in {0, 1} /\ p[2] \in Nat /\ p[3] \in Nat
         /\ p[1] <= p[2] /\ p[2] <= p[3] /\ p[3] < Len(P)
         /\ \A k \in (p[1] + 1)..(p[3] + 1) : Fixed(k)
         /\ fixed >= 3 <=> p[1] = 0
         /\ fixed < 3 => AsciiOnly /\ fixed < Len(P)
         /\ fixed >= 3 => p[3] = fixed - 1
<1>0. Typed /\ Len(needle) = Len(P) /\ Len(P) \in Nat \ {0}
  BY PatternIs DEF Setting
<1>1. fixed \in 0..Len(P) /\ \A i \in 1..fixed : Fixed(i)
  BY <1>0, FixedIs DEF Setting
<1>2. ~IsRun
  BY DEF Probes
<1>3. CASE fixed >= 3
  <2>1. p = <<0, fixed \div 2, fixed - 1>>
    BY <1>2, <1>3 DEF Probes
  <2>2. p[1] = 0 /\ p[2] = fixed \div 2 /\ p[3] = fixed - 1
    BY <2>1
  <2>3. PICK f \in Nat : f = fixed
    BY <1>1
  <2>4. f \div 2 \in Nat /\ f \div 2 <= f - 1
    BY <1>3, <2>3
  <2>5. (p[1] + 1)..(p[3] + 1) = 1..fixed
    BY <2>2, <2>3
  <2>6. p[2] \in Nat /\ p[3] \in Nat /\ p[1] <= p[2] /\ p[2] <= p[3] /\ p[3] < Len(P)
    BY <1>0, <1>1, <1>3, <2>2, <2>3, <2>4
  <2>7. ~(fixed < 3)
    BY <1>3, <2>3
  <2> QED BY <1>1, <1>3, <2>2, <2>5, <2>6, <2>7
<1>4. CASE ~(fixed >= 3)
  <2>1. PICK w \in Interior : p = <<w[1], w[1] + (w[2] - w[1]) \div 2, w[2] - 1>>
    BY <1>2, <1>4 DEF Probes
  <2>2. w[1] = 1 /\ w[2] \in 4..Len(P) /\ AsciiOnly /\ IsStretch(w[1], w[2])
    BY <1>0 DEF Interior
  <2>3. PICK m \in Nat : m = w[2] /\ m >= 4 /\ m <= Len(P)
    BY <1>0, <2>2
  <2>4. p[1] = 1 /\ p[2] = 1 + (m - 1) \div 2 /\ p[3] = m - 1
    BY <2>1, <2>2, <2>3
  <2>5. PICK h \in Nat : h = (m - 1) \div 2 /\ h <= m - 2
    BY <2>3
  <2>6. p[2] \in Nat /\ p[3] \in Nat /\ p[1] <= p[2] /\ p[2] <= p[3] /\ p[3] < Len(P)
    <3>1. p[2] = 1 + h
      BY <2>4, <2>5
    <3>2. p[1] = 1 /\ p[3] = m - 1
      BY <2>4
    <3>3. h <= m - 2
      BY <2>5
    <3> QED BY <1>0, <2>3, <3>1, <3>2, <3>3
  <2>7. \A k \in (1 + 1)..m : Fixed(k)
    BY <2>2, <2>3 DEF IsStretch
  <2>8. p[3] + 1 = m
    BY <2>3, <2>4
  <2>9. fixed < 3 /\ fixed < Len(P)
    BY <1>0, <1>1, <1>4, <2>3
  <2> QED BY <1>4, <2>2, <2>4, <2>6, <2>7, <2>8, <2>9
<1> QED BY <1>3, <1>4

\* Of a literal of nothing but fixed units the bytes are those of the match.
LEMMA FixedPattern ==
  ASSUME Setting, fixed = Len(P)
  PROVE  /\ \A i \in 1..Len(P) : InAscii(i) /\ Fixed(i)
         /\ \A u \in 0..hay.n : Occurs(pats, hay, 0, u) => PatternAt(hay.off[u])
         /\ \A s \in Nat : PatternAt(s) => MatchesSingleAt(s)
<1>0. Typed /\ P \in Seq(DOMAIN Forms) /\ Len(P) \in Nat
      /\ \A i \in 1..Len(P) : P[i] = TokenOf(needle[i])
  BY PatternIs DEF Setting
<1>1. \A i \in 1..Len(P) : Fixed(i)
  BY <1>0, FixedIs DEF Setting
<1>2. \A i \in 1..Len(P) : InAscii(i)
  BY <1>1 DEF Fixed
<1>3. ASSUME NEW u \in 0..hay.n, Occurs(pats, hay, 0, u) PROVE PatternAt(hay.off[u])
  <2>1. ASSUME NEW i \in 1..Len(P) PROVE InAscii(i) /\ Len(Spelling(hay, u + i - 1)) = 1
    <3>1. Spelling(hay, u + i - 1) \in Forms[P[i]]
      BY <1>0, <1>3, OccurrenceUnits
    <3>2. \A f \in Forms[P[i]] : Len(f) = 1
      BY <1>0, <1>1 DEF Fixed
    <3> QED BY <1>2, <3>1, <3>2
  <2> QED BY <1>0, <1>3, <2>1, PatternAtComplete
<1>4. ASSUME NEW s \in Nat, PatternAt(s) PROVE MatchesSingleAt(s)
  BY <1>0, <1>2, <1>4, PatternAtSound DEF MatchesSingleAt
<1> QED BY <1>1, <1>2, <1>3, <1>4

\* The screen on the fixed prefix lets every occurrence through, and behind
\* it the rest is checked.
LEMMA AnchorMatchesIs ==
  ASSUME Setting
  PROVE  /\ \A u \in 0..hay.n : Occurs(pats, hay, 0, u) => AnchorMatches(hay.off[u])
         /\ \A s \in Nat : AnchorMatches(s) => MatchesSingleAt(s)
<1>0. Typed /\ Len(needle) = Len(P) /\ Len(P) \in Nat
  BY PatternIs DEF Setting
<1>1. CASE VerifyTokens
  <2>1. \A u \in 0..hay.n : Occurs(pats, hay, 0, u) => MatchesSingleAt(hay.off[u])
    BY DEF MatchesSingleAt
  <2> QED BY <1>1, <2>1 DEF AnchorMatches
<1>2. CASE ~VerifyTokens
  <2>1. fixed \in 0..Len(P)
    BY <1>0, FixedIs DEF Setting
  <2>2. fixed = Len(P)
    BY <1>0, <1>2, <2>1 DEF VerifyTokens
  <2> QED BY <1>2, <2>2, FixedPattern DEF AnchorMatches
<1> QED BY <1>1, <1>2

\* A match has at least as many bytes as the pattern has units.
LEMMA MatchFits ==
  ASSUME Typed, NEW u \in 0..hay.n, Occurs(pats, hay, 0, u)
  PROVE  hay.off[u] + Len(P) <= Bytes(hay)
<1>0. Len(P) \in Nat /\ IsHaystack(hay) /\ hay.n \in Nat
  BY PatternIs, Scenery
<1>1. u + Len(P) \in 0..hay.n
  BY OccurrenceUnits
<1>2. u + Len(P) <= hay.n
  BY <1>0, <1>1
<1>3. PICK o \in Nat, q \in Nat, e \in Nat :
        o = hay.off[u] /\ q = hay.off[u + Len(P)] /\ e = Bytes(hay) /\ q <= e
  BY <1>1, Scenery
<1>4. q >= o + Len(P)
  BY <1>0, <1>2, <1>3, UnitsHaveBytes
<1> QED BY <1>0, <1>3, <1>4

LiteralSite(u) ==
  CASE route = "byte"  -> hay.off[u] + anchor
    [] route = "probe" -> hay.off[u + anchor[1]] - anchor[1]
    [] route = "pair"  -> hay.off[u]

\* The bytes of a probe are there, from where its first unit puts the start.
LEMMA ProbeThere ==
  ASSUME Setting, NEW p \in Probes, NEW u \in 0..hay.n, Occurs(pats, hay, 0, u)
  PROVE  /\ u + p[1] \in 0..hay.n
         /\ hay.off[u + p[1]] - p[1] \in Nat
         /\ ProbeAt(hay.off[u + p[1]] - p[1], p)
         /\ hay.off[u + p[1]] - p[1] + p[3] < Bytes(hay)
<1>0. Typed /\ Len(P) \in Nat /\ IsHaystack(hay) /\ hay.n \in Nat /\ Bytes(hay) \in Nat
  BY PatternIs, Scenery DEF Setting
<1>1. PICK a \in Nat, b \in Nat, c \in Nat :
        /\ a = p[1] /\ b = p[2] /\ c = p[3] /\ a <= b /\ b <= c /\ c < Len(P)
        /\ \A k \in (a + 1)..(c + 1) : Fixed(k)
  <2>1. p[1] \in Nat
    BY ProbeIs
  <2> QED BY <2>1, ProbeIs
<1>2. a \in 0..Len(P) /\ c + 1 \in a..Len(P)
  BY <1>0, <1>1
<1>3. u + a \in 0..hay.n
  BY <1>0, <1>2, OccurrenceUnits
<1>4. PICK o \in Nat : o = hay.off[u + a]
  BY <1>0, <1>3, Scenery
<1>5. o - a \in Nat
  <2>1. hay.off[u] \in Nat
    BY <1>0, Scenery
  <2>2. o >= hay.off[u] + a
    <3>1. u + a <= hay.n
      BY <1>0, <1>3
    <3> QED BY <1>0, <1>4, <3>1, UnitsHaveBytes
  <2> QED BY <1>4, <2>1, <2>2
<1>6. ASSUME NEW i \in a..c
      PROVE  o - a + i < Bytes(hay) /\ ByteIs(hay.bytes[o - a + i], i)
  <2>1. PICK d \in a..Len(P) : d = c + 1 /\ i \in a..(d - 1)
    BY <1>1, <1>2
  <2>5. \A k \in (a + 1)..d : Fixed(k)
    BY <1>1, <2>1
  <2>2. /\ hay.off[u + i] = hay.off[u + a] + (i - a)
        /\ hay.off[u + i] \in 0..(Bytes(hay) - 1)
        /\ ByteIs(hay.bytes[hay.off[u + i]], i)
    BY <1>0, <1>2, <2>1, <2>5, StretchThere
  <2>3. hay.off[u + i] = o - a + i
    <3>1. hay.off[u + i] = o + (i - a)
      BY <1>4, <2>2, Zenon
    <3> QED BY <3>1
  <2>4. PICK x \in Nat : x = hay.off[u + i] /\ x < Bytes(hay)
    BY <1>0, <2>2
  <2> QED BY <2>2, <2>3, <2>4
<1>7. a \in a..c /\ b \in a..c /\ c \in a..c
  BY <1>1
<1>8. ProbeAt(o - a, p)
  BY <1>1, <1>6, <1>7 DEF ProbeAt, BytesAt
<1> QED BY <1>1, <1>3, <1>4, <1>5, <1>6, <1>7, <1>8

\* The byte that the byte route looks for stands at its place in every
\* occurrence.
LEMMA ByteThere ==
  ASSUME Setting, route = "byte", NEW u \in 0..hay.n, Occurs(pats, hay, 0, u)
  PROVE  /\ fixed >= 3 /\ anchor \in Nat /\ anchor < fixed
         /\ hay.off[u] + anchor < Bytes(hay)
         /\ ByteIs(hay.bytes[hay.off[u] + anchor], anchor)
<1>0. Typed /\ Len(P) \in Nat /\ hay.n \in Nat /\ Bytes(hay) \in Nat
  BY PatternIs, Scenery DEF Setting
<1>1. fixed \in 0..Len(P) /\ \A i \in 1..fixed : Fixed(i)
  BY <1>0, FixedIs DEF Setting
<1>2. fixed >= 3 /\ anchor \in 0..(fixed - 1)
  BY LiteralRouteIs DEF IsUnicode
<1>3. 0 \in 0..Len(P) /\ u + 0 = u
  BY <1>0
<1>4. PICK o \in Nat, i \in Nat : o = hay.off[u] /\ i = anchor
  BY <1>0, <1>1, <1>2, Scenery
<1>5. i \in 0..(fixed - 1)
  BY <1>2, <1>4
<1>6. /\ hay.off[u + i] = hay.off[u + 0] + (i - 0)
      /\ hay.off[u + i] \in 0..(Bytes(hay) - 1)
      /\ ByteIs(hay.bytes[hay.off[u + i]], i)
  <2>1. \A k \in (0 + 1)..fixed : Fixed(k)
    BY <1>1
  <2> QED BY <1>0, <1>1, <1>3, <1>5, <2>1, StretchThere
<1>7. hay.off[u + i] = o + i
  BY <1>3, <1>4, <1>6
<1>8. o + i < Bytes(hay)
  BY <1>0, <1>6, <1>7
<1> QED BY <1>1, <1>2, <1>4, <1>6, <1>7, <1>8

\* The pair route is for patterns of fixed width throughout.
LEMMA PairAtIs ==
  ASSUME Setting, HasPair
  PROVE  /\ fixed = Len(P) /\ PairAt \in Nat /\ PairAt < Len(P)
<1>0. Typed /\ Len(needle) = Len(P) /\ Len(P) \in Nat
  BY PatternIs DEF Setting
<1>1. fixed = Len(P) /\ Len(P) \in PairLens
  BY <1>0 DEF HasPair
<1>2. PairAt \in 1..(Len(P) - 1)
  BY <1>1, LiteralAssumption DEF LiteralAssumption
<1> QED BY <1>0, <1>1, <1>2

\* Where the whole pattern stands so does any probe of it.
LEMMA ProbeInPattern ==
  ASSUME Typed, NEW s, PatternAt(s), NEW p, p[1] \in Nat, p[2] \in Nat, p[3] \in Nat,
         p[1] < Len(P), p[2] < Len(P), p[3] < Len(P)
  PROVE  ProbeAt(s, p)
<1>0. Len(needle) = Len(P) /\ Len(P) \in Nat
  BY PatternIs
<1>1. \A i \in {p[1], p[2], p[3]} : i \in 0..(Len(needle) - 1)
  BY <1>0
<1> QED BY <1>1 DEF PatternAt, ProbeAt, BytesAt

IsScan == route \in {"probe", "pair", "byte"}

\* The limit of the scan is a number.
LEMMA LiteralLimit ==
  ASSUME Setting, route \in {"probe", "pair", "byte", "only", "run"}
  PROVE  L!Limit \in Int
<1>0. Typed /\ Len(needle) = Len(P) /\ Len(P) \in Nat
  BY PatternIs DEF Setting
<1>1. PICK e \in Nat, n \in Nat : e = Bytes(hay) /\ e = L!Bytes(hay) /\ n = Len(needle)
  BY <1>0, Scenery, SharedVocabulary
<1>2. CASE route \in {"byte", "run"}
  BY <1>1, <1>2 DEF L!Limit
<1>3. CASE route \in {"pair", "only"}
  BY <1>1, <1>3 DEF L!Limit
<1>4. CASE route = "probe"
  <2>1. anchor \in Probes
    BY <1>4, LiteralRouteIs DEF IsUnicode
  <2>2. PICK c \in Nat : c = anchor[3]
    BY <2>1, ProbeIs
  <2>3. ProbeLimit(anchor) \in Int
    BY <1>1, <2>2 DEF ProbeLimit
  <2> QED BY <1>4, <2>3, LiteralVocabulary DEF L!Limit
<1> QED BY <1>2, <1>3, <1>4

\* At the probe of an occurrence the kernels stop, before the scan's limit.
LEMMA LiteralSiteStops ==
  ASSUME Setting, IsScan, NEW u \in 0..hay.n, Occurs(pats, hay, 0, u)
  PROVE  /\ LiteralSite(u) \in Nat /\ L!Limit \in Int
         /\ LiteralSite(u) < L!Limit /\ L!Stop(LiteralSite(u))
<1>0. Typed /\ Len(needle) = Len(P) /\ Len(P) \in Nat \ {0}
  BY PatternIs DEF Setting
<1>1. PICK o \in Nat, e \in Nat : o = hay.off[u] /\ e = Bytes(hay) /\ o + Len(P) <= e
  BY <1>0, Scenery, MatchFits
<1>2. L!Bytes(hay) = e
  BY <1>1, SharedVocabulary
<1>3. CASE route = "byte"
  <2>1. PICK i \in Nat : i = anchor
    BY <1>3, ByteThere
  <2>2. o + i < e /\ ByteIs(hay.bytes[o + i], i)
    BY <1>1, <1>3, <2>1, ByteThere
  <2>3. LiteralSite(u) = o + i /\ L!Limit = e
    BY <1>1, <1>2, <1>3, <2>1 DEF LiteralSite, L!Limit
  <2>4. L!Stop(o + i)
    BY <1>3, <2>1, <2>2, LiteralVocabulary DEF L!Stop
  <2> QED BY <2>2, <2>3, <2>4
<1>4. CASE route = "pair"
  <2>1. HasPair /\ anchor = <<0, PairAt, PairAt>>
    BY <1>4, LiteralRouteIs DEF IsUnicode
  <2>2. PatternAt(o)
    BY <1>1, <2>1, PairAtIs, FixedPattern
  <2>3. ProbeAt(o, anchor)
    <3>1. anchor[1] = 0 /\ anchor[2] = PairAt /\ anchor[3] = PairAt
      BY <2>1
    <3>2. /\ anchor[1] \in Nat /\ anchor[2] \in Nat /\ anchor[3] \in Nat
          /\ anchor[1] < Len(P) /\ anchor[2] < Len(P) /\ anchor[3] < Len(P)
      BY <1>0, <2>1, <3>1, PairAtIs
    <3> QED BY <1>0, <2>2, <3>2, ProbeInPattern
  <2>4. LiteralSite(u) = o /\ L!Limit = e - Len(P) + 1
    BY <1>0, <1>1, <1>2, <1>4 DEF LiteralSite, L!Limit
  <2>5. L!Stop(o)
    BY <1>4, <2>3, LiteralVocabulary DEF L!Stop
  <2> QED BY <1>0, <1>1, <2>4, <2>5
<1>5. CASE route = "probe"
  <2>1. anchor \in Probes
    BY <1>5, LiteralRouteIs DEF IsUnicode
  <2>2. PICK s \in Nat, c \in Nat :
          /\ s = hay.off[u + anchor[1]] - anchor[1] /\ c = anchor[3]
          /\ ProbeAt(s, anchor) /\ s + c < e
    BY <1>1, <2>1, ProbeIs, ProbeThere
  <2>3. LiteralSite(u) = s
    BY <1>5, <2>2 DEF LiteralSite
  <2>4. L!Stop(s)
    BY <1>5, <2>2, LiteralVocabulary DEF L!Stop
  <2>5. L!Limit = ProbeLimit(anchor)
    BY <1>5, LiteralVocabulary DEF L!Limit
  <2>6. CASE VerifyTokens
    <3>1. L!Limit = e - c
      BY <1>1, <2>2, <2>5, <2>6 DEF ProbeLimit
    <3> QED BY <2>2, <2>3, <2>4, <3>1
  <2>7. CASE ~VerifyTokens
    <3>1. fixed \in 0..Len(P)
      BY <1>0, FixedIs DEF Setting
    <3>2. fixed = Len(P)
      BY <1>0, <2>7, <3>1 DEF VerifyTokens
    <3>3. anchor[1] = 0
      BY <1>0, <2>1, <3>1, <3>2, ProbeIs
    <3>4. s = o
      <4>1. u + 0 = u
        BY <1>0, Scenery
      <4> QED BY <1>1, <2>2, <3>3, <4>1
    <3>5. L!Limit = e - Len(P) + 1
      BY <1>0, <1>1, <2>5, <2>7 DEF ProbeLimit
    <3> QED BY <1>0, <1>1, <2>3, <2>4, <3>4, <3>5
  <2> QED BY <2>6, <2>7
<1> QED BY <1>3, <1>4, <1>5 DEF IsScan

\* Stepping back one unit from the second unit of an occurrence finds its
\* start.
LEMMA RecoverIs ==
  ASSUME Setting, AsciiOnly, NEW u \in 0..hay.n, Occurs(pats, hay, 0, u)
  PROVE  Recover(hay.off[u + 1], 1) = hay.off[u]
<1>0. /\ Typed /\ Len(P) \in Nat \ {0} /\ Len(needle) = Len(P) /\ DOMAIN needle = 1..Len(P)
      /\ hay.n \in Nat /\ IsHaystack(hay)
  <2>1. Typed /\ Len(P) \in Nat \ {0} /\ Len(needle) = Len(P) /\ hay.n \in Nat /\ IsHaystack(hay)
    BY PatternIs, Scenery DEF Setting
  <2>2. DOMAIN needle = 1..Len(needle)
    BY <2>1, LiteralAssumption DEF LiteralAssumption, Typed
  <2> QED BY <2>1, <2>2
<1>1. 1 \in 1..Len(P) /\ u + 1 - 1 = u
  BY <1>0
<1>2. InAscii(1)
  BY <1>0, <1>1 DEF AsciiOnly
<1>3. u \in 0..(hay.n - 1) /\ u + 1 \in 0..hay.n
  BY <1>0, <1>1, OccurrenceUnits
<1>4. UnitAt(hay, hay.off[u + 1]) = u + 1
  BY <1>0, <1>3, UnitAtOff
<1>5. ~Malformed(u)
  <2> SUFFICES ASSUME Malformed(u) PROVE FALSE
    OBVIOUS
  <2>1. ~hay.ascii[u] /\ hay.off[u + 1] = hay.off[u] + 1
    BY DEF Malformed
  <2>2. PICK w : w = hay.off[u + 1] - hay.off[u]
    OBVIOUS
  <2>3. w = 1
    <3>1. hay.off[u] \in Nat
      BY <1>0, Scenery
    <3> QED BY <2>1, <2>2, <3>1
  <2>4. Len(Spelling(hay, u + 1 - 1)) = 1
    BY <1>0, <1>1, <1>3, <2>2, <2>3, SpellingIs
  <2>5. hay.bytes[hay.off[u + 1 - 1]] \in Ascii
    BY <1>0, <1>1, <1>2, <2>4, AsciiUnitOf
  <2> QED BY <1>0, <1>1, <1>3, <2>1, <2>5, UnitBytes
<1>6. ~(u + 1 < 1) /\ u + 1 - 1 = u /\ (u + 1 - 1)..(u + 1 - 1) = {u}
  BY <1>0
<1> QED BY <1>4, <1>5, <1>6 DEF Recover

\* Where a probe is that holds, a window's first byte begins a unit.
LEMMA WindowIsUnit ==
  ASSUME Setting, AsciiOnly, NEW s \in Nat, s + 1 < Bytes(hay), ByteIs(hay.bytes[s + 1], 1)
  PROVE  \E v \in 0..(hay.n - 1) : hay.off[v] = s + 1
<1>0. /\ Typed /\ Len(P) \in Nat \ {0} /\ Len(needle) = Len(P) /\ DOMAIN needle = 1..Len(P)
      /\ Bytes(hay) \in Nat /\ hay.bytes \in [0..(Bytes(hay) - 1) -> 0..255]
  <2>1. Typed /\ Len(P) \in Nat \ {0} /\ Len(needle) = Len(P) /\ Bytes(hay) \in Nat
    BY PatternIs, Scenery DEF Setting
  <2>2. DOMAIN needle = 1..Len(needle)
    BY <2>1, LiteralAssumption DEF LiteralAssumption, Typed
  <2>3. hay.bytes \in [0..(Bytes(hay) - 1) -> 0..255]
    BY <2>1, Scenery DEF IsSpelled
  <2> QED BY <2>1, <2>2, <2>3
<1>1. 2 \in 1..Len(P) /\ 2 - 1 = 1
  BY <1>0 DEF AsciiOnly
<1>2. InAscii(2)
  BY <1>0, <1>1 DEF AsciiOnly
<1>3. s + 1 \in 0..(Bytes(hay) - 1)
  BY <1>0
<1>4. PICK b \in 0..255 : b = hay.bytes[s + 1]
  BY <1>0, <1>3
<1>5. b \in Ascii
  BY <1>0, <1>1, <1>2, <1>4, ByteIsAscii
<1>6. b \notin Trail
  BY <1>5 DEF Ascii, Trail
<1> QED BY <1>0, <1>3, <1>4, <1>6, InsideUnit

\* At the probe of an occurrence the check behind it succeeds.
LEMMA LiteralSiteConfirmed ==
  ASSUME Setting, IsScan, NEW u \in 0..hay.n, Occurs(pats, hay, 0, u), at = LiteralSite(u)
  PROVE  L!Confirmed
<1>0. Typed /\ hay.n \in Nat
  BY Scenery DEF Setting
<1>1. PICK o \in Nat : o = hay.off[u]
  BY <1>0, Scenery
<1>2. AnchorMatches(o)
  BY <1>1, AnchorMatchesIs
<1>3. ~L!NotAscii
  BY DEF L!NotAscii, IsScan
<1>4. CASE route = "byte"
  <2>1. PICK i \in Nat : i = anchor
    BY <1>4, ByteThere
  <2>2. at = o + i
    BY <1>1, <1>4, <2>1 DEF LiteralSite
  <2>3. L!Start = o
    BY <1>4, <2>1, <2>2 DEF L!Start
  <2>4. ASSUME NEW p \in Probes PROVE ProbeAt(o, p)
    <3>1. p[1] = 0
      BY <1>4, <2>4, ByteThere, ProbeIs
    <3>2. hay.off[u + p[1]] - p[1] = o
      <4>1. u + 0 = u /\ o - 0 = o
        BY <1>0
      <4> QED BY <1>1, <3>1, <4>1
    <3> QED BY <2>4, <3>2, ProbeThere
  <2> QED BY <1>2, <1>3, <1>4, <2>3, <2>4, LiteralVocabulary DEF L!Confirmed
<1>5. CASE route = "pair"
  <2>1. at = o /\ L!Start = o
    BY <1>1, <1>5 DEF LiteralSite, L!Start
  <2>2. PatternAt(o)
    <3>1. HasPair
      BY <1>5, LiteralRouteIs DEF IsUnicode
    <3> QED BY <1>1, <3>1, PairAtIs, FixedPattern
  <2> QED BY <1>3, <1>5, <2>1, <2>2, LiteralVocabulary DEF L!Confirmed
<1>6. CASE route = "probe"
  <2>1. anchor \in Probes
    BY <1>6, LiteralRouteIs DEF IsUnicode
  <2>2. L!Start = StartAt(at, anchor)
    BY <1>6, LiteralVocabulary DEF L!Start
  <2>3. at = hay.off[u + anchor[1]] - anchor[1]
    BY <1>6 DEF LiteralSite
  <2>4. StartAt(at, anchor) = o
    <3>1. CASE anchor[1] = 0
      <4>1. u + 0 = u /\ o - 0 = o
        BY <1>0
      <4> QED BY <1>1, <2>3, <3>1, <4>1 DEF StartAt
    <3>2. CASE anchor[1] = 1
      <4>1. AsciiOnly
        <5>1. ~(fixed >= 3)
          BY <2>1, <3>2, ProbeIs
        <5>2. fixed \in Nat
          BY <1>0, PatternIs, FixedIs DEF Setting
        <5> QED BY <2>1, <5>1, <5>2, ProbeIs
      <4>2. ProbeAt(at, anchor)
        BY <2>1, <2>3, ProbeThere
      <4>3. at + 1 = hay.off[u + 1]
        <5>1. u + 1 \in 0..hay.n
          BY <2>1, <3>2, ProbeThere
        <5>2. hay.off[u + 1] \in Nat
          BY <1>0, <5>1, Scenery
        <5> QED BY <2>3, <3>2, <5>2
      <4>4. Recover(at + 1, 1) = o
        BY <1>1, <4>1, <4>3, RecoverIs
      <4> QED BY <3>2, <4>2, <4>4 DEF StartAt
    <3> QED BY <2>1, <3>1, <3>2, ProbeIs
  <2> QED BY <1>2, <1>3, <1>6, <2>2, <2>4, LiteralVocabulary DEF L!Confirmed
<1> QED BY <1>4, <1>5, <1>6 DEF IsScan

LiteralAhead(s) == \A u \in 0..hay.n : Occurs(pats, hay, 0, u) => LiteralSite(u) >= s

\* A skip passes the probe of no occurrence.
LEMMA LiteralSkips ==
  ASSUME Setting, IsScan, at \in Nat, LiteralAhead(at), L!Skip
  PROVE  at' \in Nat /\ LiteralAhead(at')
<1>1. PICK s \in at..L!Limit : at' = s /\ \A i \in at..(s - 1) : ~L!Stop(i)
  BY DEF L!Skip
<1>2. L!Limit \in Int
  BY LiteralLimit DEF IsScan
<1>3. at' \in Nat /\ at' >= at
  BY <1>1, <1>2
<1>4. ASSUME NEW u \in 0..hay.n, Occurs(pats, hay, 0, u) PROVE LiteralSite(u) >= at'
  <2>1. PICK x \in Nat : x = LiteralSite(u)
    BY <1>4, LiteralSiteStops
  <2>2. x >= at /\ L!Stop(x)
    BY <1>4, <2>1, LiteralSiteStops DEF LiteralAhead
  <2>3. PICK n \in Nat : n = at'
    BY <1>3
  <2>4. ~(x \in at..(n - 1))
    BY <1>1, <2>2, <2>3
  <2> QED BY <2>1, <2>2, <2>3, <2>4
<1> QED BY <1>3, <1>4 DEF LiteralAhead

\* A candidate that is rejected is no occurrence.
LEMMA LiteralRejects ==
  ASSUME Setting, IsScan, at \in Nat, LiteralAhead(at), L!Reject
  PROVE  at' \in Nat /\ LiteralAhead(at')
<1>1. at' = at + 1 /\ ~L!Confirmed
  BY DEF L!Reject
<1>2. ASSUME NEW u \in 0..hay.n, Occurs(pats, hay, 0, u) PROVE LiteralSite(u) >= at + 1
  <2>1. PICK x \in Nat : x = LiteralSite(u)
    BY <1>2, LiteralSiteStops
  <2>2. x # at
    BY <1>1, <1>2, <2>1, LiteralSiteConfirmed
  <2>3. x >= at
    BY <1>2, <2>1 DEF LiteralAhead
  <2> QED BY <2>1, <2>2, <2>3
<1> QED BY <1>1, <1>2 DEF LiteralAhead

\* At the end of the scan nothing occurs.
LEMMA LiteralExhausts ==
  ASSUME Setting, IsScan, at \in Nat, LiteralAhead(at), L!Exhausted
  PROVE  IsAnswer(pats, hay, answer')
<1>0. Typed
  BY DEF Setting
<1>1. at >= L!Limit /\ answer' = NoMatch
  BY SharedVocabulary DEF L!Exhausted, L!Answer
<1>2. ASSUME NEW u \in 0..hay.n, Occurs(pats, hay, 0, u) PROVE FALSE
  <2>1. PICK x \in Nat, l \in Int : x = LiteralSite(u) /\ l = L!Limit
    BY <1>2, LiteralSiteStops
  <2>2. x < l /\ x >= at
    BY <1>2, <2>1, LiteralSiteStops DEF LiteralAhead
  <2> QED BY <1>1, <2>1, <2>2
<1> QED BY <1>0, <1>1, <1>2, NothingAnswers

\* The first match that is accepted is the leftmost.
LEMMA LiteralAccepts ==
  ASSUME Setting, IsScan, at \in Nat, LiteralAhead(at), L!Accept
  PROVE  IsAnswer(pats, hay, answer')
<1>0. Typed /\ hay.n \in Nat
  BY Scenery DEF Setting
<1>1. L!Confirmed /\ answer' = [pattern |-> 0, start |-> L!Start]
  BY DEF L!Accept, L!Answer, L!MatchAt
<1>2. CASE route = "byte"
  <2>1. L!Start = at - anchor /\ L!Start >= 0 /\ AnchorMatches(L!Start)
    BY <1>1, <1>2, LiteralVocabulary DEF L!Start, L!Confirmed
  <2>2. PICK i \in Nat : i = anchor
    <3>1. fixed \in Nat
      BY <1>0, PatternIs, FixedIs DEF Setting
    <3> QED BY <1>2, <3>1, LiteralRouteIs DEF IsUnicode
  <2>3. PICK s \in Nat : s = L!Start /\ s + i = at
    BY <2>1, <2>2
  <2>4. MatchesSingleAt(s)
    BY <2>1, <2>3, AnchorMatchesIs
  <2>5. ASSUME NEW u \in 0..hay.n, Occurs(pats, hay, 0, u) PROVE s <= hay.off[u]
    <3>1. PICK o \in Nat : o = hay.off[u]
      BY <1>0, Scenery
    <3>2. o + i >= at
      BY <1>2, <2>2, <2>5, <3>1 DEF LiteralAhead, LiteralSite
    <3> QED BY <2>3, <3>1, <3>2
  <2> QED BY <1>0, <1>1, <2>3, <2>4, <2>5, LeftmostAnswers DEF IsLeftmost
<1>3. CASE route = "pair"
  <2>1. L!Start = at /\ PatternAt(at)
    BY <1>1, <1>3, LiteralVocabulary DEF L!Start, L!Confirmed
  <2>2. MatchesSingleAt(at)
    <3>1. HasPair
      BY <1>3, LiteralRouteIs DEF IsUnicode
    <3> QED BY <2>1, <3>1, PairAtIs, FixedPattern
  <2>3. ASSUME NEW u \in 0..hay.n, Occurs(pats, hay, 0, u) PROVE at <= hay.off[u]
    <3>1. PICK o \in Nat : o = hay.off[u]
      BY <1>0, Scenery
    <3>2. o >= at
      BY <1>3, <2>3, <3>1 DEF LiteralAhead, LiteralSite
    <3> QED BY <3>1, <3>2
  <2> QED BY <1>0, <1>1, <2>1, <2>2, <2>3, LeftmostAnswers DEF IsLeftmost
<1>4. CASE route = "probe"
  <2>1. anchor \in Probes
    BY <1>4, LiteralRouteIs DEF IsUnicode
  <2>2. L!Start = StartAt(at, anchor) /\ L!Start >= 0 /\ AnchorMatches(L!Start)
    BY <1>1, <1>4, LiteralVocabulary DEF L!Start, L!Confirmed
  <2>3. CASE anchor[1] = 0
    <3>1. L!Start = at
      BY <2>2, <2>3 DEF StartAt
    <3>2. MatchesSingleAt(at)
      BY <2>2, <3>1, AnchorMatchesIs
    <3>3. ASSUME NEW u \in 0..hay.n, Occurs(pats, hay, 0, u) PROVE at <= hay.off[u]
      <4>1. PICK o \in Nat : o = hay.off[u]
        BY <1>0, Scenery
      <4>2. hay.off[u + anchor[1]] - anchor[1] = o
        <5>1. u + 0 = u /\ o - 0 = o
          BY <1>0
        <5> QED BY <2>3, <4>1, <5>1
      <4>3. o >= at
        BY <1>4, <3>3, <4>2 DEF LiteralAhead, LiteralSite
      <4> QED BY <4>1, <4>3
    <3> QED BY <1>0, <1>1, <3>1, <3>2, <3>3, LeftmostAnswers DEF IsLeftmost
  <2>4. CASE anchor[1] = 1
    <3>1. AsciiOnly
      <4>1. ~(fixed >= 3)
        BY <2>1, <2>4, ProbeIs
      <4>2. fixed \in Nat
        BY <1>0, PatternIs, FixedIs DEF Setting
      <4> QED BY <2>1, <4>1, <4>2, ProbeIs
    <3>2. ProbeAt(at, anchor) /\ L!Start = Recover(at + 1, 1)
      <4>1. L!Start = IF ProbeAt(at, anchor) THEN Recover(at + 1, 1) ELSE -1
        BY <2>2, <2>4 DEF StartAt
      <4> QED BY <2>2, <4>1
    <3>3. at + 1 < Bytes(hay) /\ ByteIs(hay.bytes[at + 1], 1)
      BY <2>4, <3>2 DEF ProbeAt, BytesAt
    <3>4. PICK v \in 0..(hay.n - 1) : hay.off[v] = at + 1
      BY <3>1, <3>3, WindowIsUnit
    <3>5. UnitAt(hay, at + 1) = v
      <4>1. v \in 0..hay.n
        BY <1>0
      <4> QED BY <1>0, <3>4, <4>1, UnitAtOff, Scenery
    <3>6. v >= 1 /\ L!Start = hay.off[v - 1]
      <4>1. L!Start = IF v < 1 \/ \E x \in (v - 1)..(v - 1) : Malformed(x) THEN -1 ELSE hay.off[v - 1]
        BY <3>2, <3>5 DEF Recover
      <4>2. ~(v < 1)
        BY <2>2, <4>1
      <4>3. L!Start = hay.off[v - 1]
        BY <2>2, <4>1
      <4> QED BY <1>0, <4>2, <4>3
    <3>7. PICK w \in 0..hay.n : w = v - 1
      BY <1>0, <3>6
    <3>8. PICK s \in Nat : s = hay.off[w] /\ s = L!Start
      BY <1>0, <3>6, <3>7, Scenery
    <3>9. MatchesSingleAt(s)
      BY <2>2, <3>8, AnchorMatchesIs
    <3>10. ASSUME NEW u \in 0..hay.n, Occurs(pats, hay, 0, u) PROVE s <= hay.off[u]
      <4>1. u + 1 \in 0..hay.n
        BY <2>1, <2>4, <3>10, ProbeThere
      <4>2. hay.off[u + 1] >= at + 1
        <5>1. hay.off[u + 1] \in Nat
          BY <1>0, <4>1, Scenery
        <5>2. hay.off[u + 1] - 1 >= at
          BY <1>4, <2>4, <3>10 DEF LiteralAhead, LiteralSite
        <5> QED BY <5>1, <5>2
      <4>3. v <= u + 1
        <5>1. v \in 0..hay.n /\ hay.off[v] <= hay.off[u + 1]
          <6>1. hay.off[u + 1] \in Nat
            BY <1>0, <4>1, Scenery
          <6> QED BY <1>0, <3>4, <4>2, <6>1
        <5> QED BY <1>0, <4>1, <5>1, OffOrder
      <4>4. w <= u
        BY <1>0, <3>7, <4>3
      <4> QED BY <1>0, <3>8, <4>4, OffOrder
    <3> QED BY <1>0, <1>1, <3>8, <3>9, <3>10, LeftmostAnswers DEF IsLeftmost
  <2> QED BY <2>1, <2>3, <2>4, ProbeIs
<1> QED BY <1>2, <1>3, <1>4 DEF IsScan

\* A literal with a pair may be answered where the haystack begins.
LEMMA FirstAnswers ==
  ASSUME Setting, HasPair, PatternAt(0)
  PROVE  IsAnswer(pats, hay, [pattern |-> 0, start |-> 0])
<1>0. Typed
  BY DEF Setting
<1>1. MatchesSingleAt(0)
  BY PairAtIs, FixedPattern
<1>2. \A u \in 0..hay.n : 0 <= hay.off[u]
  BY <1>0, Scenery
<1> QED BY <1>0, <1>1, <1>2, LeftmostAnswers DEF IsLeftmost

-----------------------------------------------------------------------------
(***************************************************************************)
(* The route for what is all ASCII: of a match it meets the start or,      *)
(* before anything else that could answer, a byte that hands over.         *)
(***************************************************************************)
Clue(u, i) ==
  \/ i = hay.off[u] /\ PatternAt(i)
  \/ i \in hay.off[u]..(hay.off[u] + Len(P) - 1) /\ i < Bytes(hay) /\ hay.bytes[i] \notin Ascii

OnlyAhead(s) ==
  \A u \in 0..hay.n : Occurs(pats, hay, 0, u) => \E i \in Nat : i >= s /\ Clue(u, i)

\* What the ASCII-only route says of the plan.
LEMMA OnlyIs ==
  ASSUME Setting, route = "only"
  PROVE  /\ Len(P) >= 3 /\ \A i \in 1..Len(P) : InAscii(i)
         /\ L!Limit = Bytes(hay) - Len(P) + 1
         /\ \A i : PatternAt(i) => L!Stop(i)
         /\ \A i : L!High(i) <=> hay.bytes[i] \notin Ascii
<1>0. /\ Typed /\ Len(P) \in Nat \ {0} /\ Len(needle) = Len(P)
      /\ DOMAIN needle = 1..Len(P)
  <2>1. Typed /\ Len(P) \in Nat \ {0} /\ Len(needle) = Len(P)
    BY PatternIs DEF Setting
  <2>2. DOMAIN needle = 1..Len(needle)
    BY <2>1, LiteralAssumption DEF LiteralAssumption, Typed
  <2> QED BY <2>1, <2>2
<1>1. AsciiOnly /\ anchor = L!OnlyProbe
  BY LiteralRouteIs DEF IsUnicode
<1>2. Len(P) >= 3 /\ \A i \in 1..Len(P) : InAscii(i)
  BY <1>0, <1>1 DEF AsciiOnly
<1>3. PICK n \in Nat : n = Len(P) /\ n >= 3
  BY <1>0, <1>2
<1>4. anchor[1] = 0 /\ anchor[3] = n - 1 /\ anchor[2] \in {n - 1, n \div 2}
  BY <1>0, <1>1, <1>3 DEF L!OnlyProbe
<1>5. n \div 2 \in Nat /\ n \div 2 < n
  BY <1>3
<1>6. ASSUME NEW i, PatternAt(i) PROVE ProbeAt(i, anchor)
  <2>1. anchor[2] \in Nat /\ anchor[2] < n
    BY <1>3, <1>4, <1>5
  <2>2. /\ anchor[1] \in Nat /\ anchor[2] \in Nat /\ anchor[3] \in Nat
        /\ anchor[1] < n /\ anchor[2] < n /\ anchor[3] < n
    BY <1>3, <1>4, <2>1
  <2> QED BY <1>0, <1>3, <1>6, <2>2, ProbeInPattern
<1>7. L!Limit = Bytes(hay) - Len(P) + 1
  BY <1>0, SharedVocabulary DEF L!Limit
<1>8. \A i : PatternAt(i) => L!Stop(i)
  BY <1>6, LiteralVocabulary DEF L!Stop
<1>9. \A i : L!High(i) <=> hay.bytes[i] \notin Ascii
  BY SharedVocabulary DEF L!High
<1> QED BY <1>2, <1>7, <1>8, <1>9

\* Every occurrence leaves the ASCII-only scan a clue: its bytes in ASCII, or
\* a high byte.
LEMMA ClueThere ==
  ASSUME Setting, route = "only", NEW u \in 0..hay.n, Occurs(pats, hay, 0, u)
  PROVE  \E i \in Nat : i >= 0 /\ Clue(u, i)
<1>0. /\ Typed /\ Len(P) \in Nat \ {0} /\ P \in Seq(DOMAIN Forms) /\ hay.n \in Nat
      /\ \A i \in 1..Len(P) : InAscii(i)
  BY PatternIs, Scenery, OnlyIs DEF Setting
<1>1. PICK o \in Nat : o = hay.off[u]
  BY <1>0, Scenery
<1> DEFINE Wide == {k \in 1..Len(P) : Len(Spelling(hay, u + k - 1)) # 1}
<1>2. CASE Wide = {}
  <2>1. PatternAt(o)
    BY <1>0, <1>1, <1>2, PatternAtComplete
  <2> QED BY <1>1, <2>1 DEF Clue
<1>3. CASE Wide # {}
  <2>1. PICK k \in Wide : \A m \in Wide : k <= m
    <3>1. Wide \in SUBSET Nat
      BY <1>0
    <3> HIDE DEF Wide
    <3> QED BY <1>3, <3>1, Least
  <2>2. k \in 1..Len(P) /\ Len(Spelling(hay, u + k - 1)) # 1
    OBVIOUS
  <2> DEFINE Bad == {j \in 0..(k - 1) : hay.off[u + j] # o + j}
  <2>3. Bad = {}
    <3> SUFFICES ASSUME Bad # {} PROVE FALSE
      OBVIOUS
    <3>1. PICK j \in Bad : \A m \in Bad : j <= m
      <4>1. Bad \in SUBSET Nat
        BY <1>0, <2>2
      <4> HIDE DEF Bad
      <4> QED BY <4>1, Least
    <3>2. j \in 0..(k - 1) /\ hay.off[u + j] # o + j
      OBVIOUS
    <3>3. j # 0
      <4>1. u + 0 = u /\ o + 0 = o
        BY <1>0
      <4> QED BY <1>1, <3>2, <4>1
    <3>4. PICK i \in Nat : i = j - 1
      BY <2>2, <3>2, <3>3
    <3>5. i \in 0..(k - 1) /\ ~(j <= i) /\ j \in 1..Len(P) /\ ~(k <= j) /\ u + j - 1 = u + i
      BY <1>0, <2>2, <3>2, <3>3, <3>4
    <3>6. hay.off[u + i] = o + i
      BY <3>1, <3>5
    <3>7. Len(Spelling(hay, u + j - 1)) = 1
      BY <2>1, <3>5
    <3>8. hay.off[u + j] = hay.off[u + i] + 1
      <4>1. hay.off[u + j] = hay.off[u + j - 1] + Len(Spelling(hay, u + j - 1))
        BY <1>0, <3>5, OccurrenceUnits
      <4> QED BY <3>5, <3>7, <4>1
    <3> QED BY <3>2, <3>4, <3>6, <3>8
  <2>4. PICK m \in Nat : m = k - 1
    BY <2>2
  <2>5. m \in 0..(k - 1) /\ u + k - 1 = u + m
    BY <1>0, <2>2, <2>4
  <2>6. hay.off[u + m] = o + m
    BY <2>3, <2>5
  <2>7. u + m \in 0..(hay.n - 1) /\ Spelling(hay, u + m) \in Forms[P[k]]
    BY <1>0, <2>2, <2>5, OccurrenceUnits
  <2>8. P[k] \in DOMAIN Forms
    BY <1>0, <2>2
  <2> DEFINE f == Spelling(hay, u + m)
  <2>9. f[1] > 191 /\ f[1] = hay.bytes[o + m]
    <3>1. PICK w : w = hay.off[u + m + 1] - hay.off[u + m]
      OBVIOUS
    <3>2. w \in Nat \ {0} /\ Len(f) = w /\ \A i \in 1..w : f[i] = hay.bytes[hay.off[u + m] + i - 1]
      BY <1>0, <2>7, <3>1, SpellingIs
    <3>3. f[1] = hay.bytes[o + m]
      <4>1. 1 \in 1..w /\ o + m + 1 - 1 = o + m
        BY <3>2
      <4> QED BY <2>6, <3>2, <4>1
    <3>4. Len(f) > 1
      <4>1. w # 1
        BY <2>2, <2>5, <3>2
      <4> QED BY <3>2, <4>1
    <3> QED BY <2>7, <2>8, <3>3, <3>4, FormTyped
  <2>10. hay.bytes[o + m] \notin Ascii /\ o + m < Bytes(hay)
    <3>1. hay.bytes[o + m] \notin Ascii
      <4>1. PICK b : b = hay.bytes[o + m]
        OBVIOUS
      <4>2. b > 191
        BY <2>9, <4>1
      <4>3. \A x \in Ascii : ~(x > 191)
        BY DEF Ascii
      <4> QED BY <4>1, <4>2, <4>3
    <3>2. o + m < Bytes(hay)
      BY <1>0, <2>6, <2>7, UnitBytes
    <3> QED BY <3>1, <3>2
  <2>11. o + m \in o..(o + Len(P) - 1)
    BY <1>0, <2>2, <2>4
  <2>12. o + m \in Nat /\ o + m >= 0
    OBVIOUS
  <2> QED BY <1>1, <2>10, <2>11, <2>12 DEF Clue
<1> QED BY <1>2, <1>3

\* A skip passes no clue.
LEMMA OnlySkips ==
  ASSUME Setting, route = "only", at \in Nat, OnlyAhead(at), L!Skip
  PROVE  at' \in Nat /\ OnlyAhead(at')
<1>1. PICK s \in at..L!Limit : at' = s /\ \A i \in at..(s - 1) : ~L!Stop(i)
  BY DEF L!Skip
<1>2. L!Limit \in Int
  BY LiteralLimit
<1>3. PICK n \in Nat : n = at' /\ n >= at
  BY <1>1, <1>2
<1>4. ASSUME NEW u \in 0..hay.n, Occurs(pats, hay, 0, u)
      PROVE  \E i \in Nat : i >= n /\ Clue(u, i)
  <2>1. PICK i \in Nat : i >= at /\ Clue(u, i)
    BY <1>4 DEF OnlyAhead
  <2>2. L!Stop(i)
    <3>1. CASE PatternAt(i)
      BY <3>1, OnlyIs
    <3>2. CASE hay.bytes[i] \notin Ascii
      BY <3>2, OnlyIs DEF L!Stop
    <3> QED BY <2>1, <3>1, <3>2 DEF Clue
  <2>3. ~(i \in at..(n - 1))
    BY <1>1, <1>3, <2>2
  <2>4. i >= n
    BY <2>1, <2>3
  <2> QED BY <2>1, <2>4
<1> QED BY <1>3, <1>4 DEF OnlyAhead

\* A place that is rejected is no clue.
LEMMA OnlyRejects ==
  ASSUME Setting, route = "only", at \in Nat, OnlyAhead(at), L!Reject
  PROVE  at' \in Nat /\ OnlyAhead(at')
<1>1. at' = at + 1 /\ ~L!Confirmed /\ ~L!NotAscii
  BY DEF L!Reject
<1>2. ~PatternAt(at)
  <2>1. L!Start = at
    BY DEF L!Start
  <2> QED BY <1>1, <2>1, LiteralVocabulary DEF L!Confirmed
<1>3. hay.bytes[at] \in Ascii
  BY <1>1, OnlyIs DEF L!NotAscii
<1>4. ASSUME NEW u \in 0..hay.n, Occurs(pats, hay, 0, u)
      PROVE  \E i \in Nat : i >= at + 1 /\ Clue(u, i)
  <2>1. PICK i \in Nat : i >= at /\ Clue(u, i)
    BY <1>4 DEF OnlyAhead
  <2>2. i # at
    BY <1>2, <1>3, <2>1 DEF Clue
  <2> QED BY <2>1, <2>2
<1> QED BY <1>1, <1>4 DEF OnlyAhead

\* What is accepted before any other clue is the leftmost match.
LEMMA OnlyAccepts ==
  ASSUME Setting, route = "only", at \in Nat, OnlyAhead(at), L!Accept
  PROVE  IsAnswer(pats, hay, answer')
<1>0. Typed /\ Len(needle) = Len(P) /\ Len(P) \in Nat
  BY PatternIs DEF Setting
<1>1. answer' = [pattern |-> 0, start |-> at] /\ PatternAt(at)
  BY LiteralVocabulary DEF L!Accept, L!Answer, L!MatchAt, L!Start, L!Confirmed
<1>2. MatchesSingleAt(at)
  BY <1>0, <1>1, OnlyIs, PatternAtSound DEF MatchesSingleAt
<1>3. ASSUME NEW u \in 0..hay.n, Occurs(pats, hay, 0, u) PROVE at <= hay.off[u]
  <2>1. PICK o \in Nat : o = hay.off[u]
    BY <1>0, Scenery
  <2>2. PICK i \in Nat : i >= at /\ Clue(u, i)
    BY <1>3 DEF OnlyAhead
  <2>3. CASE i = o
    BY <2>1, <2>2, <2>3
  <2>4. CASE i # o
    <3>1. i \in o..(o + Len(P) - 1) /\ i < Bytes(hay) /\ hay.bytes[i] \notin Ascii
      BY <2>1, <2>2, <2>4 DEF Clue
    <3> SUFFICES ASSUME ~(at <= o) PROVE FALSE
      BY <2>1
    <3>2. PICK k \in Nat : k = i - at
      BY <2>2
    <3>3. k \in 0..(Len(needle) - 1) /\ at + k = i
      BY <1>0, <2>2, <3>1, <3>2
    <3>4. ByteIs(hay.bytes[i], k)
      BY <1>1, <3>3 DEF PatternAt, BytesAt
    <3>5. PICK j \in 1..Len(P) : j = k + 1 /\ j - 1 = k
      BY <1>0, <3>3
    <3>6. PICK b \in 0..255 : b = hay.bytes[i]
      <4>1. hay.bytes \in [0..(Bytes(hay) - 1) -> 0..255] /\ Bytes(hay) \in Nat
        BY <1>0, Scenery DEF IsSpelled
      <4>2. i \in 0..(Bytes(hay) - 1)
        BY <3>1, <4>1
      <4> QED BY <4>1, <4>2
    <3>7. ByteIs(b, j - 1)
      BY <3>4, <3>5, <3>6
    <3>8. InAscii(j)
      BY <3>5, OnlyIs
    <3>9. b \in Ascii
      BY <1>0, <3>5, <3>7, <3>8, ByteIsAscii
    <3> QED BY <3>1, <3>6, <3>9
  <2> QED BY <2>3, <2>4
<1> QED BY <1>0, <1>1, <1>2, <1>3, LeftmostAnswers DEF IsLeftmost

\* At the end of the scan nothing occurs.
LEMMA OnlyExhausts ==
  ASSUME Setting, route = "only", at \in Nat, OnlyAhead(at), L!Exhausted
  PROVE  IsAnswer(pats, hay, answer')
<1>0. Typed /\ Len(needle) = Len(P) /\ Len(P) \in Nat
  BY PatternIs DEF Setting
<1>1. at >= L!Limit /\ ~L!MustHandOver /\ answer' = NoMatch
  BY SharedVocabulary DEF L!Exhausted, L!Answer
<1>2. ASSUME NEW u \in 0..hay.n, Occurs(pats, hay, 0, u) PROVE FALSE
  <2>1. PICK o \in Nat, e \in Nat, n \in Nat :
          o = hay.off[u] /\ e = Bytes(hay) /\ n = Len(P) /\ o + n <= e
    BY <1>0, <1>2, Scenery, MatchFits
  <2>2. PICK i \in Nat : i >= at /\ Clue(u, i)
    BY <1>2 DEF OnlyAhead
  <2>3. L!Limit = e - n + 1
    BY <2>1, OnlyIs
  <2>4. CASE i = o
    BY <1>1, <2>1, <2>2, <2>3, <2>4
  <2>5. CASE i # o
    <3>1. i < e /\ hay.bytes[i] \notin Ascii
      BY <2>1, <2>2, <2>5 DEF Clue
    <3>2. i \in (e - n + 1)..(e - 1) /\ ~(e - n + 1 < 0)
      <4>1. at >= e - n + 1
        BY <1>1, <2>3
      <4>2. o + n <= e
        BY <2>1
      <4> QED BY <2>2, <3>1, <4>1, <4>2
    <3>3. L!High(i)
      BY <3>1, OnlyIs
    <3>4. L!MustHandOver
      <4>1. L!Bytes(hay) = e
        BY <2>1, SharedVocabulary
      <4> QED BY <2>3, <3>2, <3>3, <4>1 DEF L!MustHandOver
    <3> QED BY <1>1, <3>4
  <2> QED BY <2>4, <2>5
<1> QED BY <1>0, <1>1, <1>2, NothingAnswers

-----------------------------------------------------------------------------
(***************************************************************************)
(* The route for a run: what is read of the current one, and no match may  *)
(* begin in front of it.                                                   *)
(***************************************************************************)
RunAhead(s, r, first) ==
  /\ r \in Nat /\ r < Len(P) /\ r <= s
  /\ r > 0 => first = s - r
  /\ \A i \in (s - r)..(s - 1) : L!Equal(i)
  /\ \A u \in 0..hay.n : Occurs(pats, hay, 0, u) => hay.off[u] >= s - r

\* What the route for a run says of the plan.
LEMMA RunIs ==
  ASSUME Setting, route = "run"
  PROVE  /\ fixed = Len(P) /\ Len(P) >= 3 /\ anchor \in Nat
         /\ \A b : \A i \in 0..(Len(P) - 1) : ByteIs(b, i) <=> ByteIs(b, 0)
<1>0. /\ Typed /\ Len(P) \in Nat /\ Len(needle) = Len(P)
      /\ DOMAIN needle = 1..Len(P)
  <2>1. Typed /\ Len(P) \in Nat \ {0} /\ Len(needle) = Len(P)
    BY PatternIs DEF Setting
  <2>2. DOMAIN needle = 1..Len(needle)
    BY <2>1, LiteralAssumption DEF LiteralAssumption, Typed
  <2> QED BY <2>1, <2>2
<1>1. IsRun /\ anchor \in Nat
  BY LiteralRouteIs DEF IsUnicode
<1>2. fixed = Len(P) /\ Len(P) >= 3 /\ SameByte
  BY <1>0, <1>1 DEF IsRun, SameByte
<1>3. ASSUME NEW b, NEW i \in 0..(Len(P) - 1) PROVE ByteIs(b, i) <=> ByteIs(b, 0)
  <2>1. PICK j \in 1..Len(P) : j = i + 1
    BY <1>0
  <2>2. \/ needle[j] = needle[1]
        \/ /\ IsLetter(needle[j][1]) /\ IsLetter(needle[1][1])
           /\ Lower(needle[j][1]) = Lower(needle[1][1])
    BY <1>0, <1>2 DEF SameByte
  <2>3. 0 + 1 = 1
    OBVIOUS
  <2>4. /\ ByteIs(b, i) <=> IF IsLetter(needle[j][1]) THEN Lower(b) = Lower(needle[j][1])
                                                      ELSE b = needle[j][1]
        /\ ByteIs(b, 0) <=> IF IsLetter(needle[1][1]) THEN Lower(b) = Lower(needle[1][1])
                                                      ELSE b = needle[1][1]
    BY <2>1, <2>3 DEF ByteIs
  <2> HIDE DEF IsLetter, Lower
  <2> QED BY <2>2, <2>4, Zenon
<1> QED BY <1>1, <1>2, <1>3

\* As many equal bytes as the pattern has are a match.
LEMMA RunIsMatch ==
  ASSUME Setting, route = "run", NEW s \in Nat, s + Len(P) <= Bytes(hay),
         \A i \in s..(s + Len(P) - 1) : L!Equal(i)
  PROVE  MatchesSingleAt(s)
<1>0. Typed /\ Len(P) \in Nat /\ Len(needle) = Len(P) /\ Bytes(hay) \in Nat
  BY PatternIs, Scenery DEF Setting
<1>1. ASSUME NEW i \in 0..(Len(needle) - 1)
      PROVE  s + i < Bytes(hay) /\ ByteIs(hay.bytes[s + i], i)
  <2>1. s + i \in s..(s + Len(P) - 1) /\ i \in 0..(Len(P) - 1)
    BY <1>0
  <2>2. ByteIs(hay.bytes[s + i], 0)
    BY <2>1, LiteralVocabulary DEF L!Equal
  <2>3. ByteIs(hay.bytes[s + i], i)
    BY <2>1, <2>2, RunIs
  <2> QED BY <1>0, <2>1, <2>3
<1>2. PatternAt(s)
  BY <1>1 DEF PatternAt, BytesAt
<1> QED BY <1>2, RunIs, FixedPattern

\* A match is as many equal bytes.
LEMMA MatchIsRun ==
  ASSUME Setting, route = "run", NEW u \in 0..hay.n, Occurs(pats, hay, 0, u)
  PROVE  /\ hay.off[u] + Len(P) <= Bytes(hay)
         /\ \A i \in hay.off[u]..(hay.off[u] + Len(P) - 1) : L!Equal(i)
<1>0. Typed /\ Len(P) \in Nat /\ Len(needle) = Len(P)
  BY PatternIs DEF Setting
<1>1. PICK o \in Nat : o = hay.off[u]
  BY <1>0, Scenery
<1>2. PatternAt(o)
  BY <1>1, RunIs, FixedPattern
<1>3. ASSUME NEW i \in o..(o + Len(P) - 1) PROVE L!Equal(i)
  <2>1. PICK k \in Nat : k = i - o
    OBVIOUS
  <2>2. k \in 0..(Len(needle) - 1) /\ k \in 0..(Len(P) - 1) /\ o + k = i
    BY <1>0, <2>1
  <2>3. ByteIs(hay.bytes[i], k)
    BY <1>2, <2>2 DEF PatternAt, BytesAt
  <2>4. ByteIs(hay.bytes[i], 0)
    BY <2>2, <2>3, RunIs
  <2> QED BY <2>4, LiteralVocabulary DEF L!Equal
<1> QED BY <1>0, <1>1, <1>3, MatchFits

\* The first byte of the run that a gap is a part of.
LEMMA FromIs ==
  ASSUME Setting, route = "run", at \in Nat, RunAhead(at, run, runStart), NEW x
  PROVE  L!From(x) = IF x = at THEN at - run ELSE x
<1>1. run \in Nat /\ (run > 0 => runStart = at - run)
  BY DEF RunAhead
<1>2. CASE x = at /\ run > 0
  BY <1>1, <1>2 DEF L!From, L!GoesOn
<1>3. CASE x = at /\ ~(run > 0)
  <2>1. run = 0 /\ at - run = at
    BY <1>1, <1>3
  <2> QED BY <1>3, <2>1 DEF L!From, L!GoesOn
<1>4. CASE x # at
  BY <1>4 DEF L!From, L!GoesOn
<1> QED BY <1>2, <1>3, <1>4

\* The tail of the run scan, byte by byte, keeps account of the run, and
\* stops at the leftmost match.
LEMMA RunBytes ==
  ASSUME Setting, route = "run", at \in Nat, RunAhead(at, run, runStart), L!RunByte
  PROVE  /\ UNCHANGED phase => /\ at' \in Nat /\ RunAhead(at', run', runStart')
                               /\ UNCHANGED answer
         /\ ~UNCHANGED phase => phase' = "done" /\ IsAnswer(pats, hay, answer')
<1>0. Typed /\ Len(P) \in Nat /\ Len(needle) = Len(P)
  BY PatternIs DEF Setting
<1>1. PICK r \in Nat, n \in Nat, e \in Nat : r = run /\ n = Len(P) /\ e = Bytes(hay)
  BY <1>0, Scenery DEF RunAhead
<1>2. /\ r < n /\ r <= at /\ at < e
      /\ \A i \in (at - r)..(at - 1) : L!Equal(i)
      /\ \A u \in 0..hay.n : Occurs(pats, hay, 0, u) => hay.off[u] >= at - r
  BY <1>1, SharedVocabulary DEF RunAhead, L!RunByte
<1>3. L!From(at) = at - r
  BY <1>1, FromIs
<1>4. phase = "skip"
  BY DEF L!RunByte
<1>5. L!Equal(at) => \A i \in (at - r)..at : L!Equal(i)
  BY <1>2
<1>6. CASE L!Equal(at) /\ run + 1 >= Len(needle) /\ L!Answer(L!MatchAt(L!From(at)))
  <2>1. phase' = "done" /\ answer' = [pattern |-> 0, start |-> at - r]
    BY <1>3, <1>6 DEF L!Answer, L!MatchAt
  <2>2. PICK s \in Nat : s = at - r
    BY <1>2
  <2>3. s + n = at + 1
    BY <1>0, <1>1, <1>2, <1>6, <2>2
  <2>4. MatchesSingleAt(s)
    <3>1. \A i \in s..(s + n - 1) : L!Equal(i)
      BY <1>5, <1>6, <2>2, <2>3
    <3>2. s + n <= e
      BY <1>2, <2>3
    <3> QED BY <1>1, <3>1, <3>2, RunIsMatch
  <2>5. ASSUME NEW u \in 0..hay.n, Occurs(pats, hay, 0, u) PROVE s <= hay.off[u]
    <3>1. PICK o \in Nat : o = hay.off[u]
      BY <1>0, Scenery
    <3>2. o >= at - r
      BY <1>2, <2>5, <3>1
    <3> QED BY <2>2, <3>1, <3>2
  <2>6. IsAnswer(pats, hay, answer')
    BY <1>0, <2>1, <2>2, <2>4, <2>5, LeftmostAnswers DEF IsLeftmost
  <2> QED BY <1>4, <2>1, <2>6
<1>7. CASE /\ L!Equal(at) /\ run + 1 < Len(needle)
           /\ run' = run + 1 /\ runStart' = L!From(at) /\ at' = at + 1
           /\ UNCHANGED <<phase, answer>>
  <2>1. run' = r + 1 /\ runStart' = at - r /\ at' = at + 1 /\ r + 1 < n
    BY <1>0, <1>1, <1>3, <1>7
  <2>2. (at + 1) - (r + 1) = at - r /\ at + 1 - 1 = at
    OBVIOUS
  <2>3. RunAhead(at + 1, r + 1, at - r)
    BY <1>1, <1>2, <1>5, <1>7, <2>1, <2>2 DEF RunAhead
  <2> QED BY <1>7, <2>1, <2>3
<1>8. CASE /\ ~L!Equal(at) /\ run' = 0 /\ at' = at + 1
           /\ UNCHANGED <<phase, answer, runStart>>
  <2>1. ASSUME NEW u \in 0..hay.n, Occurs(pats, hay, 0, u) PROVE hay.off[u] >= at + 1 - 0
    <3>1. PICK o \in Nat : o = hay.off[u]
      BY <1>0, Scenery
    <3>2. o >= at - r
      BY <1>2, <2>1, <3>1
    <3>3. ~(at \in o..(o + n - 1))
      BY <1>1, <1>8, <2>1, <3>1, MatchIsRun
    <3> QED BY <1>2, <3>1, <3>2, <3>3
  <2>2. (at + 1 - 0)..(at + 1 - 1) = {}
    OBVIOUS
  <2>3. RunAhead(at + 1, 0, runStart)
    BY <1>1, <1>2, <2>1, <2>2 DEF RunAhead
  <2> QED BY <1>8, <2>3
<1> QED BY <1>6, <1>7, <1>8 DEF L!RunByte

\* At the end of the scan no run was long enough.
LEMMA RunExhausts ==
  ASSUME Setting, route = "run", at \in Nat, RunAhead(at, run, runStart), L!Exhausted
  PROVE  IsAnswer(pats, hay, answer')
<1>0. Typed /\ Len(P) \in Nat
  BY PatternIs DEF Setting
<1>1. PICK r \in Nat, n \in Nat, e \in Nat : r = run /\ n = Len(P) /\ e = Bytes(hay)
  BY <1>0, Scenery DEF RunAhead
<1>2. at >= e /\ answer' = NoMatch
  BY <1>1, SharedVocabulary DEF L!Exhausted, L!Answer, L!Limit
<1>3. ASSUME NEW u \in 0..hay.n, Occurs(pats, hay, 0, u) PROVE FALSE
  <2>1. PICK o \in Nat : o = hay.off[u]
    BY <1>0, Scenery
  <2>2. o + n <= e /\ o >= at - r /\ r < n
    BY <1>0, <1>1, <1>3, <2>1, MatchFits DEF RunAhead
  <2> QED BY <1>2, <2>2
<1> QED BY <1>0, <1>2, <1>3, NothingAnswers

\* Bytes of the run in a block are in one of its gaps, all of them.
LEMMA GapAround ==
  ASSUME Setting, route = "run", at \in Nat, NEW f \in Nat, f = L!BlockEnd,
         NEW a \in at..(f - 1), NEW b \in (a + 1)..f, \A i \in a..(b - 1) : L!Equal(i)
  PROVE  \E g \in L!Gaps : g[1] <= a /\ b <= g[2]
<1> DEFINE Lows == {x \in at..a : \A i \in x..(b - 1) : L!Equal(i)}
<1>1. PICK x \in Lows : \A y \in Lows : x <= y
  <2>1. Lows \in SUBSET Nat
    OBVIOUS
  <2>2. a \in Lows
    OBVIOUS
  <2> HIDE DEF Lows
  <2> QED BY <2>1, <2>2, Least
<1>2. x \in at..a /\ \A i \in x..(b - 1) : L!Equal(i)
  OBVIOUS
<1>3. x > at => ~L!Equal(x - 1)
  <2> SUFFICES ASSUME x > at, L!Equal(x - 1) PROVE FALSE
    OBVIOUS
  <2>1. PICK y \in Nat : y = x - 1
    BY <1>2
  <2>2. y \in at..a
    BY <1>2, <2>1
  <2>3. \A i \in y..(b - 1) : i = y \/ i \in x..(b - 1)
    BY <1>2, <2>1
  <2>4. \A i \in y..(b - 1) : L!Equal(i)
    BY <1>2, <2>1, <2>3
  <2>5. y \in Lows
    BY <2>2, <2>4
  <2> QED BY <1>1, <2>1, <2>5
<1> HIDE DEF Lows
<1> DEFINE Highs == {y \in b..f : \A i \in x..(y - 1) : L!Equal(i)}
<1>4. PICK z \in Highs : \A y \in Highs : y <= z
  <2>1. Highs \in SUBSET Nat /\ \A y \in Highs : y <= f
    OBVIOUS
  <2>2. b \in Highs
    BY <1>2
  <2> HIDE DEF Highs
  <2> QED BY <2>1, <2>2, LargestIs
<1>5. z \in b..f /\ \A i \in x..(z - 1) : L!Equal(i)
  OBVIOUS
<1>6. z < f => ~L!Equal(z)
  <2> SUFFICES ASSUME z < f, L!Equal(z) PROVE FALSE
    OBVIOUS
  <2>1. PICK y \in Nat : y = z + 1
    BY <1>5
  <2>2. y \in b..f
    BY <1>5, <2>1
  <2>3. \A i \in x..(y - 1) : i = z \/ i \in x..(z - 1)
    BY <1>2, <1>5, <2>1
  <2>4. \A i \in x..(y - 1) : L!Equal(i)
    BY <1>5, <2>3
  <2>5. y \in Highs
    BY <2>2, <2>4
  <2> QED BY <1>4, <1>5, <2>1, <2>5
<1> HIDE DEF Highs
<1> DEFINE g == <<x, z>>
<1>7. g \in (at..f) \X (at..f) /\ g[1] = x /\ g[2] = z /\ x < z /\ x <= a /\ b <= z
  BY <1>2, <1>5
<1> HIDE DEF g
<1>8. g \in L!Gaps
  BY <1>3, <1>5, <1>6, <1>7 DEF L!Gaps
<1> QED BY <1>7, <1>8

\* A gap of a block is a stretch of equal bytes, which goes on with the run
\* before it only from the front of the block.
LEMMA GapIs ==
  ASSUME Setting, route = "run", at \in Nat, RunAhead(at, run, runStart),
         NEW f \in Nat, f = L!BlockEnd, NEW g \in L!Gaps
  PROVE  /\ g[1] \in at..f /\ g[2] \in at..f /\ g[1] < g[2]
         /\ L!From(g[1]) \in Nat /\ L!From(g[1]) <= g[1]
         /\ L!Length(g) = g[2] - L!From(g[1])
         /\ \A i \in L!From(g[1])..(g[2] - 1) : L!Equal(i)
         /\ L!From(g[1]) = at - run \/ (g[1] > at /\ L!From(g[1]) = g[1] /\ ~L!Equal(g[1] - 1))
<1>1. PICK r \in Nat : r = run /\ r <= at /\ (\A i \in (at - r)..(at - 1) : L!Equal(i))
  BY DEF RunAhead
<1>2. PICK x \in at..f, z \in at..f :
        /\ x = g[1] /\ z = g[2] /\ x < z /\ \A i \in x..(z - 1) : L!Equal(i)
        /\ x > at => ~L!Equal(x - 1)
  BY DEF L!Gaps
<1>3. CASE x = at
  <2>1. L!From(x) = at - r
    BY <1>1, <1>3, FromIs
  <2>2. L!Length(g) = z - (at - r)
    <3>1. CASE r > 0
      <4>1. L!Length(g) = z - x + r
        BY <1>1, <1>2, <1>3, <3>1 DEF L!Length, L!GoesOn
      <4> QED BY <1>3, <4>1
    <3>2. CASE ~(r > 0)
      <4>1. L!Length(g) = z - x + 0 /\ r = 0
        BY <1>1, <1>2, <1>3, <3>2 DEF L!Length, L!GoesOn
      <4> QED BY <1>3, <4>1
    <3> QED BY <3>1, <3>2
  <2>3. \A i \in (at - r)..(z - 1) : i \in (at - r)..(at - 1) \/ i \in x..(z - 1)
    BY <1>1, <1>3
  <2>4. \A i \in (at - r)..(z - 1) : L!Equal(i)
    BY <1>1, <1>2, <2>3
  <2> QED BY <1>1, <1>2, <1>3, <2>1, <2>2, <2>4
<1>4. CASE x # at
  <2>1. L!From(x) = x
    BY <1>4, FromIs
  <2>2. L!Length(g) = z - x
    BY <1>2, <1>4 DEF L!Length, L!GoesOn
  <2> QED BY <1>2, <1>4, <2>1, <2>2
<1> QED BY <1>3, <1>4

\* A match that ends in the block is in a gap that is long enough.
LEMMA WithinBlock ==
  ASSUME Setting, route = "run", at \in Nat, RunAhead(at, run, runStart),
         NEW f \in Nat, f = L!BlockEnd,
         NEW u \in 0..hay.n, Occurs(pats, hay, 0, u), hay.off[u] + Len(P) <= f
  PROVE  \E g \in L!LongGaps : g[1] = at \/ g[1] <= hay.off[u]
<1>0. Typed /\ Len(P) \in Nat /\ Len(needle) = Len(P)
  BY PatternIs DEF Setting
<1>1. PICK o \in Nat, n \in Nat, r \in Nat : o = hay.off[u] /\ n = Len(P) /\ r = run
  BY <1>0, Scenery DEF RunAhead
<1>2. o >= at - r /\ r < n /\ r <= at /\ o + n <= f /\ \A i \in o..(o + n - 1) : L!Equal(i)
  BY <1>1, MatchIsRun DEF RunAhead
<1>3. PICK a \in Nat : a >= at /\ a >= o /\ (a = at \/ a = o)
  BY <1>1
<1>4. PICK b \in Nat : b = o + n
  OBVIOUS
<1>5. a \in at..(f - 1) /\ b \in (a + 1)..f
  BY <1>2, <1>3, <1>4
<1>6. \A i \in a..(b - 1) : L!Equal(i)
  BY <1>2, <1>3, <1>4
<1>7. PICK g \in L!Gaps : g[1] <= a /\ b <= g[2]
  BY <1>5, <1>6, GapAround
<1>8. PICK x \in at..f, z \in at..f : x = g[1] /\ z = g[2]
  BY GapIs
<1>9. L!From(x) = (IF x = at THEN at - r ELSE x) /\ L!Length(g) = z - L!From(x)
  BY <1>1, <1>8, FromIs, GapIs
<1>10. L!From(x) <= o
  <2>1. CASE x = at
    BY <1>2, <1>9, <2>1
  <2>2. CASE x # at
    BY <1>3, <1>7, <1>8, <1>9, <2>2
  <2> QED BY <2>1, <2>2
<1>11. L!Length(g) >= n
  <2>1. PICK s \in Int : s = L!From(x)
    BY <1>9
  <2> QED BY <1>4, <1>7, <1>8, <1>9, <1>10, <2>1
<1>12. g \in L!LongGaps
  BY <1>0, <1>1, <1>11 DEF L!LongGaps
<1>13. x = at \/ x <= o
  BY <1>3, <1>7, <1>8
<1> QED BY <1>1, <1>8, <1>12, <1>13

\* No match begins in front of a gap's run, unless an earlier gap is long enough.
LEMMA GapAhead ==
  ASSUME Setting, route = "run", at \in Nat, RunAhead(at, run, runStart),
         NEW f \in Nat, f = L!BlockEnd, NEW g \in L!Gaps,
         \A h \in L!LongGaps : g[1] <= h[1],
         NEW u \in 0..hay.n, Occurs(pats, hay, 0, u)
  PROVE  L!From(g[1]) <= hay.off[u]
<1>0. Typed /\ Len(P) \in Nat
  BY PatternIs DEF Setting
<1>1. PICK o \in Nat, n \in Nat, r \in Nat : o = hay.off[u] /\ n = Len(P) /\ r = run
  BY <1>0, Scenery DEF RunAhead
<1>2. o >= at - r /\ r < n /\ r <= at /\ \A i \in o..(o + n - 1) : L!Equal(i)
  BY <1>1, MatchIsRun DEF RunAhead
<1>3. CASE L!From(g[1]) = at - run
  BY <1>1, <1>2, <1>3
<1>4. CASE g[1] > at /\ L!From(g[1]) = g[1] /\ ~L!Equal(g[1] - 1)
  <2>1. PICK x \in at..f : x = g[1] /\ x > at
    BY <1>4, GapIs
  <2> SUFFICES ASSUME ~(x <= o) PROVE FALSE
    BY <1>1, <1>4, <2>1
  <2>2. ~(x - 1 \in o..(o + n - 1))
    BY <1>2, <1>4, <2>1
  <2>3. o + n <= x - 1
    BY <2>1, <2>2
  <2>4. o + n <= f
    BY <2>1, <2>3
  <2>5. PICK h \in L!LongGaps : h[1] = at \/ h[1] <= o
    BY <1>1, <2>4, WithinBlock
  <2>6. h[1] \in at..f /\ x <= h[1]
    <3>1. h \in L!Gaps
      BY DEF L!LongGaps
    <3> QED BY <2>1, <2>5, <3>1, GapIs
  <2> QED BY <2>1, <2>5, <2>6
<1> QED BY <1>3, <1>4, GapIs

\* A pass of blocks hands the run over to what comes next, or stops at the
\* leftmost match.
LEMMA RunBlocksAre ==
  ASSUME Setting, route = "run", at \in Nat, RunAhead(at, run, runStart), L!RunBlock
  PROVE  /\ UNCHANGED phase => /\ at' \in Nat /\ RunAhead(at', run', runStart')
                               /\ UNCHANGED answer
         /\ ~UNCHANGED phase => phase' = "done" /\ IsAnswer(pats, hay, answer')
<1>0. Typed /\ Len(P) \in Nat /\ Len(needle) = Len(P)
  BY PatternIs DEF Setting
<1>1. PICK r \in Nat, n \in Nat, e \in Nat : r = run /\ n = Len(P) /\ e = Bytes(hay)
  BY <1>0, Scenery DEF RunAhead
<1>2. PICK f \in Nat : f = L!BlockEnd /\ at < f /\ f <= e /\ phase = "skip"
  <2>1. PICK k \in Nat : k = anchor /\ k > 0
    BY RunIs DEF L!RunBlock, L!InBlocks
  <2>2. L!BlockEnd = at + k
    BY <2>1 DEF L!BlockEnd
  <2> QED BY <1>1, <2>1, <2>2, SharedVocabulary DEF L!RunBlock, L!InBlocks
<1>3. CASE \E g \in L!LongGaps : /\ \A h \in L!LongGaps : g[1] <= h[1]
                                 /\ L!Answer(L!MatchAt(L!From(g[1])))
  <2>1. PICK g \in L!LongGaps : /\ \A h \in L!LongGaps : g[1] <= h[1]
                                /\ L!Answer(L!MatchAt(L!From(g[1])))
    BY <1>3
  <2>2. phase' = "done" /\ answer' = [pattern |-> 0, start |-> L!From(g[1])]
    BY <2>1 DEF L!Answer, L!MatchAt
  <2>3. g \in L!Gaps /\ L!Length(g) >= n
    BY <1>0, <1>1 DEF L!LongGaps
  <2>4. PICK s \in Nat, z \in at..f : /\ s = L!From(g[1]) /\ z = g[2] /\ L!Length(g) = z - s
                                      /\ \A i \in s..(z - 1) : L!Equal(i)
    BY <1>2, <2>3, GapIs
  <2>5. s + n <= z /\ s + n <= e
    BY <1>2, <2>3, <2>4
  <2>6. MatchesSingleAt(s)
    <3>1. \A i \in s..(s + n - 1) : L!Equal(i)
      BY <2>4, <2>5
    <3> QED BY <1>1, <2>5, <3>1, RunIsMatch
  <2>7. ASSUME NEW u \in 0..hay.n, Occurs(pats, hay, 0, u) PROVE s <= hay.off[u]
    BY <1>2, <2>1, <2>3, <2>4, <2>7, GapAhead
  <2>8. IsAnswer(pats, hay, answer')
    BY <1>0, <2>2, <2>4, <2>6, <2>7, LeftmostAnswers DEF IsLeftmost
  <2> QED BY <1>2, <2>2, <2>8
<1>4. CASE /\ L!LongGaps = {} /\ at' = L!BlockEnd /\ UNCHANGED <<phase, answer>>
           /\ \E g \in L!Gaps : g[2] = L!BlockEnd /\ run' = L!Length(g) /\ runStart' = L!From(g[1])
  <2>1. PICK g \in L!Gaps : g[2] = f /\ run' = L!Length(g) /\ runStart' = L!From(g[1])
    BY <1>2, <1>4
  <2>2. PICK s \in Nat : /\ s = L!From(g[1]) /\ L!Length(g) = f - s /\ s <= f
                         /\ \A i \in s..(f - 1) : L!Equal(i)
    <3>1. /\ L!From(g[1]) \in Nat /\ L!From(g[1]) <= g[1] /\ g[1] \in at..f
          /\ L!Length(g) = f - L!From(g[1]) /\ \A i \in L!From(g[1])..(f - 1) : L!Equal(i)
      BY <1>2, <2>1, GapIs
    <3> QED BY <3>1
  <2>3. PICK k \in Nat : k = f - s
    BY <2>2
  <2>4. k < n
    <3>1. ~(L!Length(g) >= Len(needle))
      BY <1>4 DEF L!LongGaps
    <3> QED BY <1>0, <1>1, <2>2, <2>3, <3>1
  <2>5. \A u \in 0..hay.n : Occurs(pats, hay, 0, u) => hay.off[u] >= s
    <3>1. \A h \in L!LongGaps : g[1] <= h[1]
      BY <1>4
    <3>2. ASSUME NEW u \in 0..hay.n, Occurs(pats, hay, 0, u) PROVE hay.off[u] >= s
      <4>1. s <= hay.off[u]
        BY <1>2, <2>2, <3>1, <3>2, GapAhead
      <4>2. hay.off[u] \in Nat
        BY <1>0, Scenery
      <4> QED BY <4>1, <4>2
    <3> QED BY <3>2
  <2>6. f - k = s /\ k <= f
    BY <2>2, <2>3
  <2>7. RunAhead(f, k, s)
    BY <1>1, <2>2, <2>4, <2>5, <2>6 DEF RunAhead
  <2> QED BY <1>2, <1>4, <2>1, <2>2, <2>3, <2>7
<1>5. CASE /\ L!LongGaps = {} /\ at' = L!BlockEnd /\ UNCHANGED <<phase, answer>>
           /\ ~L!Equal(L!BlockEnd - 1) /\ run' = 0 /\ UNCHANGED runStart
  <2>1. ASSUME NEW u \in 0..hay.n, Occurs(pats, hay, 0, u) PROVE hay.off[u] >= f - 0
    <3>1. PICK o \in Nat : o = hay.off[u]
      BY <1>0, Scenery
    <3>2. ~(o + n <= f)
      BY <1>1, <1>2, <1>5, <2>1, <3>1, WithinBlock
    <3>3. ~(f - 1 \in o..(o + n - 1))
      BY <1>1, <1>2, <1>5, <2>1, <3>1, MatchIsRun
    <3> QED BY <3>1, <3>2, <3>3
  <2>2. (f - 0)..(f - 1) = {}
    OBVIOUS
  <2>3. RunAhead(f, 0, runStart)
    BY <1>1, <2>1, <2>2, RunIs DEF RunAhead
  <2> QED BY <1>2, <1>5, <2>3
<1> QED BY <1>3, <1>4, <1>5 DEF L!RunBlock

-----------------------------------------------------------------------------
(***************************************************************************)
(* What is asked and how it is looked for do not change.                   *)
(***************************************************************************)
asked == <<needle, pats, fixed, hay, route, anchor, pairs, triple, confirm>>

\* The setting stays as what is asked stays.
LEMMA SettingStays ==
  ASSUME Setting, UNCHANGED asked
  PROVE  Setting'
<1>1. /\ needle' = needle /\ pats' = pats /\ fixed' = fixed /\ hay' = hay /\ route' = route
      /\ anchor' = anchor /\ pairs' = pairs /\ triple' = triple /\ confirm' = confirm
  BY DEF asked
<1>2. (\A i : Fixed(i)' <=> Fixed(i)) /\ (\A i : InAscii(i)' <=> InAscii(i))
  BY <1>1 DEF Fixed, InAscii
<1>3. FixedPrefix' = FixedPrefix
  BY <1>1, <1>2 DEF FixedPrefix
<1>4. U!PlanInit'
  <2>1. U!PlanInit
    BY DEF Setting, Typed
  <2>2. U!IsPairPair' <=> U!IsPairPair
    BY <1>1 DEF U!IsPairPair
  <2>3. U!ConfirmOf(U!Pattern)' = U!ConfirmOf(U!Pattern)
    BY <1>1, <2>2 DEF U!ConfirmOf, U!Pattern
  <2>4. U!Pattern' = U!Pattern
    BY <1>1 DEF U!Pattern
  <2> QED BY <1>1, <2>1, <2>3, <2>4 DEF U!PlanInit
<1>5. Typed'
  BY <1>1, <1>4 DEF Setting, Typed
<1>6. U!Routes' = U!Routes
  <2>1. U!IsPairPair' <=> U!IsPairPair
    BY <1>1 DEF U!IsPairPair
  <2> QED BY <1>1, <2>1 DEF U!Routes
<1>7. L!Routes' = L!Routes
  <2>1. \A i : L!Fixed(i)' <=> L!Fixed(i)
    BY <1>1 DEF L!Fixed, L!InAscii
  <2>2. \A i, j : L!IsStretch(i, j)' <=> L!IsStretch(i, j)
    BY <1>1, <2>1 DEF L!IsStretch
  <2>3. L!AsciiOnly' <=> L!AsciiOnly
    BY <1>1 DEF L!AsciiOnly, L!InAscii
  <2>4. L!OnlyLong' <=> L!OnlyLong
    BY <1>1 DEF L!OnlyLong
  <2>5. L!IsRun' <=> L!IsRun
    BY <1>1 DEF L!IsRun, L!SameByte
  <2>6. L!HasPair' <=> L!HasPair
    BY <1>1, <2>5 DEF L!HasPair
  <2>7. L!Interior' = L!Interior
    BY <1>1, <2>2, <2>3 DEF L!Interior
  <2>8. L!Probes' = L!Probes
    BY <1>1, <2>5, <2>7 DEF L!Probes
  <2>9. \A i : L!Unique(i)' <=> L!Unique(i)
    BY <1>1 DEF L!Unique, L!Value
  <2>10. \A i : L!StaticAnchor(i)' <=> L!StaticAnchor(i)
    BY <1>1, <2>9 DEF L!StaticAnchor, L!Value
  <2>11. \A i : L!SampledAnchor(i)' <=> L!SampledAnchor(i)
    BY <1>1, <2>9 DEF L!SampledAnchor
  <2>12. L!ByteAnchors' = L!ByteAnchors
    BY <1>1, <2>10, <2>11 DEF L!ByteAnchors
  <2>13. L!OnlyProbe' = L!OnlyProbe
    BY <1>1, <2>4 DEF L!OnlyProbe
  <2> QED BY <1>1, <2>3, <2>4, <2>5, <2>6, <2>8, <2>12, <2>13 DEF L!Routes
<1>8. Routes' = Routes
  BY <1>6, <1>7 DEF Routes
<1> QED BY <1>1, <1>3, <1>5, <1>8 DEF Setting

\* So does what lies ahead of a place.
LEMMA SightStays ==
  ASSUME UNCHANGED asked
  PROVE  /\ \A s : UnicodeAhead(s)' <=> UnicodeAhead(s)
         /\ \A s : LiteralAhead(s)' <=> LiteralAhead(s)
         /\ \A s : OnlyAhead(s)' <=> OnlyAhead(s)
         /\ \A s, r, f : RunAhead(s, r, f)' <=> RunAhead(s, r, f)
         /\ \A s, w : IsMatch(s, w)' <=> IsMatch(s, w)
         /\ HasPair' <=> HasPair
<1>1. /\ needle' = needle /\ pats' = pats /\ fixed' = fixed /\ hay' = hay /\ route' = route
      /\ anchor' = anchor /\ pairs' = pairs /\ triple' = triple /\ confirm' = confirm
  BY DEF asked
<1>2. \A s : UnicodeAhead(s)' <=> UnicodeAhead(s)
  BY <1>1 DEF UnicodeAhead, UnicodeSite, UnicodeAt
<1>3. \A s : LiteralAhead(s)' <=> LiteralAhead(s)
  <2>1. \A u : LiteralSite(u)' = LiteralSite(u)
    BY <1>1, Zenon DEF LiteralSite
  <2> QED BY <1>1, <2>1 DEF LiteralAhead
<1>4. P' = P
  BY <1>1 DEF P
<1>5. \A s : PatternAt(s)' <=> PatternAt(s)
  BY <1>1 DEF PatternAt, BytesAt, ByteIs
<1>6. \A s : OnlyAhead(s)' <=> OnlyAhead(s)
  BY <1>1, <1>4, <1>5 DEF OnlyAhead, Clue
<1>7. \A i : L!Equal(i)' <=> L!Equal(i)
  BY <1>1 DEF L!Equal, L!ByteIs
<1>8. \A s, r, f : RunAhead(s, r, f)' <=> RunAhead(s, r, f)
  BY <1>1, <1>4, <1>7 DEF RunAhead
<1>9. \A s, w : IsMatch(s, w)' <=> IsMatch(s, w)
  BY <1>1, <1>4 DEF IsMatch
<1>10. HasPair' <=> HasPair
  BY <1>1 DEF HasPair, IsRun, SameByte
<1> QED BY <1>2, <1>3, <1>6, <1>8, <1>9, <1>10

-----------------------------------------------------------------------------
(***************************************************************************)
(* The invariant: until there is an answer, no match that could be it lies *)
(* behind the scan.                                                        *)
(***************************************************************************)
MatchAhead ==
  /\ IsUnicode(route) => UnicodeAhead(at)
  /\ IsScan => LiteralAhead(at)
  /\ route = "only" => OnlyAhead(at)
  /\ route = "run" => RunAhead(at, run, runStart) /\ phase # "check"

Open ==
  /\ answer = Pending /\ width = 0 /\ MatchAhead
  /\ phase = "first" => HasPair
  /\ phase = "blocks" => route = "confirm" /\ at = pairs[1].at

Closed ==
  /\ answer = Pending \/ IsAnswer(pats, hay, answer)
  /\ width > 0 => IsMatch(answer.start, width)

IInv ==
  /\ Setting /\ at \in Nat
  /\ IF phase = "done" THEN Closed ELSE Open

\* The invariant holds when a search begins.
LEMMA InitHolds ==
  ASSUME Init
  PROVE  IInv
<1>1. Setting
  <2>1. PICK input \in Inputs : needle \in input.needles /\ hay \in input.haystacks
    BY DEF Init
  <2>2. needle \in Needles /\ hay \in Haystacks
    BY <2>1 DEF Needles, Haystacks
  <2>3. PlanInit /\ U!PlanInit /\ \E r \in Routes : route = r[1] /\ anchor = r[2]
    BY DEF Init
  <2> QED BY <2>2, <2>3 DEF Setting, Typed, PlanInit
<1>2. Typed
  BY <1>1 DEF Setting
<1>3. at \in Nat
  <2>1. CASE route = "confirm"
    <3>1. pairs # <<>>
      BY <1>1, <2>1, UnicodeRouteIs DEF IsUnicode
    <3> QED BY <1>2, <2>1, <3>1, PairsAre DEF Init
  <2>2. CASE route # "confirm"
    BY <2>2 DEF Init
  <2> QED BY <2>1, <2>2
<1>4. run = 0 /\ runStart = 0 /\ (route # "confirm" => at = 0)
  BY DEF Init
<1>5. IsUnicode(route) => UnicodeAhead(at)
  <2> SUFFICES ASSUME IsUnicode(route), NEW u \in 0..hay.n, Occurs(pats, hay, 0, u)
               PROVE  UnicodeSite(u) >= at
    BY DEF UnicodeAhead
  <2>1. PICK o \in Nat, t \in Nat : o = hay.off[u] /\ t = UnicodeAt
    BY <1>1, <1>2, Scenery, UnicodeSiteStops
  <2>2. UnicodeSite(u) = o + t
    BY <2>1 DEF UnicodeSite
  <2>3. CASE route = "confirm"
    <3>1. at = t
      BY <2>1, <2>3 DEF Init, UnicodeAt
    <3> QED BY <2>1, <2>2, <3>1
  <2>4. CASE route # "confirm"
    BY <1>4, <2>1, <2>2, <2>4
  <2> QED BY <2>3, <2>4
<1>6. IsScan => LiteralAhead(at)
  <2> SUFFICES ASSUME IsScan, NEW u \in 0..hay.n, Occurs(pats, hay, 0, u)
               PROVE  LiteralSite(u) >= at
    BY DEF LiteralAhead
  <2>1. LiteralSite(u) \in Nat /\ at = 0
    BY <1>1, <1>4, LiteralSiteStops DEF IsScan
  <2> QED BY <2>1
<1>7. route = "only" => OnlyAhead(at)
  BY <1>1, <1>4, ClueThere DEF OnlyAhead
<1>8. route = "run" => RunAhead(at, run, runStart)
  <2> SUFFICES ASSUME route = "run" PROVE RunAhead(0, 0, 0)
    BY <1>4
  <2>1. Len(P) >= 3 /\ Len(P) \in Nat
    BY <1>1, <1>2, RunIs, PatternIs
  <2>2. \A u \in 0..hay.n : hay.off[u] >= 0 - 0
    BY <1>2, Scenery
  <2>3. (0 - 0)..(0 - 1) = {}
    OBVIOUS
  <2> QED BY <2>1, <2>2, <2>3 DEF RunAhead
<1>9. phase \in {"first", "blocks", "skip"}
      /\ (phase = "first" => HasPair) /\ (phase = "blocks" => route = "confirm")
  BY DEF Init
<1>10. route = "confirm" => at = pairs[1].at
  BY DEF Init
<1>11. answer = Pending /\ width = 0
  BY DEF Init
<1> QED BY <1>1, <1>3, <1>5, <1>6, <1>7, <1>8, <1>9, <1>10, <1>11 DEF IInv, Open, MatchAhead

\* A step by the bytes of wider units.
LEMMA UnicodeStepKeeps ==
  ASSUME Setting, at \in Nat, Open, FindUnicode
  PROVE  /\ UNCHANGED asked /\ UNCHANGED <<run, runStart>>
         /\ \/ phase' = "done" /\ at' = at /\ Right(answer', width')
            \/ /\ phase' \in {"skip", "check"} /\ UNCHANGED <<answer, width>>
               /\ at' \in Nat /\ UnicodeAhead(at')
<1>1. IsUnicode(route) /\ U!Next /\ UNCHANGED literal /\ UnicodeAhead(at)
  BY DEF FindUnicode, Open, MatchAhead
<1>2. CASE U!Blocks
  <2>1. phase = "blocks" /\ UNCHANGED U!plan
    BY <1>2 DEF U!Blocks, U!Answer
  <2>2. route = "confirm" /\ at = pairs[1].at
    BY <2>1 DEF Open
  <2>3. phase' = "done" => at' = at
    BY <1>2 DEF U!Blocks, U!Answer
  <2> QED BY <1>1, <1>2, <2>1, <2>2, <2>3, UnicodeBlocks DEF asked, literal, U!plan
<1>3. CASE U!Skip
  <2>1. at' \in Nat /\ UnicodeAhead(at')
    BY <1>1, <1>3, UnicodeSkips
  <2> QED BY <1>1, <1>3, <2>1 DEF U!Skip, asked, literal, U!plan
<1>4. CASE U!Accept
  <2>1. Right(answer', width')
    BY <1>1, <1>4, UnicodeAccepts
  <2> QED BY <1>1, <1>4, <2>1 DEF U!Accept, U!Answer, asked, literal, U!plan
<1>5. CASE U!Reject
  <2>1. at' \in Nat /\ UnicodeAhead(at')
    BY <1>1, <1>5, UnicodeRejects
  <2> QED BY <1>1, <1>5, <2>1 DEF U!Reject, asked, literal, U!plan
<1>6. CASE U!Exhausted
  <2>1. Right(answer', width')
    BY <1>1, <1>6, UnicodeExhausts
  <2> QED BY <1>1, <1>6, <2>1 DEF U!Exhausted, U!Answer, asked, literal, U!plan
<1> QED BY <1>1, <1>2, <1>3, <1>4, <1>5, <1>6 DEF U!Next

\* A step by the bytes of a literal.
LEMMA LiteralStepKeeps ==
  ASSUME Setting, at \in Nat, Open, FindLiteral
  PROVE  /\ UNCHANGED asked /\ UNCHANGED width
         /\ \/ phase' = "done" /\ at' = at
               /\ (answer' = Pending \/ IsAnswer(pats, hay, answer'))
            \/ /\ phase' \in {"skip", "check"} /\ UNCHANGED answer
               /\ at' \in Nat
               /\ IsScan => LiteralAhead(at')
               /\ route = "only" => OnlyAhead(at')
               /\ route = "run" => RunAhead(at', run', runStart') /\ phase' = "skip"
<1>1. /\ ~IsUnicode(route) /\ L!Next /\ UNCHANGED unicode
      /\ route \in {"run", "probe", "pair", "byte", "only"}
  BY LiteralRouteIs DEF FindLiteral
<1>2. UNCHANGED <<pairs, triple, confirm, width>>
  BY <1>1 DEF unicode
<1>3. /\ IsScan => LiteralAhead(at)
      /\ route = "only" => OnlyAhead(at)
      /\ route = "run" => RunAhead(at, run, runStart) /\ phase # "check"
  BY DEF Open, MatchAhead
<1>4. CASE L!First
  <2>1. CASE PatternAt(0) /\ L!Answer(L!MatchAt(0))
    <3>1. HasPair
      BY <1>4 DEF L!First, Open
    <3>2. IsAnswer(pats, hay, answer')
      BY <2>1, <3>1, FirstAnswers DEF L!Answer, L!MatchAt
    <3> QED BY <1>2, <2>1, <3>2 DEF L!Answer, asked, L!plan
  <2>2. CASE phase' = "skip" /\ UNCHANGED <<L!plan, at, L!runs, answer>>
    BY <1>2, <1>3, <2>2 DEF asked, L!plan, L!runs
  <2> QED BY <1>4, <2>1, <2>2, LiteralVocabulary DEF L!First
<1>5. CASE L!RunBlock
  <2>1. route = "run" /\ UNCHANGED L!plan /\ phase = "skip" /\ (phase' = "done" => at' = at)
    BY <1>5 DEF L!RunBlock, L!Answer
  <2>2. /\ UNCHANGED phase => /\ at' \in Nat /\ RunAhead(at', run', runStart')
                              /\ UNCHANGED answer
        /\ ~UNCHANGED phase => phase' = "done" /\ IsAnswer(pats, hay, answer')
    BY <1>3, <1>5, <2>1, RunBlocksAre
  <2> QED BY <1>2, <2>1, <2>2 DEF asked, L!plan, IsScan
<1>6. CASE L!RunByte
  <2>1. route = "run" /\ UNCHANGED L!plan /\ phase = "skip" /\ (phase' = "done" => at' = at)
    BY <1>6 DEF L!RunByte, L!Answer
  <2>2. /\ UNCHANGED phase => /\ at' \in Nat /\ RunAhead(at', run', runStart')
                              /\ UNCHANGED answer
        /\ ~UNCHANGED phase => phase' = "done" /\ IsAnswer(pats, hay, answer')
    BY <1>3, <1>6, <2>1, RunBytes
  <2> QED BY <1>2, <2>1, <2>2 DEF asked, L!plan, IsScan
<1>7. CASE L!Skip
  <2>1. route # "run" /\ UNCHANGED <<L!plan, answer>> /\ phase' \in {"skip", "check"}
    BY <1>7 DEF L!Skip
  <2>2. CASE IsScan
    <3>1. at' \in Nat /\ LiteralAhead(at')
      BY <1>3, <1>7, <2>2, LiteralSkips
    <3> QED BY <1>2, <2>1, <2>2, <3>1 DEF asked, L!plan, IsScan
  <2>3. CASE route = "only"
    <3>1. at' \in Nat /\ OnlyAhead(at')
      BY <1>3, <1>7, <2>3, OnlySkips
    <3> QED BY <1>2, <2>1, <2>3, <3>1 DEF asked, L!plan, IsScan
  <2> QED BY <1>1, <2>1, <2>2, <2>3 DEF IsScan
<1>8. CASE L!Accept
  <2>1. route # "run"
    BY <1>3, <1>8 DEF L!Accept
  <2>2. IsAnswer(pats, hay, answer')
    BY <1>1, <1>3, <1>8, <2>1, LiteralAccepts, OnlyAccepts DEF IsScan
  <2> QED BY <1>2, <1>8, <2>2 DEF L!Accept, L!Answer, asked, L!plan
<1>9. CASE L!Reject
  <2>1. route # "run" /\ UNCHANGED <<L!plan, answer>> /\ phase' = "skip"
    BY <1>3, <1>9 DEF L!Reject
  <2>2. CASE IsScan
    <3>1. at' \in Nat /\ LiteralAhead(at')
      BY <1>3, <1>9, <2>2, LiteralRejects
    <3> QED BY <1>2, <2>1, <2>2, <3>1 DEF asked, L!plan, IsScan
  <2>3. CASE route = "only"
    <3>1. at' \in Nat /\ OnlyAhead(at')
      BY <1>3, <1>9, <2>3, OnlyRejects
    <3> QED BY <1>2, <2>1, <2>3, <3>1 DEF asked, L!plan, IsScan
  <2> QED BY <1>1, <2>1, <2>2, <2>3 DEF IsScan
<1>10. CASE L!HandOver
  <2>1. answer = Pending
    BY DEF Open
  <2> QED BY <1>2, <1>10, <2>1 DEF L!HandOver, asked, L!plan
<1>11. CASE L!Exhausted
  <2>1. IsAnswer(pats, hay, answer')
    BY <1>1, <1>3, <1>11, LiteralExhausts, OnlyExhausts, RunExhausts DEF IsScan
  <2> QED BY <1>2, <1>11, <2>1 DEF L!Exhausted, L!Answer, asked, L!plan
<1> QED BY <1>1, <1>4, <1>5, <1>6, <1>7, <1>8, <1>9, <1>10, <1>11 DEF L!Next

\* Every step of every route keeps it.
LEMMA StepKeeps ==
  ASSUME IInv, [Next]_vars
  PROVE  IInv'
<1>1. Setting /\ at \in Nat
  BY DEF IInv
<1>2. CASE UNCHANGED vars
  <2>1. UNCHANGED asked /\ UNCHANGED <<at, phase, answer, width, run, runStart>>
    BY <1>2 DEF vars, asked, literal, unicode
  <2>2. Setting' /\ at' \in Nat
    BY <1>1, <2>1, SettingStays
  <2>3. MatchAhead' <=> MatchAhead
    BY <2>1, SightStays DEF MatchAhead, IsScan, asked
  <2> QED BY <2>1, <2>2, <2>3, SightStays DEF IInv, Open, Closed, asked
<1>3. CASE phase # "done" /\ FindUnicode
  <2>1. Open /\ IsUnicode(route)
    BY <1>3 DEF IInv, FindUnicode
  <2>2. /\ UNCHANGED asked /\ UNCHANGED <<run, runStart>>
        /\ \/ phase' = "done" /\ at' = at /\ Right(answer', width')
           \/ /\ phase' \in {"skip", "check"} /\ UNCHANGED <<answer, width>>
              /\ at' \in Nat /\ UnicodeAhead(at')
    BY <1>1, <1>3, <2>1, UnicodeStepKeeps
  <2>3. Setting'
    BY <1>1, <2>2, SettingStays
  <2>4. CASE phase' = "done" /\ at' = at /\ Right(answer', width')
    <3>1. Closed'
      BY <2>2, <2>4, SightStays DEF Closed, Right, asked
    <3> QED BY <1>1, <2>3, <2>4, <3>1 DEF IInv
  <2>5. CASE /\ phase' \in {"skip", "check"} /\ UNCHANGED <<answer, width>>
             /\ at' \in Nat /\ UnicodeAhead(at')
    <3>1. MatchAhead'
      BY <2>1, <2>2, <2>5, SightStays DEF MatchAhead, asked, IsUnicode, IsScan
    <3>2. Open'
      BY <2>1, <2>5, <3>1 DEF Open
    <3> QED BY <2>3, <2>5, <3>2 DEF IInv
  <2> QED BY <2>2, <2>4, <2>5
<1>4. CASE phase # "done" /\ FindLiteral
  <2>1. Open /\ ~IsUnicode(route)
    BY <1>4 DEF IInv, FindLiteral
  <2>2. /\ UNCHANGED asked /\ UNCHANGED width
        /\ \/ phase' = "done" /\ at' = at
              /\ (answer' = Pending \/ IsAnswer(pats, hay, answer'))
           \/ /\ phase' \in {"skip", "check"} /\ UNCHANGED answer
              /\ at' \in Nat
              /\ IsScan => LiteralAhead(at')
              /\ route = "only" => OnlyAhead(at')
              /\ route = "run" => RunAhead(at', run', runStart') /\ phase' = "skip"
    BY <1>1, <1>4, <2>1, LiteralStepKeeps
  <2>3. Setting'
    BY <1>1, <2>2, SettingStays
  <2>4. CASE phase' = "done" /\ at' = at /\ (answer' = Pending \/ IsAnswer(pats, hay, answer'))
    <3>1. Closed'
      BY <2>1, <2>2, <2>4 DEF Closed, Open, asked
    <3> QED BY <1>1, <2>3, <2>4, <3>1 DEF IInv
  <2>5. CASE /\ phase' \in {"skip", "check"} /\ UNCHANGED answer
             /\ at' \in Nat
             /\ IsScan => LiteralAhead(at')
             /\ route = "only" => OnlyAhead(at')
             /\ route = "run" => RunAhead(at', run', runStart') /\ phase' = "skip"
    <3>1. MatchAhead'
      BY <2>1, <2>2, <2>5, SightStays DEF MatchAhead, asked, IsScan, IsUnicode
    <3>2. Open'
      BY <2>1, <2>2, <2>5, <3>1 DEF Open
    <3> QED BY <2>3, <2>5, <3>2 DEF IInv
  <2> QED BY <2>2, <2>4, <2>5
<1>5. CASE phase = "done" /\ (FindUnicode \/ FindLiteral)
  BY <1>5 DEF FindUnicode, FindLiteral, U!Next, L!Next, U!Blocks, U!Skip, U!Accept, U!Reject,
              U!Exhausted, L!First, L!RunBlock, L!RunByte, L!Skip, L!Accept, L!Reject,
              L!HandOver, L!Exhausted
<1>6. CASE Done
  BY <1>2, <1>6 DEF Done
<1> QED BY <1>2, <1>3, <1>4, <1>5, <1>6 DEF Next

(***************************************************************************)
(* The inductive invariant holds in every reachable state, whichever       *)
(* route of Find is taken.                                                 *)
(***************************************************************************)
THEOREM Invariance == Spec => []IInv
<1>1. Init => IInv
  BY InitHolds
<1>2. IInv /\ [Next]_vars => IInv'
  BY StepKeeps
<1> QED BY <1>1, <1>2, PTL DEF Spec

(***************************************************************************)
(* A width that Find reports is the width of the match in the haystack     *)
(* (matchWidthAt of unicode_confirm.go, the fixed widths of literals).     *)
(***************************************************************************)
THEOREM WidthsAreExact == Spec => []WidthIsExact
<1>1. IInv => WidthIsExact
  <2> SUFFICES ASSUME IInv, width > 0 PROVE IsMatch(answer.start, width)
    BY PatternIs, SharedVocabulary DEF WidthIsExact, U!WidthIsExact, IsMatch, IInv, Setting
  <2>1. phase = "done"
    BY DEF IInv, Open
  <2> QED BY <2>1 DEF IInv, Closed
<1> QED BY <1>1, Invariance, PTL

\* The contract's vocabulary is that of the search.
LEMMA SameVocabulary ==
  /\ Contract!IsPatternSet(pats) <=> IsPatternSet(pats)
  /\ Contract!IsHaystack(hay) <=> IsHaystack(hay)
  /\ Contract!Answers(pats, hay) = Answers(pats, hay)
  /\ \A m : Contract!IsAnswer(pats, hay, m) <=> IsAnswer(pats, hay, m)
<1>1. Contract!IsPatternSet(pats) <=> IsPatternSet(pats)
  BY DEF Contract!IsPatternSet, IsPatternSet, Contract!Token, Token
<1>2. Contract!IsHaystack(hay) <=> IsHaystack(hay)
  BY DEF Contract!IsHaystack, IsHaystack
<1>3. Contract!Answers(pats, hay) = Answers(pats, hay)
  BY DEF Contract!Answers, Answers, Contract!NoMatch, NoMatch, Contract!Ids, Ids
<1>4. \A m : Contract!IsAnswer(pats, hay, m) <=> IsAnswer(pats, hay, m)
  BY DEF Contract!IsAnswer, IsAnswer, Contract!NoMatch, NoMatch, Contract!Ids, Ids,
         Contract!Occurs, Occurs, Contract!Before, Before
<1> QED BY <1>1, <1>2, <1>3, <1>4

\* A step gives the contract's answer, or none.
LEMMA StepAnswersOrStutters ==
  ASSUME IInv, IInv', [Next]_vars
  PROVE  Contract!Reply \/ UNCHANGED Contract!vars
<1>1. CASE UNCHANGED vars \/ Done
  BY <1>1 DEF vars, Done, literal, Contract!vars
<1>2. CASE phase # "done" /\ (FindUnicode \/ FindLiteral)
  <2>1. Setting /\ at \in Nat /\ Open
    BY <1>2 DEF IInv
  <2>2. UNCHANGED asked /\ (phase' # "done" => answer' = answer)
    BY <1>2, <2>1, UnicodeStepKeeps, LiteralStepKeeps
  <2>3. pats' = pats /\ hay' = hay /\ answer = Pending
    BY <2>1, <2>2 DEF asked, Open
  <2>4. CASE answer' = Pending
    BY <2>3, <2>4 DEF Contract!vars
  <2>5. CASE answer' # Pending
    <3>1. IsAnswer(pats, hay, answer')
      BY <2>2, <2>3, <2>5 DEF IInv, Closed
    <3>2. answer' \in Answers(pats, hay)
      BY <3>1, AnswerTyped
    <3> QED BY <2>3, <3>1, <3>2, SameVocabulary DEF Contract!Reply
  <2> QED BY <2>4, <2>5
<1>3. CASE phase = "done" /\ (FindUnicode \/ FindLiteral)
  BY <1>3 DEF FindUnicode, FindLiteral, U!Next, L!Next, U!Blocks, U!Skip, U!Accept, U!Reject,
              U!Exhausted, L!First, L!RunBlock, L!RunByte, L!Skip, L!Accept, L!Reject,
              L!HandOver, L!Exhausted
<1> QED BY <1>1, <1>2, <1>3 DEF Next

(***************************************************************************)
(* Every route implements the contract of Find: the leftmost match, or     *)
(* none if there is none, in one answer.                                   *)
(***************************************************************************)
THEOREM Refinement == Spec => ImplementsFind
<1>1. IInv /\ Init => Contract!Init
  <2> SUFFICES ASSUME IInv, Init PROVE Contract!Init
    OBVIOUS
  <2>1. IsPatternSet(pats) /\ IsHaystack(hay)
    BY PatternIs, Scenery DEF IInv, Setting
  <2> QED BY <2>1, SameVocabulary DEF Init, Contract!Init
<1>2. IInv /\ IInv' /\ [Next]_vars => [Contract!Reply]_(Contract!vars)
  BY StepAnswersOrStutters
<1> QED BY <1>1, <1>2, Invariance, PTL DEF Spec, ImplementsFind, Contract!Spec
=============================================================================
