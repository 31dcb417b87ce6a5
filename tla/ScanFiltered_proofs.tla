------------------------- MODULE ScanFiltered_proofs -------------------------
(***************************************************************************)
(* The executors behind a byte screen find the leftmost match of lowest    *)
(* index, for every pattern set, haystack, region and ring size, whichever *)
(* screen the plan has and wherever a kernel stops.                        *)
(***************************************************************************)
EXTENDS ScanFiltered, FoldPlan_proofs

-----------------------------------------------------------------------------
(***************************************************************************)
(* The forms of a token, and what an entry for a byte admits.              *)
(***************************************************************************)
LEMMA FormsTyped ==
  ASSUME NEW t \in DOMAIN Forms, NEW f \in Forms[t]
  PROVE  /\ f \in Seq(0..255) /\ Len(f) \in Nat \ {0}
         /\ DOMAIN f = 1..Len(f)
         /\ \A i \in 1..Len(f) : f[i] \in 0..255
<1>1. f \in Seq(0..255) /\ f # <<>>
  BY FilteredAssumption DEF FilteredAssumption
<1>2. Len(f) \in Nat \ {0}
  BY <1>1, EmptySeq
<1>3. DOMAIN f = 1..Len(f) /\ f \in [1..Len(f) -> 0..255]
  BY <1>1, LenProperties
<1> QED BY <1>1, <1>2, <1>3

Entries == [byte : Nat, fold : BOOLEAN]

LEMMA OwnEntry ==
  ASSUME NEW b \in 0..255
  PROVE  /\ Admits(Entry(b, FALSE), b) /\ Admits(Entry(Lower(b), TRUE), b)
         /\ Entry(b, FALSE) \in Entries /\ Entry(Lower(b), TRUE) \in Entries
<1>1. Lower(b) \in Nat
  BY DEF Lower
<1>2. /\ Entry(b, FALSE).byte = b /\ Entry(b, FALSE).fold = FALSE
      /\ Entry(Lower(b), TRUE).byte = Lower(b) /\ Entry(Lower(b), TRUE).fold = TRUE
  BY DEF Entry
<1>3. Entry(b, FALSE) \in Entries /\ Entry(Lower(b), TRUE) \in Entries
  BY <1>1 DEF Entry, Entries
<1> QED BY <1>2, <1>3 DEF Admits

\* w, a word of entries, can be read at byte at.
Reads(w, h, pos) ==
  w \in Seq(Entries) /\ \A i \in 1..Len(w) : Admits(w[i], h.bytes[pos + i - 1])

\* A form, as entries, admits its own bytes.
LEMMA CompactAdmits ==
  ASSUME NEW t \in DOMAIN Forms, NEW f \in Forms[t]
  PROVE  /\ CompactForm(f) \in CompactForms(t)
         /\ CompactForm(f) \in Seq(Entries)
         /\ Len(CompactForm(f)) = Len(f)
         /\ \A i \in 1..Len(f) : Admits(CompactForm(f)[i], f[i])
<1>0. /\ f \in Seq(0..255) /\ DOMAIN f = 1..Len(f) /\ Len(f) \in Nat \ {0}
      /\ \A i \in 1..Len(f) : f[i] \in 0..255
  BY FormsTyped
<1>1. CompactForm(f) \in CompactForms(t)
  BY DEF CompactForms
<1>2. CASE Len(f) = 1 /\ IsLetter(f[1])
  <2> DEFINE e == Entry(Lower(f[1]), TRUE)
  <2>0. 1 \in 1..Len(f)
    BY <1>2
  <2>1. CompactForm(f) = <<e>>
    BY <1>2 DEF CompactForm
  <2>2. Admits(e, f[1]) /\ e \in Entries
    BY <1>0, <2>0, OwnEntry
  <2> HIDE DEF e
  <2>3. <<e>> \in Seq(Entries) /\ Len(<<e>>) = 1 /\ <<e>>[1] = e
    BY <2>2
  <2>4. \A i \in 1..Len(f) : i = 1
    BY <1>2
  <2> QED BY <1>1, <1>2, <2>1, <2>2, <2>3, <2>4
<1>3. CASE ~(Len(f) = 1 /\ IsLetter(f[1]))
  <2> DEFINE n == Len(f)
             g == [i \in 1..n |-> Entry(f[i], FALSE)]
  <2>1. CompactForm(f) = g
    BY <1>0, <1>3, Zenon DEF CompactForm
  <2>2. \A i \in 1..n : g[i] \in Entries /\ Admits(g[i], f[i])
    BY <1>0, OwnEntry
  <2>3. g \in [1..n -> Entries]
    BY <2>2
  <2>4. n \in Nat
    BY <1>0
  <2> HIDE DEF g, n
  <2>5. g \in Seq(Entries) /\ Len(g) = n
    BY <2>3, <2>4
  <2> QED BY <1>1, <2>1, <2>2, <2>5 DEF n
<1> QED BY <1>2, <1>3

\* How a unit of a used token is spelled.
LEMMA UnitSpelled ==
  ASSUME NEW h, IsSpelled(h), NEW u \in 0..(h.n - 1),
         NEW t \in DOMAIN Forms, h.tok[u] = t
  PROVE  /\ Spelling(h, u) \in Forms[t]
         /\ Len(Spelling(h, u)) = h.off[u + 1] - h.off[u]
         /\ \A i \in 1..Len(Spelling(h, u)) : Spelling(h, u)[i] = h.bytes[h.off[u] + i - 1]
         /\ h.off[u] \in Nat /\ h.off[u + 1] \in Nat /\ h.off[u] < h.off[u + 1]
<1>1. IsHaystack(h) /\ Spelling(h, u) \in Forms[t]
  BY DEF IsSpelled
<1>2. h.off[u] \in Nat /\ h.off[u + 1] \in Nat /\ h.off[u] < h.off[u + 1]
  <2>1. h.n \in Nat /\ u \in 0..h.n /\ u + 1 \in 0..h.n /\ u < u + 1
    BY <1>1 DEF IsHaystack
  <2> QED BY <1>1, <2>1 DEF IsHaystack
<1>3. /\ Len(Spelling(h, u)) = h.off[u + 1] - h.off[u]
      /\ \A i \in 1..(h.off[u + 1] - h.off[u]) : Spelling(h, u)[i] = h.bytes[h.off[u] + i - 1]
  <2>1. Spelling(h, u) \in Seq(0..255)
    BY <1>1, FormsTyped
  <2>2. DOMAIN Spelling(h, u) = 1..(h.off[u + 1] - h.off[u])
    BY DEF Spelling
  <2>3. DOMAIN Spelling(h, u) = 1..Len(Spelling(h, u))
    BY <2>1
  <2>4. Len(Spelling(h, u)) = h.off[u + 1] - h.off[u]
    <3>1. Len(Spelling(h, u)) \in Nat
      BY <2>1
    <3> DEFINE n == Len(Spelling(h, u))
               d == h.off[u + 1] - h.off[u]
    <3>2. n \in Nat /\ d \in Nat /\ 1..n = 1..d
      BY <1>2, <2>2, <2>3, <3>1
    <3> HIDE DEF n, d
    <3>3. n = d
      <4>1. n \in 1..d \/ n = 0
        BY <3>2
      <4>2. d \in 1..n \/ d = 0
        BY <3>2
      <4> QED BY <3>2, <4>1, <4>2
    <3> QED BY <3>3 DEF n, d
  <2> QED BY <2>4 DEF Spelling
<1> QED BY <1>1, <1>2, <1>3

\* A unit, as entries, can be read where it stands; one after the other, too.
LEMMA UnitReads ==
  ASSUME NEW h, IsSpelled(h), NEW u \in 0..(h.n - 1),
         NEW t \in DOMAIN Forms, h.tok[u] = t,
         NEW e, e = CompactForm(Spelling(h, u))
  PROVE  /\ e \in CompactForms(t) /\ Reads(e, h, h.off[u])
         /\ Len(e) = h.off[u + 1] - h.off[u]
<1> DEFINE s == Spelling(h, u)
<1>1. /\ s \in Forms[t] /\ Len(s) = h.off[u + 1] - h.off[u]
      /\ \A i \in 1..Len(s) : s[i] = h.bytes[h.off[u] + i - 1]
  BY UnitSpelled
<1> HIDE DEF s
<1>2. /\ e \in CompactForms(t) /\ e \in Seq(Entries) /\ Len(e) = Len(s)
      /\ \A i \in 1..Len(s) : Admits(e[i], s[i])
  BY <1>1, CompactAdmits DEF s
<1> QED BY <1>1, <1>2 DEF Reads

LEMMA ConcatReads ==
  ASSUME NEW h, NEW pos \in Nat, NEW w, Reads(w, h, pos),
         NEW e, NEW mid, mid = pos + Len(w), Reads(e, h, mid)
  PROVE  Reads(w \o e, h, pos) /\ Len(w \o e) = Len(w) + Len(e)
<1>0. /\ w \in Seq(Entries) /\ e \in Seq(Entries)
      /\ Len(w) \in Nat /\ Len(e) \in Nat
  BY LenProperties DEF Reads
<1>1. /\ w \o e \in Seq(Entries) /\ Len(w \o e) = Len(w) + Len(e)
      /\ \A i \in 1..(Len(w) + Len(e)) :
           (w \o e)[i] = IF i <= Len(w) THEN w[i] ELSE e[i - Len(w)]
  BY <1>0, ConcatProperties
<1>2. ASSUME NEW i \in 1..(Len(w) + Len(e))
      PROVE  Admits((w \o e)[i], h.bytes[pos + i - 1])
  <2>1. CASE i <= Len(w)
    <3>1. i \in 1..Len(w) /\ (w \o e)[i] = w[i]
      BY <1>0, <1>1, <2>1
    <3> QED BY <3>1 DEF Reads
  <2>2. CASE ~(i <= Len(w))
    <3>1. i - Len(w) \in 1..Len(e) /\ (w \o e)[i] = e[i - Len(w)]
      BY <1>0, <1>1, <2>2
    <3>2. mid + (i - Len(w)) - 1 = pos + i - 1
      BY <1>0
    <3> QED BY <3>1, <3>2 DEF Reads
  <2> QED BY <2>1, <2>2
<1> QED BY <1>1, <1>2 DEF Reads

-----------------------------------------------------------------------------
(***************************************************************************)
(* The words of a node.  Spellings is defined by recursion: that there is  *)
(* such a function, and what it holds, is shown token by token.            *)
(***************************************************************************)
Longer(words, t) == {w \o f : w \in {v \in words : Len(v) < 3}, f \in CompactForms(t)}

IsWords(node, n, f) ==
  f = [i \in 0..n |-> IF i = 0 THEN {<<>>} ELSE Longer(f[i - 1], node[i])]

LEMMA WordsExist ==
  ASSUME NEW node, NEW n \in Nat
  PROVE  \E f : IsWords(node, n, f)
<1> DEFINE Without == {k \in 0..n : ~\E f : IsWords(node, k, f)}
<1> SUFFICES ASSUME ~\E f : IsWords(node, n, f) PROVE FALSE
  OBVIOUS
<1>1. PICK k \in Without : \A j \in Without : k <= j
  <2>1. n \in 0..n
    OBVIOUS
  <2>2. Without \in SUBSET Nat /\ Without # {}
    BY <2>1
  <2> HIDE DEF Without
  <2> QED BY <2>2, Least
<1>2. k \in 0..n /\ ~\E f : IsWords(node, k, f)
  OBVIOUS
<1>3. k # 0
  <2> DEFINE f == [i \in 0..0 |-> {<<>>}]
  <2>1. IsWords(node, 0, f)
    BY DEF IsWords
  <2> QED BY <1>2, <2>1
<1>4. PICK f : IsWords(node, k - 1, f)
  <2>1. k - 1 \in 0..n /\ ~(k <= k - 1)
    BY <1>2, <1>3
  <2>2. k - 1 \notin Without
    BY <1>1, <2>1
  <2> QED BY <2>1, <2>2
<1>5. \A i \in 0..(k - 1) : f[i] = IF i = 0 THEN {<<>>} ELSE Longer(f[i - 1], node[i])
  BY <1>4 DEF IsWords
<1> DEFINE g == [i \in 0..k |-> IF i = k THEN Longer(f[k - 1], node[k]) ELSE f[i]]
<1>6. ASSUME NEW i \in 0..k
      PROVE  g[i] = IF i = 0 THEN {<<>>} ELSE Longer(g[i - 1], node[i])
  <2>1. CASE i = 0
    <3>1. 0 \in 0..(k - 1) /\ i # k /\ 0 \in 0..k
      BY <1>2, <1>3, <2>1
    <3> QED BY <1>5, <2>1, <3>1
  <2>2. CASE i # 0 /\ i # k
    <3>1. i \in 0..(k - 1) /\ i - 1 \in 0..k /\ i - 1 # k
      BY <1>2, <2>2
    <3> QED BY <1>5, <2>2, <3>1
  <2>3. CASE i # 0 /\ i = k
    <3>1. k - 1 \in 0..k /\ k - 1 # k /\ k \in 0..k
      BY <1>2, <1>3
    <3> QED BY <2>3, <3>1
  <2> QED BY <2>1, <2>2, <2>3
<1>7. IsWords(node, k, g)
  <2>1. g = [i \in 0..k |-> g[i]]
    OBVIOUS
  <2> HIDE DEF g
  <2>2. g = [i \in 0..k |-> IF i = 0 THEN {<<>>} ELSE Longer(g[i - 1], node[i])]
    BY <1>6, <2>1, Zenon
  <2> QED BY <2>2, Zenon DEF IsWords
<1> QED BY <1>2, <1>7

LEMMA SpellingsAreWords ==
  ASSUME NEW node, Len(node) \in Nat
  PROVE  \E f : IsWords(node, Len(node), f) /\ Spellings(node) = f[Len(node)]
<1> DEFINE f == CHOOSE g : IsWords(node, Len(node), g)
<1>1. IsWords(node, Len(node), f)
  BY WordsExist
<1>2. Spellings(node) = f[Len(node)]
  BY DEF Spellings, IsWords, Longer
<1> QED BY <1>1, <1>2

LEMMA LongerHas ==
  ASSUME NEW words, NEW t, NEW w \in words, Len(w) < 3, NEW e \in CompactForms(t)
  PROVE  w \o e \in Longer(words, t)
<1>1. w \in {v \in words : Len(v) < 3}
  OBVIOUS
<1> QED BY <1>1 DEF Longer

\* One of the words is what stands from byte a up to byte b.
SpeltBy(words, h, a, b) == \E w \in words : Reads(w, h, a) /\ Len(w) = b - a

\* A form behind it makes it a longer word.
LEMMA WordGrows ==
  ASSUME NEW h, NEW a \in Nat, NEW b \in Nat, NEW c \in Nat, NEW words, NEW t, NEW e,
         SpeltBy(words, h, a, b), b - a < 3,
         e \in CompactForms(t), Reads(e, h, b), Len(e) = c - b
  PROVE  SpeltBy(Longer(words, t), h, a, c)
<1>0. PICK w : w \in words /\ Reads(w, h, a) /\ Len(w) = b - a
  BY DEF SpeltBy
<1>1. b = a + Len(w) /\ Len(w) < 3
  BY <1>0
<1>2. Reads(w \o e, h, a) /\ Len(w \o e) = Len(w) + Len(e)
  BY <1>0, <1>1, ConcatReads
<1>3. w \o e \in Longer(words, t)
  BY <1>0, <1>1, LongerHas
<1> DEFINE l == Len(w \o e)
<1>4. l = c - a
  <2>1. l = (b - a) + (c - b)
    BY <1>0, <1>2
  <2> HIDE DEF l
  <2> QED BY <2>1
<1> QED BY <1>2, <1>3, <1>4 DEF SpeltBy

\* The k units at u have tokens s, and all of them are needed for three bytes.
Spells(h, u, k, s) ==
  /\ k \in Nat /\ u + k <= h.n
  /\ \A i \in 1..k : s[i] = h.tok[u + i - 1] /\ s[i] \in DOMAIN Forms

Needed(h, u, k) == \A i \in 0..(k - 1) : h.off[u + i] - h.off[u] < 3

LEMMA NextWord ==
  ASSUME NEW h, IsSpelled(h), NEW u \in 0..h.n, NEW v \in 0..(h.n - 1),
         h.off[v] - h.off[u] < 3, NEW t \in DOMAIN Forms, h.tok[v] = t,
         NEW words, SpeltBy(words, h, h.off[u], h.off[v])
  PROVE  SpeltBy(Longer(words, t), h, h.off[u], h.off[v + 1])
<1>1. PICK e : e = CompactForm(Spelling(h, v))
  OBVIOUS
<1>2. /\ e \in CompactForms(t) /\ Reads(e, h, h.off[v])
      /\ Len(e) = h.off[v + 1] - h.off[v]
  BY <1>1, UnitReads
<1>3. PICK a \in Nat, b \in Nat, c \in Nat :
        a = h.off[u] /\ b = h.off[v] /\ c = h.off[v + 1]
  <2>1. h.off[v] \in Nat /\ h.off[v + 1] \in Nat
    BY UnitSpelled
  <2>2. h.off[u] \in Nat
    BY DEF IsSpelled, IsHaystack
  <2> QED BY <2>1, <2>2
<1>4. /\ a \in Nat /\ b \in Nat /\ c \in Nat
      /\ e \in CompactForms(t) /\ Reads(e, h, b) /\ SpeltBy(words, h, a, b)
      /\ b - a < 3 /\ Len(e) = c - b
  BY <1>2, <1>3
<1>5. SpeltBy(Longer(words, t), h, a, c)
  BY <1>4, WordGrows
<1> QED BY <1>3, <1>5

\* So many units spell a word.
LEMMA WordReads ==
  ASSUME NEW h, IsSpelled(h), NEW u \in 0..h.n,
         NEW k, NEW s, Spells(h, u, k, s), Needed(h, u, k),
         NEW f, IsWords(s, k, f)
  PROVE  SpeltBy(f[k], h, h.off[u], h.off[u + k])
<1> DEFINE Wrong == {i \in 0..k : ~SpeltBy(f[i], h, h.off[u], h.off[u + i])}
<1>0. /\ IsHaystack(h) /\ h.n \in Nat /\ k \in Nat /\ u \in Nat /\ u + k <= h.n
      /\ h.off[u] \in Nat
  <2>1. IsHaystack(h)
    BY DEF IsSpelled
  <2> QED BY <2>1 DEF IsHaystack, Spells
<1>1. \A i \in 0..k : f[i] = IF i = 0 THEN {<<>>} ELSE Longer(f[i - 1], s[i])
  BY DEF IsWords
<1> SUFFICES ASSUME Wrong # {} PROVE FALSE
  BY <1>0
<1>2. PICK i \in Wrong : \A j \in Wrong : i <= j
  <2>1. Wrong \in SUBSET Nat
    BY <1>0
  <2> HIDE DEF Wrong
  <2> QED BY <2>1, Least
<1>3. i \in 0..k /\ ~SpeltBy(f[i], h, h.off[u], h.off[u + i])
  OBVIOUS
<1>4. \A j \in 0..k : ~(i <= j) => SpeltBy(f[j], h, h.off[u], h.off[u + j])
  BY <1>2
<1> HIDE DEF Wrong
<1>5. CASE i = 0
  <2>1. f[0] = {<<>>}
    BY <1>1, <1>3, <1>5
  <2>2. <<>> \in Seq(Entries) /\ Len(<<>>) = 0 /\ u + 0 = u /\ h.off[u] - h.off[u] = 0
    BY <1>0
  <2>3. Reads(<<>>, h, h.off[u])
    BY <2>2 DEF Reads
  <2> QED BY <1>3, <1>5, <2>1, <2>2, <2>3 DEF SpeltBy
<1>6. CASE i # 0
  <2>1. PICK j \in 0..(k - 1) : i = j + 1
    <3>1. i - 1 \in 0..(k - 1) /\ i = (i - 1) + 1
      BY <1>0, <1>3, <1>6
    <3> QED BY <3>1
  <2>2. PICK v \in 0..(h.n - 1) : v = u + j /\ v + 1 = u + i /\ v = u + i - 1
    <3>1. u + j \in 0..(h.n - 1) /\ (u + j) + 1 = u + i /\ u + j = u + i - 1
      BY <1>0, <1>3, <2>1
    <3> QED BY <3>1
  <2>3. SpeltBy(f[j], h, h.off[u], h.off[v])
    <3>1. j \in 0..k /\ ~(i <= j)
      BY <1>0, <2>1
    <3> QED BY <1>4, <2>2, <3>1
  <2>4. h.off[v] - h.off[u] < 3
    BY <2>1, <2>2 DEF Needed
  <2>5. h.tok[v] = s[i] /\ s[i] \in DOMAIN Forms
    <3>1. i \in 1..k
      BY <1>0, <1>3, <2>1
    <3> QED BY <2>2, <3>1 DEF Spells
  <2>6. SpeltBy(Longer(f[j], s[i]), h, h.off[u], h.off[v + 1])
    BY <2>2, <2>3, <2>4, <2>5, NextWord
  <2>7. f[i] = Longer(f[j], s[i])
    <3>1. f[i] = Longer(f[i - 1], s[i]) /\ i - 1 = j
      BY <1>1, <1>3, <1>6, <2>1
    <3> QED BY <3>1
  <2> QED BY <1>3, <2>2, <2>6, <2>7
<1> QED BY <1>5, <1>6

\* The same of the first units of an occurrence, which are a node.
LEMMA OccurrenceReads ==
  ASSUME NEW p \in PatternSets, NEW h, IsSpelled(h),
         NEW id \in Ids(p), NEW u \in 0..h.n, Occurs(p, h, id, u),
         NEW k \in 1..Len(p[id]), Needed(h, u, k)
  PROVE  SpeltBy(Spellings(SubSeq(p[id], 1, k)), h, h.off[u], h.off[u + k])
<1>a. PICK s : s = SubSeq(p[id], 1, k)
  OBVIOUS
<1>0. /\ IsPatternSet(p) /\ UsedTokens(p) \subseteq DOMAIN Forms
      /\ IsHaystack(h) /\ h.n \in Nat
  BY FilteredAssumption DEF FilteredAssumption, IsSpelled, IsHaystack
<1>1. p[id] \in Seq(Token) /\ DOMAIN p[id] = 1..Len(p[id]) /\ Len(p[id]) \in Nat
  BY <1>0 DEF IsPatternSet, Ids
<1>2. s \in Nodes(p) /\ s \in Seq(Token) /\ Len(s) = k /\ \A i \in 1..k : s[i] = p[id][i]
  BY <1>0, <1>a, PrefixIsNode
<1>3. \A i \in 1..k : s[i] = p[id][i] /\ s[i] = h.tok[u + i - 1] /\ s[i] \in DOMAIN Forms
  <2>1. ASSUME NEW i \in 1..k PROVE s[i] = h.tok[u + i - 1] /\ s[i] \in DOMAIN Forms
    <3>1. i \in 1..Len(p[id]) /\ i \in DOMAIN p[id]
      BY <1>1
    <3>2. h.tok[u + i - 1] = p[id][i]
      BY <3>1 DEF Occurs
    <3>3. p[id][i] \in UsedTokens(p)
      BY <3>1 DEF UsedTokens
    <3> QED BY <1>0, <1>2, <3>2, <3>3
  <2> QED BY <1>2, <2>1
<1>4. PICK f : IsWords(s, k, f) /\ Spellings(s) = f[k]
  <2>1. Len(s) \in Nat
    BY <1>2, LenProperties
  <2> QED BY <1>2, <2>1, SpellingsAreWords
<1>5. u + k <= h.n /\ k \in Nat
  BY <1>0, <1>1 DEF Occurs
<1>6. Spells(h, u, k, s)
  BY <1>3, <1>5 DEF Spells
<1>7. SpeltBy(f[k], h, h.off[u], h.off[u + k])
  BY <1>4, <1>6, WordReads
<1> QED BY <1>a, <1>4, <1>7

-----------------------------------------------------------------------------
(***************************************************************************)
(* Where a pattern occurs whose root has its triples, one of them stands:  *)
(* the first units that have three bytes spell it, and a pattern that ends *)
(* before the third byte has kept its root from being expanded.            *)
(***************************************************************************)
HasTriple(triples, h, pos) ==
  \E v \in triples : \A i \in 1..3 : Admits(v[i], h.bytes[pos + i - 1])

\* The least number of units that have three bytes, or all there are.
LEMMA UnitsNeeded ==
  ASSUME NEW h, IsHaystack(h), NEW u \in 0..h.n, NEW n \in Nat \ {0}, u + n <= h.n
  PROVE  \E k \in 1..n : /\ k <= 3 /\ Needed(h, u, k)
                         /\ k = n \/ h.off[u + k] - h.off[u] >= 3
<1> DEFINE Enough == {k \in 1..n : k = n \/ h.off[u + k] - h.off[u] >= 3}
<1>0. h.n \in Nat /\ u \in Nat /\ h.off[u] \in Nat
  BY DEF IsHaystack
<1>1. PICK k \in Enough : \A j \in Enough : k <= j
  <2>1. n \in Enough /\ Enough \in SUBSET Nat
    BY <1>0
  <2> HIDE DEF Enough
  <2> QED BY <2>1, Least
<1>2. k \in 1..n /\ (k = n \/ h.off[u + k] - h.off[u] >= 3)
  OBVIOUS
<1>3. \A j \in 1..n : ~(k <= j) => h.off[u + j] - h.off[u] < 3
  <2>1. ASSUME NEW j \in 1..n, ~(k <= j) PROVE h.off[u + j] - h.off[u] < 3
    <3>1. j \notin Enough
      BY <1>1, <2>1
    <3>2. ~(h.off[u + j] - h.off[u] >= 3)
      BY <3>1
    <3>3. h.off[u + j] \in Nat
      BY <1>0, UnitsHaveBytes
    <3> HIDE DEF Enough
    <3> QED BY <1>0, <3>2, <3>3
  <2> QED BY <2>1
<1> HIDE DEF Enough
<1>4. k <= 3
  <2> SUFFICES ASSUME ~(k <= 3) PROVE FALSE
    OBVIOUS
  <2>1. 3 \in 1..n /\ ~(k <= 3) /\ u + 3 <= h.n /\ 3 \in Nat
    BY <1>0, <1>2
  <2>2. h.off[u + 3] \in Nat /\ h.off[u] \in Nat /\ h.off[u + 3] >= h.off[u] + 3
    BY <2>1, UnitsHaveBytes
  <2>3. h.off[u + 3] - h.off[u] < 3
    BY <1>3, <2>1
  <2> QED BY <2>2, <2>3
<1>5. Needed(h, u, k)
  <2>1. ASSUME NEW i \in 0..(k - 1) PROVE h.off[u + i] - h.off[u] < 3
    <3>1. CASE i = 0
      <4>1. u + i = u
        BY <1>0, <3>1
      <4> QED BY <1>0, <4>1
    <3>2. CASE i # 0
      <4>1. i \in 1..n /\ ~(k <= i)
        BY <1>2, <3>2
      <4> QED BY <1>3, <4>1
    <3> QED BY <3>1, <3>2
  <2> QED BY <2>1 DEF Needed
<1> QED BY <1>2, <1>4, <1>5

\* A pattern is the longest of its prefixes.
LEMMA WholePrefix ==
  ASSUME NEW p, IsPatternSet(p), NEW id \in Ids(p), p[id] # <<>>
  PROVE  SubSeq(p[id], 1, Len(p[id])) = p[id]
<1>1. p[id] \in Seq(Token) /\ Len(p[id]) \in Nat \ {0}
  <2>1. p[id] \in Seq(Token)
    BY DEF IsPatternSet, Ids
  <2> QED BY <2>1, EmptySeq
<1> QED BY <1>1, SubSeqFull

LEMMA TripleFound ==
  ASSUME NEW p \in PatternSets, NEW h, IsSpelled(h), NEW id \in Ids(p), NEW u \in 0..h.n,
         Occurs(p, h, id, u), p[id] # <<>>,
         Expands(p, h.tok[u]), NEW triples, ExpandedTriples(p, h.tok[u]) \subseteq triples
  PROVE  HasTriple(triples, h, h.off[u])
<1>0. /\ IsPatternSet(p) /\ IsHaystack(h)
      /\ p[id] \in Seq(Token) /\ Len(p[id]) \in Nat \ {0} /\ u + Len(p[id]) <= h.n
  <2>1. IsPatternSet(p) /\ IsHaystack(h)
    BY FilteredAssumption DEF FilteredAssumption, IsSpelled
  <2>2. p[id] \in Seq(Token)
    BY <2>1 DEF IsPatternSet, Ids
  <2>3. Len(p[id]) \in Nat \ {0}
    BY <2>2, EmptySeq
  <2> QED BY <2>1, <2>2, <2>3 DEF Occurs
<1>1. PICK k \in 1..Len(p[id]) :
        /\ k <= 3 /\ Needed(h, u, k)
        /\ k = Len(p[id]) \/ h.off[u + k] - h.off[u] >= 3
  BY <1>0, UnitsNeeded
<1>2. PICK s : s = SubSeq(p[id], 1, k)
  OBVIOUS
<1>3. /\ s \in Nodes(p) /\ Len(s) = k
      /\ \A i \in 1..k : s[i] = p[id][i]
      /\ SpeltBy(Spellings(s), h, h.off[u], h.off[u + k])
  <2>1. SpeltBy(Spellings(SubSeq(p[id], 1, k)), h, h.off[u], h.off[u + k])
    BY <1>1, OccurrenceReads
  <2>2. /\ SubSeq(p[id], 1, k) \in Nodes(p) /\ Len(SubSeq(p[id], 1, k)) = k
        /\ \A i \in 1..k : SubSeq(p[id], 1, k)[i] = p[id][i]
    BY <1>0, PrefixIsNode
  <2> QED BY <1>2, <2>1, <2>2
<1>4. s \in Below(p, h.tok[u])
  <2>1. h.tok[u] = p[id][1]
    BY <1>0, OccurrenceStarts
  <2>2. 1 \in 1..k /\ k \in 1..3
    BY <1>0, <1>1
  <2>3. s[1] = h.tok[u]
    BY <1>3, <2>1, <2>2
  <2> QED BY <1>3, <2>2, <2>3 DEF Below
<1>5. PICK w \in Spellings(s) : Reads(w, h, h.off[u]) /\ Len(w) = h.off[u + k] - h.off[u]
  BY <1>3 DEF SpeltBy
<1>6. w \in Seq(Entries) /\ Len(w) \in Nat /\ \A i \in 1..Len(w) : Admits(w[i], h.bytes[h.off[u] + i - 1])
  BY <1>5, LenProperties DEF Reads
<1>7. Len(w) >= 3
  <2> SUFFICES ASSUME Len(w) < 3 PROVE FALSE
    BY <1>6
  <2>1. ~IsTerminal(p, s)
    BY <1>4, <1>5 DEF Expands
  <2>2. k = Len(p[id])
    BY <1>1, <1>5, <1>6
  <2>3. s = p[id]
    BY <1>0, <1>2, <2>2, WholePrefix
  <2> QED BY <2>1, <2>3 DEF IsTerminal
<1>8. SubSeq(w, 1, 3) \in triples
  BY <1>4, <1>5, <1>7 DEF ExpandedTriples
<1>9. \A i \in 1..3 : SubSeq(w, 1, 3)[i] = w[i] /\ i \in 1..Len(w)
  <2>1. 3 \in 1..Len(w)
    BY <1>6, <1>7
  <2> QED BY <1>6, <2>1, PrefixOfSeq
<1>10. \A i \in 1..3 : Admits(SubSeq(w, 1, 3)[i], h.bytes[h.off[u] + i - 1])
  BY <1>6, <1>9
<1> QED BY <1>8, <1>10 DEF HasTriple
-----------------------------------------------------------------------------
(***************************************************************************)
(* makeTripleFilter, token by token.                                       *)
(***************************************************************************)
\* What holds at first, and of each round if of the one before, holds in the end.
LEMMA RoundByRound ==
  ASSUME NEW n \in Nat, NEW Held, 0 \in Held, \A i \in 1..n : i - 1 \in Held => i \in Held
  PROVE  n \in Held
<1> DEFINE Wrong == {i \in 0..n : i \notin Held}
<1> SUFFICES ASSUME n \notin Held PROVE FALSE
  OBVIOUS
<1>1. PICK k \in Wrong : \A j \in Wrong : k <= j
  <2>1. n \in 0..n
    OBVIOUS
  <2>2. Wrong \in SUBSET Nat /\ Wrong # {}
    BY <2>1
  <2> HIDE DEF Wrong
  <2> QED BY <2>2, Least
<1>2. k \in 0..n /\ k \notin Held
  OBVIOUS
<1>3. k \in 1..n /\ k - 1 \in 0..n /\ ~(k <= k - 1)
  BY <1>2
<1>4. k - 1 \in Held
  BY <1>1, <1>3
<1> QED BY <1>2, <1>3, <1>4

Grown(p, t, prior) ==
  IF /\ MayExpand(p, t)
     /\ Cardinality(prior.values \cup ExpandedTriples(p, t)) <= FilterSlots
    THEN [values |-> prior.values \cup ExpandedTriples(p, t), roots |-> prior.roots \cup {t}]
    ELSE prior

IsTriples(p, n, f) ==
  f = [t \in 0..n |-> IF t = 0 THEN [values |-> {}, roots |-> {}] ELSE Grown(p, t, f[t - 1])]

TokenCount == Len(Forms)

LEMMA TokensAreForms == TokenCount \in Nat /\ DOMAIN Forms = 1..TokenCount
BY FilteredAssumption, LenProperties DEF FilteredAssumption, TokenCount

LEMMA TriplesExist ==
  ASSUME NEW p
  PROVE  \E f : IsTriples(p, TokenCount, f)
<1> DEFINE n == TokenCount
           All == UNION {ExpandedTriples(p, t) : t \in 1..n}
           V == [values : SUBSET All, roots : SUBSET (1..n)]
           start == [values |-> {}, roots |-> {}]
           round == [x \in (1..n) \X V |-> Grown(p, x[1], x[2])]
<1>1. n \in Nat
  BY TokensAreForms
<1>2. start \in V
  OBVIOUS
<1>3. ASSUME NEW t \in 1..n, NEW prior \in V PROVE Grown(p, t, prior) \in V
  <2>1. ExpandedTriples(p, t) \subseteq All
    OBVIOUS
  <2> HIDE DEF All
  <2>2. prior.values \cup ExpandedTriples(p, t) \in SUBSET All /\ prior.roots \cup {t} \in SUBSET (1..n)
    BY <2>1
  <2>3. [values |-> prior.values \cup ExpandedTriples(p, t), roots |-> prior.roots \cup {t}] \in V
    BY <2>2
  <2> QED BY <2>3 DEF Grown
<1> HIDE DEF V
<1>4. round \in [(1..n) \X V -> V]
  BY <1>3
<1>5. PICK f : IsIteration(V, start, round, n, f)
  <2> HIDE DEF round, start, n
  <2> QED BY <1>1, <1>2, <1>4, RunExists
<1>6. f \in [0..n -> V] /\ f[0] = start /\ \A t \in 1..n : f[t] = round[<<t, f[t - 1]>>]
  BY <1>5 DEF IsIteration
<1> HIDE DEF n
<1>7. ASSUME NEW t \in 0..n
      PROVE  f[t] = IF t = 0 THEN start ELSE Grown(p, t, f[t - 1])
  <2>1. CASE t = 0
    BY <1>6, <2>1
  <2>2. CASE t # 0
    <3>1. t \in 1..n /\ t - 1 \in 0..n
      BY <1>1, <2>2
    <3>2. f[t - 1] \in V
      BY <1>6, <3>1
    <3>3. <<t, f[t - 1]>> \in (1..n) \X V /\ <<t, f[t - 1]>>[1] = t /\ <<t, f[t - 1]>>[2] = f[t - 1]
      BY <3>1, <3>2
    <3>4. round[<<t, f[t - 1]>>] = Grown(p, t, f[t - 1])
      BY <3>3
    <3> QED BY <1>6, <2>2, <3>1, <3>4
  <2> QED BY <2>1, <2>2
<1>8. f = [t \in 0..n |-> f[t]]
  BY <1>6
<1>9. f = [t \in 0..n |-> IF t = 0 THEN start ELSE Grown(p, t, f[t - 1])]
  <2> HIDE DEF start
  <2> QED BY <1>7, <1>8, Zenon
<1>10. IsTriples(p, n, f)
  BY <1>9, Zenon DEF IsTriples
<1> QED BY <1>10 DEF n

\* A root in the filter has all its triples there.
HasTriplesOf(p, g) ==
  \A r \in g.roots : Expands(p, r) /\ ExpandedTriples(p, r) \subseteq g.values

LEMMA TriplesHold ==
  ASSUME NEW p
  PROVE  HasTriplesOf(p, TripleFilter(p))
<1> DEFINE f == CHOOSE g : IsTriples(p, TokenCount, g)
<1>1. IsTriples(p, TokenCount, f)
  BY TriplesExist
<1>2. TripleFilter(p) = f[TokenCount]
  BY DEF TripleFilter, IsTriples, Grown, TokenCount
<1> HIDE DEF f
<1>3. \A t \in 0..TokenCount :
        f[t] = IF t = 0 THEN [values |-> {}, roots |-> {}] ELSE Grown(p, t, f[t - 1])
  BY <1>1 DEF IsTriples
<1>n. TokenCount \in Nat
  BY TokensAreForms
<1> DEFINE Held == {t \in 0..TokenCount : HasTriplesOf(p, f[t])}
<1>4. 0 \in Held
  <2>1. f[0] = [values |-> {}, roots |-> {}]
    BY <1>3, <1>n
  <2> QED BY <1>n, <2>1 DEF HasTriplesOf
<1>5. ASSUME NEW t \in 1..TokenCount, t - 1 \in Held PROVE t \in Held
  <2>1. t \in 0..TokenCount /\ t # 0
    BY <1>n
  <2>2. f[t] = Grown(p, t, f[t - 1])
    BY <1>3, <2>1
  <2>3. HasTriplesOf(p, f[t - 1])
    BY <1>5
  <2>4. HasTriplesOf(p, Grown(p, t, f[t - 1]))
    BY <2>3 DEF HasTriplesOf, Grown, MayExpand
  <2> QED BY <2>1, <2>2, <2>4
<1>6. TokenCount \in Held
  <2> HIDE DEF Held
  <2> QED BY <1>n, <1>4, <1>5, RoundByRound
<1> QED BY <1>2, <1>6
-----------------------------------------------------------------------------
(***************************************************************************)
(* makeRootFilter, token by token.                                         *)
(***************************************************************************)
Fits(f) == Cardinality(f.ones) <= FilterSlots /\ Cardinality(f.pairs) <= FilterSlots

Paired(p, f, t) ==
  {g \in {[f EXCEPT !.pairs = @ \cup FirstBytes(t) \cup FollowedBy(t, next)] :
            next \in {n \in UsedTokens(p) : MustFollow(p, t, n)}} : Fits(g)}

LoneBytes(t) == {g[1] : g \in {e \in Forms[t] : Len(e) = 1}}

RawPairs(t) ==
  {<<Entry(g[1], FALSE), Entry(g[2], FALSE)>> : g \in {e \in Forms[t] : Len(e) > 1}}

Plain(f, t) == [ones |-> f.ones \cup LoneBytes(t), pairs |-> f.pairs \cup RawPairs(t)]

WithRoot(p, t, filters) ==
  IF t \notin RootTokens(p) THEN filters
  ELSE UNION {IF Paired(p, f, t) # {} THEN Paired(p, f, t)
              ELSE {g \in {Plain(f, t)} : Fits(g)} : f \in filters}

IsFilters(p, n, f) ==
  f = [t \in 0..n |-> IF t = 0 THEN {NoFilter} ELSE WithRoot(p, t, f[t - 1])]

LEMMA FiltersExist ==
  ASSUME NEW p
  PROVE  \E f : IsFilters(p, TokenCount, f)
<1> DEFINE n == TokenCount
           Ones == UNION {LoneBytes(t) : t \in 1..n}
           Raw == UNION {RawPairs(t) : t \in 1..n}
           Firsts == UNION {FirstBytes(t) : t \in 1..n}
           Follow == UNION {FollowedBy(t, next) : t \in 1..n, next \in UsedTokens(p)}
           Filters == [ones : SUBSET Ones, pairs : SUBSET (Raw \cup Firsts \cup Follow)]
           V == SUBSET Filters
           start == {NoFilter}
           round == [x \in (1..n) \X V |-> WithRoot(p, x[1], x[2])]
<1>1. n \in Nat
  BY TokensAreForms
<1>2. start \in V
  BY DEF NoFilter
<1>3. ASSUME NEW t \in 1..n, NEW prior \in V PROVE WithRoot(p, t, prior) \in V
  <2>1. LoneBytes(t) \subseteq Ones /\ RawPairs(t) \subseteq Raw /\ FirstBytes(t) \subseteq Firsts
    OBVIOUS
  <2>2. \A next \in UsedTokens(p) : FollowedBy(t, next) \subseteq Follow
    OBVIOUS
  <2> HIDE DEF Ones, Raw, Firsts, Follow
  <2>3. ASSUME NEW f \in prior PROVE Paired(p, f, t) \subseteq Filters /\ Plain(f, t) \in Filters
    <3>1. f \in Filters
      OBVIOUS
    <3>2. Plain(f, t) \in Filters
      BY <2>1, <3>1 DEF Plain
    <3>3. ASSUME NEW next \in UsedTokens(p)
          PROVE  [f EXCEPT !.pairs = @ \cup FirstBytes(t) \cup FollowedBy(t, next)] \in Filters
      BY <2>1, <2>2, <3>1, <3>3
    <3> QED BY <3>2, <3>3 DEF Paired
  <2> QED BY <2>3 DEF WithRoot
<1> HIDE DEF V
<1>4. round \in [(1..n) \X V -> V]
  BY <1>3
<1>5. PICK f : IsIteration(V, start, round, n, f)
  <2> HIDE DEF round, start, n
  <2> QED BY <1>1, <1>2, <1>4, RunExists
<1>6. f \in [0..n -> V] /\ f[0] = start /\ \A t \in 1..n : f[t] = round[<<t, f[t - 1]>>]
  BY <1>5 DEF IsIteration
<1> HIDE DEF n
<1>7. ASSUME NEW t \in 0..n
      PROVE  f[t] = IF t = 0 THEN start ELSE WithRoot(p, t, f[t - 1])
  <2>1. CASE t = 0
    BY <1>6, <2>1
  <2>2. CASE t # 0
    <3>1. t \in 1..n /\ t - 1 \in 0..n
      BY <1>1, <2>2
    <3>2. f[t - 1] \in V
      BY <1>6, <3>1
    <3>3. <<t, f[t - 1]>> \in (1..n) \X V /\ <<t, f[t - 1]>>[1] = t /\ <<t, f[t - 1]>>[2] = f[t - 1]
      BY <3>1, <3>2
    <3>4. round[<<t, f[t - 1]>>] = WithRoot(p, t, f[t - 1])
      BY <3>3
    <3> QED BY <1>6, <2>2, <3>1, <3>4
  <2> QED BY <2>1, <2>2
<1>8. f = [t \in 0..n |-> f[t]]
  BY <1>6
<1>9. f = [t \in 0..n |-> IF t = 0 THEN start ELSE WithRoot(p, t, f[t - 1])]
  <2> HIDE DEF start
  <2> QED BY <1>7, <1>8, Zenon
<1>10. IsFilters(p, n, f)
  BY <1>9, Zenon DEF IsFilters
<1> QED BY <1>10 DEF n

\* A root is in the filter with all its forms, or with the pairs they begin.
HasRoot(p, t, f) ==
  \/ LoneBytes(t) \subseteq f.ones /\ RawPairs(t) \subseteq f.pairs
  \/ \E next \in UsedTokens(p) :
       /\ OnlyFollows(p, t, next)
       /\ FirstBytes(t) \cup FollowedBy(t, next) \subseteq f.pairs

HasRoots(p, t, f) == \A r \in RootTokens(p) \cap 1..t : HasRoot(p, r, f)

LEMMA RootAdded ==
  ASSUME NEW p, NEW t \in Nat \ {0}, NEW filters, \A f \in filters : HasRoots(p, t - 1, f),
         NEW g \in WithRoot(p, t, filters)
  PROVE  HasRoots(p, t, g)
<1>0. \A r \in 1..t : r = t \/ r \in 1..(t - 1)
  OBVIOUS
<1>1. CASE t \notin RootTokens(p)
  <2>1. HasRoots(p, t - 1, g)
    BY <1>1 DEF WithRoot
  <2> QED BY <1>0, <1>1, <2>1 DEF HasRoots
<1>2. CASE t \in RootTokens(p)
  <2>1. PICK f \in filters : g \in Paired(p, f, t) \/ g = Plain(f, t)
    BY <1>2 DEF WithRoot
  <2>2. f.ones \subseteq g.ones /\ f.pairs \subseteq g.pairs /\ HasRoot(p, t, g)
    <3>1. CASE g = Plain(f, t)
      BY <3>1 DEF Plain, HasRoot
    <3>2. CASE g \in Paired(p, f, t)
      <4>1. PICK next \in UsedTokens(p) :
              /\ MustFollow(p, t, next)
              /\ g = [f EXCEPT !.pairs = @ \cup FirstBytes(t) \cup FollowedBy(t, next)]
        BY <3>2 DEF Paired
      <4>2. OnlyFollows(p, t, next)
        BY <4>1 DEF MustFollow, OnlyFollows, IsTerminal
      <4>3. g.ones = f.ones /\ g.pairs = f.pairs \cup FirstBytes(t) \cup FollowedBy(t, next)
        BY <4>1
      <4> QED BY <4>2, <4>3 DEF HasRoot
    <3> QED BY <2>1, <3>1, <3>2
  <2>3. ASSUME NEW r, HasRoot(p, r, f) PROVE HasRoot(p, r, g)
    BY <2>2, <2>3 DEF HasRoot
  <2> QED BY <1>0, <2>1, <2>2, <2>3 DEF HasRoots
<1> QED BY <1>1, <1>2

LEMMA FilterHasRoots ==
  ASSUME NEW p, RootFilter(p) # NoFilter
  PROVE  HasRoots(p, TokenCount, RootFilter(p))
<1> DEFINE f == CHOOSE g : IsFilters(p, TokenCount, g)
<1>1. IsFilters(p, TokenCount, f)
  BY FiltersExist
<1>2. f[TokenCount] # {} /\ RootFilter(p) = CHOOSE g \in f[TokenCount] : TRUE
  BY DEF RootFilter, IsFilters, WithRoot, Paired, Plain, Fits, LoneBytes, RawPairs, TokenCount
<1> HIDE DEF f
<1>3. \A t \in 0..TokenCount : f[t] = IF t = 0 THEN {NoFilter} ELSE WithRoot(p, t, f[t - 1])
  BY <1>1 DEF IsFilters
<1>n. TokenCount \in Nat
  BY TokensAreForms
<1> DEFINE Held == {t \in 0..TokenCount : \A g \in f[t] : HasRoots(p, t, g)}
<1>4. 0 \in Held
  BY <1>n DEF HasRoots
<1>5. ASSUME NEW t \in 1..TokenCount, t - 1 \in Held PROVE t \in Held
  <2>1. t \in 0..TokenCount /\ t # 0 /\ t \in Nat \ {0}
    BY <1>n
  <2>2. f[t] = WithRoot(p, t, f[t - 1])
    BY <1>3, <2>1
  <2>3. \A g \in f[t - 1] : HasRoots(p, t - 1, g)
    BY <1>5
  <2>4. \A g \in WithRoot(p, t, f[t - 1]) : HasRoots(p, t, g)
    BY <2>1, <2>3, RootAdded
  <2> QED BY <2>1, <2>2, <2>4
<1>6. TokenCount \in Held
  <2> HIDE DEF Held
  <2> QED BY <1>n, <1>4, <1>5, RoundByRound
<1> QED BY <1>2, <1>6
-----------------------------------------------------------------------------
(***************************************************************************)
(* Where a pattern occurs, a filter of all roots has its first bytes.      *)
(***************************************************************************)
HasPair(pairs, h, pos) ==
  pos + 1 < Bytes(h) /\ \E v \in pairs : \A i \in 1..2 : Admits(v[i], h.bytes[pos + i - 1])

HasLone(ones, h, pos) == h.bytes[pos] \in ones

\* The root of an occurrence is among the forms.
LEMMA RootSpelled ==
  ASSUME NEW p \in PatternSets, NEW h, IsSpelled(h), NEW id \in Ids(p), NEW u \in 0..h.n,
         Occurs(p, h, id, u), p[id] # <<>>
  PROVE  /\ IsPatternSet(p) /\ IsHaystack(h) /\ u \in 0..(h.n - 1)
         /\ h.tok[u] \in RootTokens(p) /\ h.tok[u] \in DOMAIN Forms
<1>1. IsPatternSet(p) /\ IsHaystack(h) /\ UsedTokens(p) \subseteq DOMAIN Forms
  BY FilteredAssumption DEF FilteredAssumption, IsSpelled
<1>2. u < h.n /\ h.tok[u] \in RootTokens(p) /\ h.tok[u] = p[id][1]
  BY <1>1, OccurrenceStarts
<1>3. p[id] \in Seq(Token) /\ 1 \in DOMAIN p[id]
  <2>1. p[id] \in Seq(Token)
    BY <1>1 DEF IsPatternSet, Ids
  <2> QED BY <2>1, EmptySeq
<1>4. p[id][1] \in UsedTokens(p)
  BY <1>3 DEF UsedTokens
<1>5. h.n \in Nat
  BY <1>1 DEF IsHaystack
<1> QED BY <1>1, <1>2, <1>4, <1>5

\* A unit ends where the next begins, and the last one with the haystack.
LEMMA UnitEnds ==
  ASSUME NEW h, IsHaystack(h), NEW u \in 0..(h.n - 1)
  PROVE  /\ h.off[u] \in Nat /\ h.off[u + 1] \in Nat
         /\ h.off[u] < h.off[u + 1] /\ h.off[u + 1] <= Bytes(h) /\ Bytes(h) \in Nat
<1>1. h.n \in Nat /\ u \in 0..h.n /\ u + 1 \in 0..h.n /\ u < u + 1 /\ h.n \in 0..h.n
  BY DEF IsHaystack
<1>2. h.off[u] \in Nat /\ h.off[u + 1] \in Nat /\ h.off[u] < h.off[u + 1] /\ Bytes(h) \in Nat
  BY <1>1 DEF IsHaystack, Bytes
<1>3. h.off[u + 1] \in 0..Bytes(h)
  BY <1>1, OffTyped
<1> QED BY <1>2, <1>3

LEMMA FilterFound ==
  ASSUME NEW p \in PatternSets, NEW h, IsSpelled(h), NEW id \in Ids(p), NEW u \in 0..h.n,
         Occurs(p, h, id, u), p[id] # <<>>, NEW filter, HasRoots(p, TokenCount, filter)
  PROVE  HasLone(filter.ones, h, h.off[u]) \/ HasPair(filter.pairs, h, h.off[u])
<1>0. /\ IsPatternSet(p) /\ IsHaystack(h) /\ u \in 0..(h.n - 1)
      /\ h.tok[u] \in RootTokens(p) /\ h.tok[u] \in DOMAIN Forms
  BY RootSpelled
<1>1. PICK t : t = h.tok[u]
  OBVIOUS
<1>2. t \in RootTokens(p) /\ t \in 1..TokenCount /\ t \in DOMAIN Forms
  BY <1>0, <1>1, TokensAreForms
<1>3. HasRoot(p, t, filter)
  BY <1>2 DEF HasRoots
<1>4. PICK g : g = Spelling(h, u)
  OBVIOUS
<1>5. /\ g \in Forms[t] /\ Len(g) = h.off[u + 1] - h.off[u]
      /\ \A i \in 1..Len(g) : g[i] = h.bytes[h.off[u] + i - 1]
  BY <1>0, <1>1, <1>2, <1>4, UnitSpelled
<1>6. /\ h.off[u] \in Nat /\ h.off[u + 1] \in Nat
      /\ h.off[u] < h.off[u + 1] /\ h.off[u + 1] <= Bytes(h) /\ Bytes(h) \in Nat
  BY <1>0, UnitEnds
<1>7. Len(g) \in Nat \ {0} /\ \A i \in 1..Len(g) : g[i] \in 0..255
  BY <1>2, <1>5, FormsTyped
<1>8. PICK pos \in Nat : pos = h.off[u]
  BY <1>6
<1>9. g[1] = h.bytes[pos]
  BY <1>5, <1>7, <1>8
<1>10. CASE LoneBytes(t) \subseteq filter.ones /\ RawPairs(t) \subseteq filter.pairs
  <2>1. CASE Len(g) = 1
    <3>1. g[1] \in LoneBytes(t)
      BY <1>5, <2>1 DEF LoneBytes
    <3> QED BY <1>8, <1>9, <1>10, <3>1 DEF HasLone
  <2>2. CASE Len(g) # 1
    <3>1. Len(g) > 1 /\ 1 \in 1..Len(g) /\ 2 \in 1..Len(g) /\ pos + 1 < Bytes(h)
      BY <1>5, <1>6, <1>7, <1>8, <2>2
    <3> DEFINE v == <<Entry(g[1], FALSE), Entry(g[2], FALSE)>>
    <3>2. v \in filter.pairs
      BY <1>5, <1>10, <3>1 DEF RawPairs
    <3>3. Admits(v[1], g[1]) /\ Admits(v[2], g[2])
      BY <1>7, <3>1, OwnEntry
    <3> HIDE DEF v
    <3>4. ASSUME NEW i \in 1..2 PROVE Admits(v[i], h.bytes[pos + i - 1])
      <4>1. i = 1 \/ i = 2
        OBVIOUS
      <4>2. g[i] = h.bytes[pos + i - 1]
        BY <1>5, <1>8, <3>1, <4>1
      <4> QED BY <3>3, <4>1, <4>2
    <3> QED BY <1>8, <3>1, <3>2, <3>4 DEF HasPair
  <2> QED BY <2>1, <2>2
<1>11. CASE \E next \in UsedTokens(p) :
              /\ OnlyFollows(p, t, next)
              /\ FirstBytes(t) \cup FollowedBy(t, next) \subseteq filter.pairs
  <2>1. PICK next \in UsedTokens(p) :
              /\ OnlyFollows(p, t, next)
              /\ FirstBytes(t) \cup FollowedBy(t, next) \subseteq filter.pairs
    BY <1>11
  <2>2. PICK e : e = CompactForm(g)
    OBVIOUS
  <2>3. e \in CompactForms(t) /\ Len(e) = Len(g) /\ \A i \in 1..Len(g) : Admits(e[i], g[i])
    BY <1>2, <1>5, <2>2, CompactAdmits
  <2>4. CASE Len(g) # 1
    <3>1. Len(g) > 1 /\ 1 \in 1..Len(g) /\ 2 \in 1..Len(g) /\ pos + 1 < Bytes(h)
      BY <1>5, <1>6, <1>7, <1>8, <2>4
    <3>2. <<e[1], e[2]>> \in filter.pairs
      BY <2>1, <2>3, <3>1 DEF FirstBytes
    <3>3. ASSUME NEW i \in 1..2 PROVE Admits(<<e[1], e[2]>>[i], h.bytes[pos + i - 1])
      <4>1. (i = 1 \/ i = 2) /\ i \in 1..Len(g)
        BY <3>1
      <4>2. g[i] = h.bytes[pos + i - 1] /\ Admits(e[i], g[i])
        BY <1>5, <1>8, <2>3, <4>1
      <4> QED BY <4>1, <4>2
    <3> QED BY <1>8, <3>1, <3>2, <3>3 DEF HasPair
  <2>5. CASE Len(g) = 1
    <3>1. u + 1 < h.n /\ h.tok[u + 1] = next
      BY <1>0, <1>1, <2>1, OccurrenceStartsWithPair
    <3>2. next \in DOMAIN Forms
      BY <2>1, FilteredAssumption DEF FilteredAssumption
    <3>3. PICK w \in 0..(h.n - 1) : w = u + 1
      <4>1. h.n \in Nat
        BY <1>0 DEF IsHaystack
      <4>2. u + 1 \in 0..(h.n - 1)
        BY <1>0, <3>1, <4>1
      <4> QED BY <4>2
    <3>4. PICK q : q = Spelling(h, w)
      OBVIOUS
    <3>5. q \in Forms[next] /\ \A i \in 1..Len(q) : q[i] = h.bytes[h.off[w] + i - 1]
      BY <3>1, <3>2, <3>3, <3>4, UnitSpelled
    <3>6. Len(q) \in Nat \ {0}
      BY <3>2, <3>5, FormsTyped
    <3>7. PICK d : d = CompactForm(q)
      OBVIOUS
    <3>8. d \in CompactForms(next) /\ \A i \in 1..Len(q) : Admits(d[i], q[i])
      BY <3>2, <3>5, <3>7, CompactAdmits
    <3>9. <<e[1], d[1]>> \in filter.pairs
      BY <2>1, <2>3, <2>5, <3>8 DEF FollowedBy
    <3>10. h.off[w] = pos + 1 /\ pos + 1 < Bytes(h)
      <4>1. h.off[w] < h.off[w + 1] /\ h.off[w + 1] <= Bytes(h)
            /\ h.off[w + 1] \in Nat /\ Bytes(h) \in Nat /\ h.off[w] \in Nat
        BY <1>0, UnitEnds
      <4>2. h.off[w] - h.off[u] = 1
        BY <1>5, <2>5, <3>3
      <4>3. h.off[w] = pos + 1
        BY <1>8, <4>1, <4>2
      <4> QED BY <4>1, <4>3
    <3>11. Admits(e[1], h.bytes[pos]) /\ Admits(d[1], h.bytes[pos + 1])
      <4>1. 1 \in 1..Len(g) /\ 1 \in 1..Len(q) /\ (pos + 1) + 1 - 1 = pos + 1
        BY <1>7, <3>6
      <4>2. q[1] = h.bytes[pos + 1]
        BY <3>5, <3>10, <4>1
      <4> QED BY <1>9, <2>3, <3>8, <4>1, <4>2
    <3>12. ASSUME NEW i \in 1..2 PROVE Admits(<<e[1], d[1]>>[i], h.bytes[pos + i - 1])
      <4>1. CASE i = 1
        BY <3>11, <4>1
      <4>2. CASE i = 2
        <5>1. pos + 2 - 1 = pos + 1
          OBVIOUS
        <5> QED BY <3>11, <4>2, <5>1
      <4> QED BY <4>1, <4>2
    <3> QED BY <1>8, <3>9, <3>10, <3>12 DEF HasPair
  <2> QED BY <2>4, <2>5
<1> QED BY <1>3, <1>10, <1>11 DEF HasRoot

\* Two raw pairs are found by their second bytes.
LEMMA PairFound ==
  ASSUME NEW h, NEW pos, NEW filter, PairSecond(filter),
         HasLone(filter.ones, h, pos) \/ HasPair(filter.pairs, h, pos)
  PROVE  PairSecondStop(h, filter, pos)
<1>1. HasPair(filter.pairs, h, pos)
  BY DEF HasLone, PairSecond
<1>2. PICK v \in filter.pairs : \A i \in 1..2 : Admits(v[i], h.bytes[pos + i - 1])
  BY <1>1 DEF HasPair
<1>3. ~v[2].fold /\ Admits(v[2], h.bytes[pos + 2 - 1])
  BY <1>2 DEF PairSecond
<1>4. pos + 1 < Bytes(h)
  BY <1>1 DEF HasPair
<1> QED BY <1>1, <1>2, <1>3, <1>4 DEF PairSecondStop, Admits
-----------------------------------------------------------------------------
(***************************************************************************)
(* Among ASCII bytes every byte is a unit, so the buckets' prefixes can be *)
(* compared unit by unit.                                                  *)
(***************************************************************************)
AsciiBytes(h, pos, n) == \A i \in 0..(n - 1) : h.bytes[pos + i] \in Ascii

LEMMA AsciiUnit ==
  ASSUME NEW h, IsSpelled(h), NEW u \in 0..(h.n - 1), h.bytes[h.off[u]] \in Ascii
  PROVE  h.off[u + 1] = h.off[u] + 1
<1>1. IsHaystack(h)
  BY DEF IsSpelled
<1>2. h.off[u] \in Nat /\ h.off[u + 1] \in Nat /\ h.off[u] < h.off[u + 1]
  BY <1>1, UnitEnds
<1>3. Spelling(h, u)[1] = h.bytes[h.off[u]]
  <2>1. 1 \in 1..(h.off[u + 1] - h.off[u]) /\ h.off[u] + 1 - 1 = h.off[u]
    BY <1>2
  <2> QED BY <2>1 DEF Spelling
<1>4. h.ascii[u]
  BY <1>3 DEF IsSpelled
<1> QED BY <1>1, <1>4 DEF IsHaystack

LEMMA AsciiUnits ==
  ASSUME NEW h, IsSpelled(h), NEW u \in 0..h.n, NEW n \in Nat,
         h.off[u] + n <= Bytes(h), AsciiBytes(h, h.off[u], n),
         NEW k \in 0..n
  PROVE  u + k \in 0..h.n /\ h.off[u + k] = h.off[u] + k
<1> DEFINE Held == {i \in 0..k : u + i \in 0..h.n /\ h.off[u + i] = h.off[u] + i}
<1>0. /\ IsHaystack(h) /\ h.n \in Nat /\ h.off[u] \in Nat /\ k \in Nat
      /\ Bytes(h) \in Nat
  <2>1. IsHaystack(h)
    BY DEF IsSpelled
  <2>2. h.n \in Nat /\ h.n \in 0..h.n /\ h.off \in [0..h.n -> Nat]
    BY <2>1 DEF IsHaystack
  <2> QED BY <2>1, <2>2 DEF Bytes
<1>1. 0 \in Held
  BY <1>0
<1>2. ASSUME NEW i \in 1..k, i - 1 \in Held PROVE i \in Held
  <2>1. PICK v \in 0..h.n : v = u + (i - 1)
    BY <1>2
  <2>2. h.off[v] = h.off[u] + (i - 1)
    BY <1>2, <2>1
  <2> HIDE DEF Held
  <2>3. i - 1 \in 0..(n - 1) /\ h.off[v] < Bytes(h) /\ h.off[v] \in Nat
    BY <1>0, <2>2
  <2>4. v \in 0..(h.n - 1)
    <3>1. v # h.n
      BY <2>3 DEF Bytes
    <3> QED BY <1>0, <3>1
  <2>5. h.bytes[h.off[v]] \in Ascii
    BY <2>2, <2>3 DEF AsciiBytes
  <2>6. h.off[v + 1] = h.off[v] + 1
    BY <2>4, <2>5, AsciiUnit
  <2>7. v + 1 = u + i /\ u + i \in 0..h.n
    BY <1>0, <2>1, <2>4
  <2>8. h.off[u + i] = h.off[u] + i
    BY <1>0, <2>2, <2>6, <2>7
  <2> QED BY <2>7, <2>8 DEF Held
<1>3. k \in Held
  <2> HIDE DEF Held
  <2> QED BY <1>0, <1>1, <1>2, RoundByRound
<1> QED BY <1>3

\* A byte of an occurrence is a form of the token it stands for.
LEMMA ByteIsForm ==
  ASSUME NEW p \in PatternSets, NEW h, IsSpelled(h), NEW id \in Ids(p), NEW u \in 0..h.n,
         Occurs(p, h, id, u), NEW i \in 1..Len(p[id]), NEW v \in 0..(h.n - 1), v = u + i - 1,
         h.bytes[h.off[v]] \in Ascii
  PROVE  <<h.bytes[h.off[v]]>> \in Forms[p[id][i]] /\ HasAsciiForm(p[id][i])
<1>1. IsPatternSet(p) /\ UsedTokens(p) \subseteq DOMAIN Forms /\ IsHaystack(h)
  BY FilteredAssumption DEF FilteredAssumption, IsSpelled
<1>2. p[id] \in Seq(Token) /\ i \in DOMAIN p[id]
  BY <1>1 DEF IsPatternSet, Ids
<1>3. PICK t \in DOMAIN Forms : t = p[id][i]
  BY <1>1, <1>2 DEF UsedTokens
<1>4. h.tok[v] = t
  BY <1>3 DEF Occurs
<1>5. PICK s : s = Spelling(h, v)
  OBVIOUS
<1>6. /\ s \in Forms[t] /\ Len(s) = h.off[v + 1] - h.off[v]
      /\ \A j \in 1..Len(s) : s[j] = h.bytes[h.off[v] + j - 1]
      /\ h.off[v] \in Nat
  BY <1>3, <1>4, <1>5, UnitSpelled
<1>7. Len(s) = 1
  <2>1. h.off[v + 1] = h.off[v] + 1
    BY AsciiUnit
  <2> QED BY <1>6, <2>1
<1>8. s[1] = h.bytes[h.off[v]]
  BY <1>6, <1>7
<1>9. s \in Seq(0..255)
  BY <1>6, FormsTyped
<1>10. s = <<h.bytes[h.off[v]]>>
  BY <1>7, <1>8, <1>9, SingletonSeq
<1>11. HasAsciiForm(t)
  BY <1>6, <1>7, <1>8 DEF HasAsciiForm
<1> QED BY <1>3, <1>6, <1>10, <1>11

\* What stands at a byte is in a bucket.
HasPrefix(prefixes, h, pos) ==
  \E s \in prefixes : \A i \in DOMAIN s : <<h.bytes[pos + i - 1]>> \in Forms[s[i]]

LEMMA PrefixFound ==
  ASSUME NEW p \in PatternSets, NEW h, IsSpelled(h), NEW id \in Ids(p), NEW u \in 0..h.n,
         Occurs(p, h, id, u), p[id] # <<>>, Expands(p, h.tok[u]),
         h.off[u] + 4 <= Bytes(h), AsciiBytes(h, h.off[u], 4)
  PROVE  HasPrefix(BucketPrefixes(p), h, h.off[u])
<1>0. /\ IsPatternSet(p) /\ IsHaystack(h) /\ p[id] \in Seq(Token)
      /\ Len(p[id]) \in Nat \ {0} /\ u + Len(p[id]) <= h.n /\ h.n \in Nat
      /\ h.off[u] \in Nat
  <2>1. IsPatternSet(p) /\ IsHaystack(h)
    BY FilteredAssumption DEF FilteredAssumption, IsSpelled
  <2>2. p[id] \in Seq(Token)
    BY <2>1 DEF IsPatternSet, Ids
  <2>3. Len(p[id]) \in Nat \ {0}
    BY <2>2, EmptySeq
  <2> QED BY <2>1, <2>2, <2>3 DEF Occurs, IsHaystack
<1>1. \A k \in 0..4 : u + k \in 0..h.n /\ h.off[u + k] = h.off[u] + k
  BY AsciiUnits
<1>2. ASSUME NEW i \in 1..Len(p[id]), i <= 4
      PROVE  <<h.bytes[h.off[u] + i - 1]>> \in Forms[p[id][i]] /\ HasAsciiForm(p[id][i])
  <2>1. i - 1 \in 0..3 /\ u + i - 1 \in 0..(h.n - 1)
    BY <1>0, <1>2
  <2>2. PICK v \in 0..(h.n - 1) : v = u + i - 1 /\ v = u + (i - 1)
    BY <2>1
  <2>3. h.off[v] = h.off[u] + (i - 1) /\ h.off[u] + (i - 1) = h.off[u] + i - 1
    <3>1. i - 1 \in 0..4
      BY <2>1
    <3>2. h.off[u + (i - 1)] = h.off[u] + (i - 1)
      BY <1>1, <3>1
    <3> QED BY <1>0, <2>1, <2>2, <3>2
  <2>4. h.bytes[h.off[v]] \in Ascii
    BY <2>1, <2>3 DEF AsciiBytes
  <2> QED BY <2>2, <2>3, <2>4, ByteIsForm
<1>3. ASSUME NEW k \in 1..Len(p[id])
      PROVE  /\ SubSeq(p[id], 1, k) \in Nodes(p) /\ Len(SubSeq(p[id], 1, k)) = k
             /\ DOMAIN SubSeq(p[id], 1, k) = 1..k
             /\ \A i \in 1..k : SubSeq(p[id], 1, k)[i] = p[id][i]
  <2>1. /\ SubSeq(p[id], 1, k) \in Nodes(p) /\ SubSeq(p[id], 1, k) \in Seq(Token)
        /\ Len(SubSeq(p[id], 1, k)) = k
        /\ \A i \in 1..k : SubSeq(p[id], 1, k)[i] = p[id][i]
    BY <1>0, PrefixIsNode
  <2>2. DOMAIN SubSeq(p[id], 1, k) = 1..Len(SubSeq(p[id], 1, k))
    BY <2>1, LenProperties
  <2> QED BY <2>1, <2>2
<1>4. ASSUME NEW k \in 1..Len(p[id]), k <= 4,
             k = 4 \/ (k = 3 /\ IsTerminal(p, SubSeq(p[id], 1, k)))
      PROVE  HasPrefix(BucketPrefixes(p), h, h.off[u])
  <2>1. PICK s : s = SubSeq(p[id], 1, k)
    OBVIOUS
  <2>2. /\ s \in Nodes(p) /\ Len(s) = k /\ DOMAIN s = 1..k
        /\ \A i \in 1..k : s[i] = p[id][i]
    BY <1>3, <2>1
  <2>3. \A i \in 1..k : <<h.bytes[h.off[u] + i - 1]>> \in Forms[s[i]] /\ HasAsciiForm(s[i])
    <3>1. \A i \in 1..k : i \in 1..Len(p[id]) /\ i <= 4
      BY <1>0, <1>4
    <3> QED BY <1>2, <2>2, <3>1
  <2>4. s \in BucketPrefixes(p)
    BY <1>4, <2>1, <2>2, <2>3 DEF BucketPrefixes
  <2> QED BY <2>2, <2>3, <2>4 DEF HasPrefix
<1>5. PICK n \in Nat \ {0} : n = Len(p[id])
  BY <1>0
<1>6. CASE n >= 4
  <2>1. PICK k \in 1..Len(p[id]) : k = 4 /\ k <= 4
    <3>1. 4 \in 1..n /\ 4 <= 4
      BY <1>5, <1>6
    <3> QED BY <1>5, <3>1
  <2>2. k = 4 \/ (k = 3 /\ IsTerminal(p, SubSeq(p[id], 1, k)))
    BY <2>1
  <2>3. k <= 4
    BY <2>1
  <2> QED BY <1>4, <2>1, <2>2, <2>3
<1>7. CASE ~(n >= 4)
  <2>1. n \in 1..3 /\ n \in 1..Len(p[id]) /\ n <= 4 /\ n \in 0..4
    <3>1. n \in Nat \ {0}
      BY <1>5
    <3>2. n \in 1..3 /\ n \in 1..n /\ n <= 4 /\ n \in 0..4
      BY <1>7, <3>1
    <3> QED BY <1>5, <3>2
  <2>2. SubSeq(p[id], 1, n) = p[id]
    BY <1>0, <1>5, WholePrefix
  <2>3. IsTerminal(p, SubSeq(p[id], 1, n))
    BY <2>2 DEF IsTerminal
  <2>4. n = 3
    <3> SUFFICES ASSUME n < 3 PROVE FALSE
      BY <2>1
    <3>1. Needed(h, u, n)
      <4>1. ASSUME NEW i \in 0..(n - 1) PROVE h.off[u + i] - h.off[u] < 3
        <5>1. i \in 0..4 /\ i < 3
          BY <2>1
        <5>2. h.off[u + i] = h.off[u] + i
          BY <1>1, <5>1
        <5> QED BY <1>0, <5>1, <5>2
      <4> QED BY <4>1 DEF Needed
    <3>2. SpeltBy(Spellings(SubSeq(p[id], 1, n)), h, h.off[u], h.off[u + n])
      BY <2>1, <3>1, OccurrenceReads
    <3>3. PICK w \in Spellings(p[id]) : Len(w) = h.off[u + n] - h.off[u]
      BY <2>2, <3>2 DEF SpeltBy
    <3>4. Len(w) < 3
      <4>1. h.off[u + n] = h.off[u] + n
        BY <1>1, <2>1
      <4> QED BY <1>0, <1>5, <3>3, <4>1
    <3>5. p[id] \in Below(p, h.tok[u])
      <4>1. p[id][1] = h.tok[u]
        BY <1>0, OccurrenceStarts
      <4>2. p[id] \in Nodes(p)
        BY <1>3, <2>1, <2>2
      <4> QED BY <1>5, <2>1, <4>1, <4>2 DEF Below
    <3> QED BY <2>2, <2>3, <3>3, <3>4, <3>5 DEF Expands
  <2>5. 3 \in 1..Len(p[id]) /\ 3 <= 4 /\ IsTerminal(p, SubSeq(p[id], 1, 3))
    BY <2>1, <2>3, <2>4
  <2> HIDE DEF HasPrefix, IsTerminal
  <2> QED BY <1>4, <2>5
<1> QED BY <1>6, <1>7
-----------------------------------------------------------------------------
(***************************************************************************)
(* The inductive invariant.  Text is the region that is searched, and what *)
(* has been found is counted from its start.  While a screen skips, at may *)
(* stand inside a unit: r is the first unit that does not start before it. *)
(***************************************************************************)
Lo == UnitAt(hay, from)
Hi == UnitAt(hay, to)
Text == Part(hay, Lo, Hi)
Shifted == IF best = NoMatch THEN NoMatch ELSE [best EXCEPT !.start = @ - from]

Typed ==
  /\ pats \in PatternSets /\ hay \in Haystacks
  /\ screen = ScreenOf(pats) /\ ~OpaqueContinuation(pats)
  /\ maxUnits \in Nat /\ IsMaxUnits(pats, maxUnits)
  /\ Lo \in 0..hay.n /\ Hi \in Lo..hay.n
  /\ from = hay.off[Lo] /\ to = hay.off[Hi]
  /\ starts \in [0..(RingLen - 1) -> Nat] /\ history \in Nat

\* What the chosen screen promises.
Covered ==
  /\ phase = "dispatch" => /\ from = 0 /\ to = Bytes(hay)
                           /\ at = from /\ state = <<>> /\ best = NoMatch
  /\ phase \in {"triples", "buckets"} => screen.triplesComplete
  /\ phase = "buckets" => screen.buckets # {}
  /\ phase \in {"asciiTriples", "region"} => screen.asciiTriples
  /\ phase \in {"filter", "pairSecond"} => screen.filter # NoFilter
  /\ phase = "pairSecond" => PairSecond(screen.filter)

Phases == {"dispatch", "triples", "buckets", "asciiTriples", "region",
           "filter", "pairSecond", "done"}

OnlyAscii ==
  phase \in {"asciiTriples", "region"} =>
    \A i \in from..(to - 1) : hay.bytes[i] \in Ascii

-----------------------------------------------------------------------------
(***************************************************************************)
(* Every screen stops at the first byte of every occurrence.               *)
(***************************************************************************)
LEMMA OffOrder ==
  ASSUME NEW h, IsHaystack(h), NEW u \in 0..h.n, NEW v \in 0..h.n
  PROVE  /\ h.off[u] \in Nat /\ h.off[v] \in Nat /\ h.n \in Nat
         /\ u < v <=> h.off[u] < h.off[v]
         /\ u <= v <=> h.off[u] <= h.off[v]
<1>1. h.n \in Nat /\ h.off[u] \in Nat /\ h.off[v] \in Nat
  BY DEF IsHaystack
<1>2. u < v => h.off[u] < h.off[v]
  BY DEF IsHaystack
<1>3. v < u => h.off[v] < h.off[u]
  BY DEF IsHaystack
<1>4. u = v => h.off[v] = h.off[u]
  OBVIOUS
<1> QED BY <1>1, <1>2, <1>3, <1>4

LEMMA RootHasTriples ==
  ASSUME NEW p \in PatternSets, NEW h, IsSpelled(h), NEW id \in Ids(p), NEW u \in 0..h.n,
         Occurs(p, h, id, u), p[id] # <<>>, h.tok[u] \in TripleFilter(p).roots
  PROVE  HasTriple(TripleFilter(p).values, h, h.off[u]) /\ Expands(p, h.tok[u])
<1>1. /\ Expands(p, h.tok[u])
      /\ ExpandedTriples(p, h.tok[u]) \subseteq TripleFilter(p).values
  BY TriplesHold DEF HasTriplesOf
<1> QED BY <1>1, TripleFound

(***************************************************************************)
(* A search that skips bytes from the root stops at the first byte of      *)
(* every pattern that occurs in its region, whichever screen it skips by:  *)
(* triples, prefixes, pairs or lone bytes, in a region or up to the end.   *)
(***************************************************************************)
THEOREM StopsAtMatch ==
  ASSUME Typed, Covered, OnlyAscii, Looping, phase \in Phases,
         NEW id \in Ids(pats), pats[id] # <<>>, NEW u \in Lo..Hi,
         Occurs(pats, hay, id, u), u + Len(pats[id]) <= Hi
  PROVE  MustStop(hay.off[u])
<1>0. /\ pats \in PatternSets /\ IsSpelled(hay) /\ IsHaystack(hay) /\ u \in 0..hay.n
      /\ Lo \in 0..hay.n /\ Hi \in 0..hay.n
      /\ from = hay.off[Lo] /\ to = hay.off[Hi] /\ screen = ScreenOf(pats)
  <2>1. IsSpelled(hay)
    BY FilteredAssumption DEF FilteredAssumption, Typed
  <2>2. IsHaystack(hay) /\ hay.n \in Nat
    BY <2>1 DEF IsSpelled, IsHaystack
  <2> QED BY <2>1, <2>2 DEF Typed
<1>1. /\ u \in 0..(hay.n - 1) /\ hay.tok[u] \in RootTokens(pats)
      /\ hay.tok[u] = pats[id][1] /\ 1 \in 1..Len(pats[id])
  <2>1. u \in 0..(hay.n - 1) /\ hay.tok[u] \in RootTokens(pats)
    BY <1>0, RootSpelled
  <2>2. IsPatternSet(pats)
    BY <1>0, RootSpelled
  <2>3. hay.tok[u] = pats[id][1]
    BY <1>0, <2>2, OccurrenceStarts
  <2>4. pats[id] \in Seq(Token)
    BY <2>2 DEF IsPatternSet, Ids
  <2>5. 1 \in 1..Len(pats[id])
    BY <2>4, EmptySeq
  <2> QED BY <2>1, <2>3, <2>5
<1>2. HasTriple(screen.triples, hay, hay.off[u]) => TripleStop(hay, screen.triples, hay.off[u], Bytes(hay))
  BY DEF HasTriple, TripleStop
<1>3. screen.triplesComplete =>
        /\ HasTriple(screen.triples, hay, hay.off[u]) /\ Expands(pats, hay.tok[u])
  <2> SUFFICES ASSUME screen.triplesComplete
               PROVE HasTriple(screen.triples, hay, hay.off[u]) /\ Expands(pats, hay.tok[u])
    OBVIOUS
  <2>1. TriplesComplete(pats) /\ screen.triples = TripleFilter(pats).values
    BY <1>0 DEF ScreenOf
  <2>2. hay.tok[u] \in TripleFilter(pats).roots
    BY <1>1, <2>1 DEF TriplesComplete
  <2> QED BY <1>0, <2>1, <2>2, RootHasTriples
<1>4. CASE phase = "triples"
  BY <1>2, <1>3, <1>4 DEF Covered, MustStop
<1>5. CASE phase \in {"asciiTriples", "region"}
  <2>1. hay.bytes[hay.off[u]] \in Ascii
    <3>1. Len(pats[id]) \in Nat \ {0} /\ Lo <= u /\ u < Hi
      <4>1. IsPatternSet(pats) /\ pats[id] \in Seq(Token)
        BY <1>0, RootSpelled DEF IsPatternSet, Ids
      <4>2. Len(pats[id]) \in Nat \ {0}
        BY <4>1, EmptySeq
      <4> QED BY <1>0, <4>2
    <3>2. hay.off[Lo] <= hay.off[u] /\ hay.off[u] < hay.off[Hi]
          /\ hay.off[u] \in Nat /\ hay.off[Hi] \in Nat
      BY <1>0, <3>1, OffOrder
    <3>3. hay.off[u] \in from..(to - 1)
      <4>1. hay.off[Lo] \in Nat
        BY <1>0, OffOrder
      <4> QED BY <1>0, <3>2, <4>1
    <3> QED BY <1>5, <3>3 DEF OnlyAscii
  <2>2. HasAsciiForm(hay.tok[u])
    <3>1. u = u + 1 - 1
      BY <1>1
    <3> QED BY <1>0, <1>1, <2>1, <3>1, ByteIsForm
  <2>3. screen.asciiTriples
    BY <1>5 DEF Covered
  <2>4. AsciiTriplesComplete(pats) /\ screen.triples = TripleFilter(pats).values
    BY <1>0, <2>3 DEF ScreenOf, HasAsciiTriples
  <2>5. hay.tok[u] \in TripleFilter(pats).roots
    BY <1>1, <2>2, <2>4 DEF AsciiTriplesComplete
  <2>6. HasTriple(screen.triples, hay, hay.off[u])
    BY <1>0, <2>4, <2>5, RootHasTriples
  <2> QED BY <1>5, <2>6 DEF HasTriple, TripleStop, MustStop
<1>6. CASE phase = "buckets"
  <2>1. screen.triplesComplete /\ screen.buckets = BucketPrefixes(pats)
    BY <1>0, <1>6 DEF Covered, ScreenOf
  <2>2. CASE hay.off[u] + 3 < Bytes(hay) /\ \A i \in 0..3 : hay.bytes[hay.off[u] + i] \in Ascii
    <3>1. hay.off[u] + 4 <= Bytes(hay) /\ AsciiBytes(hay, hay.off[u], 4)
      <4>1. hay.off[u] \in Nat /\ Bytes(hay) \in Nat
        BY <1>0, <1>1, UnitEnds
      <4>2. hay.off[u] + 4 <= Bytes(hay) /\ 4 - 1 = 3
        BY <2>2, <4>1
      <4> QED BY <2>2, <4>2 DEF AsciiBytes
    <3>2. HasPrefix(screen.buckets, hay, hay.off[u])
      BY <1>0, <1>3, <2>1, <3>1, PrefixFound
    <3> QED BY <1>6, <2>2, <3>2 DEF MustStop, BucketStop, HasPrefix
  <2>3. CASE ~(hay.off[u] + 3 < Bytes(hay) /\ \A i \in 0..3 : hay.bytes[hay.off[u] + i] \in Ascii)
    BY <1>2, <1>3, <1>6, <2>1, <2>3 DEF MustStop, BucketStop
  <2> QED BY <2>2, <2>3
<1>7. CASE phase \in {"filter", "pairSecond"}
  <2>1. screen.filter # NoFilter
    BY <1>7 DEF Covered
  <2>2. screen.filter = RootFilter(pats)
    BY <1>0, <2>1 DEF ScreenOf
  <2>3. HasRoots(pats, TokenCount, screen.filter)
    BY <2>1, <2>2, FilterHasRoots
  <2>4. HasLone(screen.filter.ones, hay, hay.off[u]) \/ HasPair(screen.filter.pairs, hay, hay.off[u])
    BY <1>0, <2>3, FilterFound
  <2>5. CASE phase = "filter"
    BY <2>4, <2>5 DEF MustStop, FilterStop, HasLone, HasPair
  <2>6. CASE phase = "pairSecond"
    <3>1. PairSecond(screen.filter)
      BY <2>6 DEF Covered
    <3> QED BY <2>4, <2>6, <3>1, PairFound DEF MustStop
  <2> QED BY <1>7, <2>5, <2>6
<1> QED BY <1>4, <1>5, <1>6, <1>7 DEF Looping, Phases
-----------------------------------------------------------------------------
(***************************************************************************)
(* What holds of the loop, whose scan has come to byte a with the path to  *)
(* node, r units of the text behind it, m the best match, from unit b.     *)
(***************************************************************************)
\* The byte of the haystack at which unit r of the text starts.
Off(r) == hay.off[Lo + r]

Behind(a, r) ==
  r \in 0..Text.n /\ a <= Off(r) /\ \A v \in 0..(r - 1) : Off(v) < a

\* Inside a unit no match is open: the screen has passed over its start.
Closed(a, r) ==
  a < Off(r) =>
    \A id \in Ids(pats), v \in 0..(r - 1) :
      pats[id] # <<>> /\ Occurs(pats, Text, id, v) => v + Len(pats[id]) < r

Scanned(a, node, r, b, m) ==
  /\ Behind(a, r) /\ Closed(a, r)
  /\ EndsText(Text, r, node) /\ Tracks(pats, Text, r, node)
  /\ IsBest(pats, Text, r, b, m)

\* The ring has the starts of the units on the path.
Traced(node, units, ring, r) ==
  /\ Len(node) <= units
  /\ \A k \in 1..Len(node) : ring[(units - k) % RingLen] = Off(r - k)

\* A match of the text, as a match of the haystack.
Placed(m) ==
  IF m = NoMatch THEN NoMatch ELSE [pattern |-> m.pattern, start |-> m.start + from]

InLoop ==
  /\ at \in from..to /\ state \in Nodes(pats)
  /\ \E r \in 0..Text.n, b \in {-1} \cup 0..Text.n, m \in Answers(pats, Text) :
       /\ Scanned(at, state, r, b, m) /\ best = Placed(m)
       /\ state # <<>> => at = Off(r) /\ Traced(state, history, starts, r)

Answered == \E m \in Answers(pats, Text) : IsAnswer(pats, Text, m) /\ best = Placed(m)

IInv == /\ Typed /\ phase \in Phases /\ Covered /\ OnlyAscii
        /\ Looping => InLoop
        /\ phase = "done" => Answered
-----------------------------------------------------------------------------
\* The region is a haystack of its own.
LEMMA Scenery ==
  ASSUME Typed
  PROVE  /\ pats \in PatternSets /\ IsPatternSet(pats) /\ IsSpelled(hay) /\ IsHaystack(hay)
         /\ hay.n \in Nat /\ Lo \in 0..hay.n /\ Hi \in 0..hay.n /\ Lo <= Hi
         /\ from \in Nat /\ to \in Nat /\ from = hay.off[Lo] /\ to = hay.off[Hi]
         /\ IsHaystack(Text) /\ Text.n = Hi - Lo /\ Text.n \in Nat
<1>1. pats \in PatternSets /\ IsPatternSet(pats) /\ IsSpelled(hay)
  BY FilteredAssumption DEF FilteredAssumption, Typed
<1>2. IsHaystack(hay)
  BY <1>1 DEF IsSpelled
<1>3. hay.n \in Nat
  BY <1>2 DEF IsHaystack
<1>4. Lo \in 0..hay.n /\ Hi \in 0..hay.n /\ Lo <= Hi /\ Lo \in 0..Hi
  BY <1>3 DEF Typed
<1>5. from = hay.off[Lo] /\ to = hay.off[Hi]
  BY DEF Typed
<1>6. from \in Nat /\ to \in Nat
  BY <1>2, <1>4, <1>5 DEF IsHaystack
<1>7. IsHaystack(Text)
  BY <1>2, <1>4, PartIsHaystack DEF Text
<1>8. Text.n = Hi - Lo
  BY DEF Text, Part
<1>9. Text.n \in Nat
  BY <1>7 DEF IsHaystack
<1> QED BY <1>1, <1>2, <1>3, <1>4, <1>5, <1>6, <1>7, <1>8, <1>9

LEMMA TextOff ==
  ASSUME Typed, NEW r \in 0..Text.n
  PROVE  /\ Lo + r \in Lo..Hi /\ Lo + r \in 0..hay.n
         /\ Off(r) \in Nat /\ from <= Off(r) /\ Off(r) <= to
         /\ Text.off[r] = Off(r) - from /\ Text.off[r] + from = Off(r)
<1>1. Lo \in Nat /\ Hi \in Nat /\ Lo + r \in Lo..Hi /\ Lo + r \in 0..hay.n /\ r \in 0..(Hi - Lo)
  BY Scenery
<1>2. /\ Off(r) \in Nat /\ hay.off[Lo] <= Off(r) /\ Off(r) <= hay.off[Hi]
  <2>1. Lo <= Lo + r /\ Lo + r <= Hi
    BY <1>1
  <2> QED BY <1>1, <2>1, Scenery, OffOrder DEF Off
<1>3. Text.off[r] = Off(r) - from
  BY <1>1, Scenery DEF Text, Part, Off
<1>4. from \in Nat /\ from = hay.off[Lo] /\ to = hay.off[Hi]
  BY Scenery
<1>5. Text.off[r] + from = Off(r)
  BY <1>2, <1>3, <1>4
<1> QED BY <1>1, <1>2, <1>3, <1>4, <1>5

LEMMA TextEnds ==
  ASSUME Typed
  PROVE  Off(0) = from /\ Off(Text.n) = to /\ 0 \in 0..Text.n /\ Text.n \in 0..Text.n
<1>1. Lo + 0 = Lo /\ Lo + Text.n = Hi
  BY Scenery
<1>2. 0 \in 0..Text.n /\ Text.n \in 0..Text.n
  BY Scenery
<1> QED BY <1>1, <1>2, Scenery DEF Off

LEMMA TextTok ==
  ASSUME Typed, NEW r \in 0..(Text.n - 1)
  PROVE  /\ Text.tok[r] = hay.tok[Lo + r] /\ Lo + r \in 0..(hay.n - 1)
         /\ r \in 0..Text.n /\ r + 1 \in 0..Text.n /\ Off(r) < Off(r + 1)
<1>1. Lo \in Nat /\ Hi \in Nat /\ Text.n = Hi - Lo /\ Text.n \in Nat /\ hay.n \in Nat /\ Hi <= hay.n
  BY Scenery
<1>2. Lo + r \in 0..(hay.n - 1) /\ r \in 0..(Hi - Lo - 1) /\ r \in 0..Text.n /\ r + 1 \in 0..Text.n
  BY <1>1
<1>3. Text.tok[r] = hay.tok[Lo + r]
  BY <1>2 DEF Text, Part
<1>4. Off(r) < Off(r + 1)
  <2>1. Lo + r \in 0..hay.n /\ Lo + (r + 1) \in 0..hay.n /\ Lo + r < Lo + (r + 1)
    BY <1>1, <1>2
  <2> QED BY <2>1, Scenery, OffOrder DEF Off
<1> QED BY <1>2, <1>3, <1>4

LEMMA OffGrows ==
  ASSUME Typed, NEW r \in 0..Text.n, NEW q \in 0..Text.n
  PROVE  /\ r < q <=> Off(r) < Off(q)
         /\ r <= q <=> Off(r) <= Off(q)
<1>1. Lo + r \in 0..hay.n /\ Lo + q \in 0..hay.n
  BY TextOff
<1>2. /\ Lo + r < Lo + q <=> Off(r) < Off(q)
      /\ Lo + r <= Lo + q <=> Off(r) <= Off(q)
  BY <1>1, Scenery, OffOrder DEF Off
<1>3. Lo \in Nat /\ r \in Nat /\ q \in Nat
  BY Scenery
<1> QED BY <1>2, <1>3

\* An occurrence in the text is one in the haystack, and the screen stops there.
LEMMA StopsInText ==
  ASSUME Typed, Covered, OnlyAscii, Looping, phase \in Phases,
         NEW id \in Ids(pats), pats[id] # <<>>, NEW r \in 0..Text.n,
         Occurs(pats, Text, id, r)
  PROVE  MustStop(Off(r))
<1>1. Occurs(pats, hay, id, Lo + r) /\ Lo + r + Len(pats[id]) <= Hi
  <2>1. Lo \in 0..Hi /\ r \in Nat
    BY Scenery
  <2> QED BY <2>1, Scenery, PartOccurs DEF Text
<1>2. Lo + r \in Lo..Hi
  BY TextOff
<1> QED BY <1>1, <1>2, StopsAtMatch DEF Off

-----------------------------------------------------------------------------
(***************************************************************************)
(* A skip.  No match starts in what the screen passes over.                *)
(***************************************************************************)
LEMMA FirstBehind ==
  ASSUME Typed, NEW s \in Nat, s <= to
  PROVE  \E v \in 0..Text.n : s <= Off(v) /\ \A w \in 0..(v - 1) : Off(w) < s
<1> DEFINE S == {v \in 0..Text.n : s <= Off(v)}
<1>1. PICK v \in S : \A w \in S : v <= w
  <2>1. Text.n \in S /\ S \in SUBSET Nat
    BY Scenery, TextEnds
  <2> HIDE DEF S
  <2> QED BY <2>1, Least
<1>2. v \in 0..Text.n /\ s <= Off(v)
  OBVIOUS
<1>3. ASSUME NEW w \in 0..(v - 1) PROVE Off(w) < s
  <2>1. w \in 0..Text.n /\ ~(v <= w)
    BY <1>2, Scenery
  <2>2. ~(s <= Off(w))
    BY <1>1, <2>1
  <2>3. Off(w) \in Nat
    BY <2>1, TextOff
  <2> HIDE DEF S
  <2> QED BY <2>2, <2>3
<1> QED BY <1>2, <1>3

LEMMA SkipTo ==
  ASSUME Typed, Covered, OnlyAscii, Looping, phase \in Phases,
         NEW r, NEW b, NEW m, at \in from..to, Scanned(at, <<>>, r, b, m),
         NEW s \in at..to, MaySkipTo(s)
  PROVE  \E v \in 0..Text.n : Scanned(s, <<>>, v, b, m)
<1>0. /\ from \in Nat /\ to \in Nat /\ Text.n \in Nat /\ IsHaystack(Text) /\ IsPatternSet(pats)
      /\ at \in Nat /\ s \in Nat /\ at <= s /\ s <= to
  <2>1. /\ from \in Nat /\ to \in Nat /\ Text.n \in Nat /\ IsHaystack(Text) /\ IsPatternSet(pats)
    BY Scenery
  <2> QED BY <2>1
<1>1. PICK v \in 0..Text.n : s <= Off(v) /\ \A w \in 0..(v - 1) : Off(w) < s
  BY <1>0, FirstBehind
<1>2. /\ r \in 0..Text.n /\ at <= Off(r) /\ \A w \in 0..(r - 1) : Off(w) < at
      /\ Tracks(pats, Text, r, <<>>) /\ IsBest(pats, Text, r, b, m) /\ Closed(at, r)
  BY DEF Scanned, Behind
<1>3. r <= v
  <2> SUFFICES ASSUME v < r PROVE FALSE
    BY <1>0, <1>1, <1>2
  <2>1. v \in 0..(r - 1)
    BY <1>0, <1>1, <1>2
  <2>2. Off(v) < at /\ Off(v) \in Nat
    BY <1>1, <1>2, <2>1, TextOff
  <2> QED BY <1>0, <1>1, <2>2
<1>4. ASSUME NEW w \in r..(v - 1), NEW id \in Ids(pats), pats[id] # <<>>
      PROVE  ~Occurs(pats, Text, id, w)
  <2>1. w \in 0..Text.n /\ w \in 0..(v - 1)
    BY <1>0, <1>1, <1>2
  <2>2. Off(w) < s /\ Off(w) \in Nat
    BY <1>1, <2>1, TextOff
  <2>3. at <= Off(w)
    <3>1. Off(r) <= Off(w) /\ Off(r) \in Nat
      BY <1>2, <2>1, OffGrows, TextOff
    <3> QED BY <1>0, <1>2, <2>2, <3>1
  <2>4. Off(w) \in at..(s - 1)
    BY <1>0, <2>2, <2>3
  <2>5. ~MustStop(Off(w))
    BY <2>4 DEF MaySkipTo
  <2> QED BY <1>4, <2>1, <2>5, StopsInText
<1>5. EndsText(Text, v, <<>>) /\ Tracks(pats, Text, v, <<>>) /\ IsBest(pats, Text, v, b, m)
  BY <1>0, <1>1, <1>2, <1>3, <1>4, IdleKeeps
<1>6. Behind(s, v)
  BY <1>1 DEF Behind
<1>7. Closed(s, v)
  <2> SUFFICES ASSUME s < Off(v), NEW id \in Ids(pats), NEW w \in 0..(v - 1),
                      pats[id] # <<>>, Occurs(pats, Text, id, w)
               PROVE  w + Len(pats[id]) < v
    BY DEF Closed
  <2>0. Len(pats[id]) \in Nat
    BY <1>0 DEF IsPatternSet, Ids
  <2>1. w \in 0..(r - 1)
    <3>1. w \notin r..(v - 1)
      BY <1>4
    <3> QED BY <1>0, <1>1, <1>2, <3>1
  <2>2. w + Len(pats[id]) <= r
    <3> SUFFICES ASSUME r < w + Len(pats[id]) PROVE FALSE
      BY <1>0, <1>2, <2>0, <2>1
    <3>1. w \in 0..Text.n /\ w < r
      BY <1>0, <1>2, <2>1
    <3>2. r - w <= Len(<<>>)
      BY <1>2, <3>1 DEF Tracks
    <3> QED BY <1>0, <1>2, <2>1, <3>2
  <2>3. CASE r < v
    BY <1>0, <1>1, <1>2, <2>0, <2>1, <2>2, <2>3
  <2>4. CASE r = v
    <3>1. at < Off(r)
      <4>1. Off(r) \in Nat
        BY <1>2, TextOff
      <4> QED BY <1>0, <2>4, <4>1
    <3> QED BY <1>2, <2>1, <2>4, <3>1 DEF Closed
  <2> QED BY <1>0, <1>1, <1>2, <1>3, <2>3, <2>4
<1> QED BY <1>1, <1>5, <1>6, <1>7 DEF Scanned
-----------------------------------------------------------------------------
(***************************************************************************)
(* One unit is read.                                                       *)
(***************************************************************************)
LEMMA RingIsLongEnough ==
  ASSUME Typed
  PROVE  RingLen \in Nat \ {0} /\ maxUnits <= RingLen
<1>1. InlineStarts \in Nat \ {0}
  BY FilteredAssumption DEF FilteredAssumption
<1>2. maxUnits \in Nat
  BY DEF Typed
<1> QED BY <1>1, <1>2 DEF RingLen

LEMMA NodeLength ==
  ASSUME Typed, NEW node \in Nodes(pats)
  PROVE  node \in Seq(Token) /\ Len(node) \in Nat /\ Len(node) <= maxUnits
<1>0. IsPatternSet(pats)
  BY Scenery
<1>1. node \in Seq(Token)
  BY <1>0, NodesAreSeqs
<1>2. Len(node) \in Nat /\ maxUnits \in Nat
  BY <1>1, LenProperties DEF Typed
<1>3. CASE node = <<>>
  BY <1>2, <1>3, EmptySeq
<1>4. CASE node # <<>>
  <2>1. PICK id \in Ids(pats) : \E k \in 1..Len(pats[id]) : node = SubSeq(pats[id], 1, k)
    BY <1>4 DEF Nodes
  <2>k. PICK k \in 1..Len(pats[id]) : node = SubSeq(pats[id], 1, k)
    BY <2>1
  <2>2. Len(node) = k
    BY <1>0, <2>1, <2>k, PrefixIsNode
  <2>3. Len(pats[id]) \in Nat /\ Len(pats[id]) <= maxUnits
    BY <1>0, <2>1 DEF Typed, IsMaxUnits, IsPatternSet, Ids
  <2> QED BY <1>1, <1>2, <2>k, <2>2, <2>3
<1> QED BY <1>1, <1>2, <1>3, <1>4

\* advance goes down by at most one unit.
LEMMA NextLength ==
  ASSUME Typed, NEW node \in Nodes(pats), NEW token \in Nat,
         NEW next \in Nodes(pats), IsAdvance(pats, node, token, next)
  PROVE  Len(next) <= Len(node) + 1
<1>0. node \in Seq(Token) /\ Len(node) \in Nat /\ Len(next) \in Nat
  BY NodeLength
<1>1. CASE token = 0
  <2>1. Len(next) = 0
    BY <1>1, EmptySeq DEF IsAdvance
  <2> QED BY <1>0, <2>1
<1>2. CASE token # 0
  <2>1. Len(next) <= Len(Append(node, token))
    BY <1>2 DEF IsAdvance, EndsWith
  <2>2. Len(Append(node, token)) = Len(node) + 1
    <3>1. token \in Token
      BY <1>2 DEF Token
    <3> QED BY <1>0, <3>1
  <2> QED BY <2>1, <2>2
<1> QED BY <1>1, <1>2

LEMMA OnUnit ==
  ASSUME Typed, NEW r \in 0..(Text.n - 1)
  PROVE  /\ OnBoundary(Off(r)) /\ TokenAt(Off(r)) = Text.tok[r]
         /\ Off(r) + SizeAt(Off(r)) = Off(r + 1)
<1>1. /\ Lo + r \in 0..hay.n /\ Text.tok[r] = hay.tok[Lo + r] /\ r \in 0..Text.n
      /\ r + 1 \in 0..Text.n
  BY TextTok, TextOff
<1>2. OnBoundary(Off(r))
  BY <1>1 DEF OnBoundary, Off
<1>3. UnitAt(hay, Off(r)) = Lo + r
  BY <1>1, Scenery, UnitAtOff DEF Off
<1>4. TokenAt(Off(r)) = Text.tok[r]
  BY <1>1, <1>2, <1>3 DEF TokenAt
<1>5. SizeAt(Off(r)) = Off(r + 1) - Off(r)
  <2>1. (Lo + r) + 1 = Lo + (r + 1)
    BY <1>1, Scenery
  <2> QED BY <1>2, <1>3, <2>1 DEF SizeAt, Off
<1>6. Off(r) \in Nat /\ Off(r + 1) \in Nat
  BY <1>1, TextOff
<1> QED BY <1>2, <1>4, <1>5, <1>6

LEMMA InsideUnit ==
  ASSUME Typed, NEW s \in Nat, from <= s, s < to, NEW v, Behind(s, v), s # Off(v)
  PROVE  ~OnBoundary(s) /\ TokenAt(s) = 0 /\ SizeAt(s) = 1 /\ s < Off(v)
<1>0. v \in 0..Text.n /\ s <= Off(v) /\ Off(v) \in Nat
  BY TextOff DEF Behind
<1>1. ASSUME NEW u \in 0..hay.n, hay.off[u] = s PROVE FALSE
  <2>1. Lo \in 0..hay.n /\ Hi \in 0..hay.n /\ hay.off[Lo] <= hay.off[u] /\ hay.off[u] < hay.off[Hi]
    BY <1>1, Scenery
  <2>2. Lo <= u /\ u < Hi
    BY <2>1, Scenery, OffOrder
  <2>3. PICK w \in 0..Text.n : Lo + w = u
    <3>1. u - Lo \in 0..Text.n /\ Lo + (u - Lo) = u
      BY <2>1, <2>2, Scenery
    <3> QED BY <3>1
  <2>4. Off(w) = s
    BY <1>1, <2>3 DEF Off
  <2>5. w <= v /\ w # v
    <3>1. Off(w) <= Off(v)
      BY <1>0, <2>4
    <3> QED BY <1>0, <2>3, <2>4, <3>1, OffGrows
  <2>6. w \in 0..(v - 1)
    BY <1>0, <2>3, <2>5, Scenery
  <2>7. Off(w) < s
    BY <2>6 DEF Behind
  <2> QED BY <2>4, <2>7
<1>2. ~OnBoundary(s)
  BY <1>1 DEF OnBoundary
<1> QED BY <1>0, <1>2 DEF TokenAt, SizeAt

\* The ring has the start of the unit just read and of those before it.
LEMMA RingWritten ==
  ASSUME Typed, NEW node \in Nodes(pats), NEW next \in Nodes(pats), Len(next) <= Len(node) + 1,
         NEW units \in Nat, NEW r \in Nat, NEW s \in Nat, s = Off(r),
         Traced(node, units, starts, r),
         NEW ring, ring = [starts EXCEPT ![units % RingLen] = s]
  PROVE  ring \in [0..(RingLen - 1) -> Nat] /\ Traced(next, units + 1, ring, r + 1)
<1>0. /\ RingLen \in Nat \ {0} /\ maxUnits <= RingLen /\ maxUnits \in Nat
      /\ starts \in [0..(RingLen - 1) -> Nat]
      /\ Len(node) \in Nat /\ Len(next) \in Nat /\ Len(next) <= maxUnits
  BY RingIsLongEnough, NodeLength DEF Typed
<1>1. units % RingLen \in 0..(RingLen - 1)
  BY <1>0, ModRange
<1>2. ring \in [0..(RingLen - 1) -> Nat]
  BY <1>0, <1>1
<1>3. Len(node) <= units /\ Len(next) <= units + 1
  BY <1>0 DEF Traced
<1>4. ASSUME NEW k \in 1..Len(next)
      PROVE  ring[(units + 1 - k) % RingLen] = Off(r + 1 - k)
  <2>1. CASE k = 1
    <3>1. units + 1 - k = units /\ r + 1 - k = r
      BY <2>1
    <3>2. ring[units % RingLen] = s
      BY <1>0, <1>1
    <3> QED BY <3>1, <3>2
  <2>2. CASE k # 1
    <3>1. PICK j \in 1..Len(node) : j = k - 1
      <4>1. k - 1 \in 1..Len(node)
        BY <1>0, <2>2
      <4> QED BY <4>1
    <3>2. PICK a \in Nat : a = units - j /\ a = units + 1 - k
      <4>1. units - j \in Nat /\ units - j = units + 1 - k
        BY <1>0, <1>3, <3>1
      <4> QED BY <4>1
    <3>3. a # units /\ a - units < RingLen /\ units - a < RingLen
      BY <1>0, <3>1, <3>2
    <3>4. a % RingLen # units % RingLen
      BY <1>0, <3>3, ModDistinct
    <3>5. a % RingLen \in 0..(RingLen - 1)
      BY <1>0, ModRange
    <3>6. ring[a % RingLen] = starts[a % RingLen]
      BY <1>0, <1>1, <3>4, <3>5
    <3>7. starts[a % RingLen] = Off(r - j)
      BY <3>1, <3>2 DEF Traced
    <3>8. r - j = r + 1 - k
      BY <3>1
    <3> QED BY <3>2, <3>6, <3>7, <3>8
  <2> QED BY <2>1, <2>2
<1> QED BY <1>2, <1>3, <1>4 DEF Traced

\* The start of an output is read from there.
LEMMA OutputStart ==
  ASSUME Typed, NEW e \in 0..Text.n, NEW next \in Nodes(pats), EndsText(Text, e, next),
         NEW out, IsOutput(pats, next, out), out.pattern >= 0,
         NEW units, NEW ring, Traced(next, units, ring, e)
  PROVE  /\ out.pattern \in Ids(pats) /\ out.units \in 1..e
         /\ ring[(units - out.units) % RingLen] = Off(e - out.units)
<1>1. out.pattern \in Ids(pats) /\ out.units = Len(pats[out.pattern]) /\ out.units \in 1..e
  BY Scenery, OutputOccurs
<1>2. out.units <= Len(next)
  <2>1. out # NoOutput
    BY DEF NoOutput
  <2>2. PICK id \in Ids(pats) : out = [pattern |-> id, units |-> Len(pats[id])] /\ EndsHere(pats, next, id)
    BY <2>1 DEF IsOutput
  <2> QED BY <2>2 DEF EndsHere, EndsWith
<1>3. out.units \in 1..Len(next)
  BY <1>1, <1>2, NodeLength
<1> QED BY <1>1, <1>3 DEF Traced
-----------------------------------------------------------------------------
(***************************************************************************)
(* The best match, in the text and in the haystack.                        *)
(***************************************************************************)
LEMMA PlacedMatch ==
  ASSUME Typed, NEW e, NEW b, NEW m, IsBest(pats, Text, e, b, m)
  PROVE  /\ m \in Answers(pats, Text) /\ b \in {-1} \cup 0..Text.n
         /\ \/ b = -1 /\ m = NoMatch /\ Placed(m) = NoMatch
            \/ /\ b \in 0..Text.n /\ m.pattern \in Ids(pats) /\ m.pattern \in Nat
               /\ m = [pattern |-> m.pattern, start |-> Text.off[b]]
               /\ Placed(m) = [pattern |-> m.pattern, start |-> Off(b)]
<1>0. m \in Answers(pats, Text) /\ b \in {-1} \cup 0..Text.n
  BY BestTyped
<1>1. CASE b = -1 /\ m = NoMatch
  BY <1>0, <1>1 DEF Placed
<1>2. CASE ~(b = -1 /\ m = NoMatch)
  <2>1. b \in 0..Text.n /\ \E id \in Ids(pats) : m = [pattern |-> id, start |-> Text.off[b]]
    BY <1>2 DEF IsBest
  <2>2. PICK id \in Ids(pats) : m = [pattern |-> id, start |-> Text.off[b]]
    BY <2>1
  <2>3. id \in Nat
    BY <2>2, Scenery DEF IsPatternSet, Ids
  <2>4. m.pattern = id /\ m.start = Text.off[b] /\ m # NoMatch
    BY <2>2, <2>3 DEF NoMatch
  <2>5. Text.off[b] + from = Off(b)
    BY <2>1, TextOff
  <2>6. Placed(m) = [pattern |-> id, start |-> Off(b)]
    BY <2>4, <2>5 DEF Placed
  <2> QED BY <1>0, <2>1, <2>2, <2>3, <2>4, <2>6
<1> QED BY <1>1, <1>2

\* The executor compares bytes, which have the order of the units.
LEMMA SameImprovement ==
  ASSUME Typed, NEW e, NEW b, NEW m, IsBest(pats, Text, e, b, m), best = Placed(m),
         NEW out, NEW su, out.pattern >= 0 => su \in 0..Text.n,
         NEW start, out.pattern >= 0 => start = Off(su)
  PROVE  Improves(out, start) <=> Improvement(out, su, b, m)
<1>1. CASE ~(out.pattern >= 0)
  BY <1>1 DEF Improves, Improvement
<1>2. CASE out.pattern >= 0 /\ b = -1 /\ m = NoMatch /\ Placed(m) = NoMatch
  BY <1>2 DEF Improves, Improvement, NoMatch
<1>3. CASE /\ out.pattern >= 0 /\ b \in 0..Text.n /\ m.pattern \in Nat
           /\ Placed(m) = [pattern |-> m.pattern, start |-> Off(b)]
  <2>1. best.pattern = m.pattern /\ best.start = Off(b) /\ m.pattern \in Nat /\ ~(m.pattern < 0)
    BY <1>3
  <2>2. /\ su < b <=> Off(su) < Off(b)
        /\ su <= b <=> Off(su) <= Off(b)
    BY <1>3, OffGrows
  <2>3. su = b <=> Off(su) = Off(b)
    <3>1. Off(su) \in Nat /\ Off(b) \in Nat /\ su \in Nat /\ b \in Nat
      BY <1>3, TextOff, Scenery
    <3> QED BY <2>2, <3>1
  <2>4. ~(b < 0)
    BY <1>3
  <2> QED BY <1>3, <2>1, <2>2, <2>3, <2>4 DEF Improves, Improvement
<1> QED BY <1>1, <1>2, <1>3, PlacedMatch

LEMMA BestRead ==
  ASSUME Typed, NEW r \in 0..(Text.n - 1), NEW e, e = r + 1,
         NEW next \in Nodes(pats), EndsText(Text, e, next), Covers(pats, Text, r, next),
         NEW out, IsOutput(pats, next, out),
         NEW b, NEW m, IsBest(pats, Text, r, b, m), best = Placed(m),
         NEW units, NEW ring, Traced(next, units, ring, e),
         NEW start, start = ring[(units - out.units) % RingLen],
         NEW kept,
         kept = IF Improves(out, start) THEN [pattern |-> out.pattern, start |-> start] ELSE best
  PROVE  \E b2 \in {-1} \cup 0..Text.n, m2 \in Answers(pats, Text) :
           IsBest(pats, Text, e, b2, m2) /\ kept = Placed(m2)
<1>0. IsPatternSet(pats) /\ IsHaystack(Text) /\ e \in 0..Text.n
  BY Scenery, TextTok
<1>1. PICK su : su = e - out.units
  OBVIOUS
<1>2. out.pattern >= 0 => su \in 0..Text.n /\ start = Off(su)
  <2> SUFFICES ASSUME out.pattern >= 0 PROVE su \in 0..Text.n /\ start = Off(su)
    OBVIOUS
  <2>1. out.units \in 1..e /\ ring[(units - out.units) % RingLen] = Off(e - out.units)
    BY <1>0, OutputStart
  <2>2. Text.n \in Nat
    BY Scenery
  <2>3. su \in 0..Text.n
    BY <1>0, <1>1, <2>1, <2>2
  <2> QED BY <1>1, <2>1, <2>3
<1>3. Improves(out, start) <=> Improvement(out, su, b, m)
  BY <1>2, SameImprovement
<1>4. CASE Improves(out, start)
  <2>1. su \in 0..Text.n /\ start = Off(su)
    BY <1>2, <1>4 DEF Improves
  <2>2. PICK m2 : m2 = [pattern |-> out.pattern, start |-> Text.off[su]]
    OBVIOUS
  <2>3. IsBest(pats, Text, e, su, m2)
    BY <1>0, <1>1, <1>3, <1>4, <2>2, BestAfterStep
  <2>4. su # -1
    BY <2>1
  <2>5. Placed(m2) = [pattern |-> m2.pattern, start |-> Off(su)]
    BY <2>3, <2>4, PlacedMatch
  <2>6. kept = Placed(m2)
    BY <1>4, <2>1, <2>2, <2>5
  <2> QED BY <2>3, <2>6, PlacedMatch
<1>5. CASE ~Improves(out, start)
  <2>1. IsBest(pats, Text, e, b, m)
    BY <1>0, <1>1, <1>3, <1>5, BestAfterStep
  <2>2. kept = Placed(m)
    BY <1>5
  <2> QED BY <2>1, <2>2, PlacedMatch
<1> QED BY <1>4, <1>5

\* One iteration, at the start of a unit.
Read(r) ==
  /\ starts' \in [0..(RingLen - 1) -> Nat] /\ history' \in Nat
  /\ at' = Off(r) /\ r \in 0..Text.n
  /\ state' \in Nodes(pats)
  /\ \E b \in {-1} \cup 0..Text.n, m \in Answers(pats, Text) :
       Scanned(at', state', r, b, m) /\ best' = Placed(m)
  /\ Traced(state', history', starts', r)

LEMMA ConsumeUnit ==
  ASSUME Typed, NEW r \in 0..(Text.n - 1), NEW node \in Nodes(pats), node = state,
         EndsText(Text, r, node), Tracks(pats, Text, r, node),
         NEW b, NEW m, IsBest(pats, Text, r, b, m), best = Placed(m),
         NEW units \in Nat, Traced(node, units, starts, r),
         NEW s \in Nat, s = Off(r), Consume(s, units)
  PROVE  Read(r + 1)
<1>0. /\ IsPatternSet(pats) /\ IsHaystack(Text) /\ r \in Nat /\ r + 1 \in 0..Text.n
      /\ r \in 0..Text.n
  BY Scenery, TextTok
<1>1. /\ TokenAt(s) = Text.tok[r] /\ s + SizeAt(s) = Off(r + 1) /\ Text.tok[r] \in Nat
  <2>1. Text.tok[r] \in Nat
    BY <1>0 DEF IsHaystack
  <2> QED BY <2>1, OnUnit
<1>2. /\ starts' = [starts EXCEPT ![units % RingLen] = s]
      /\ history' = units + 1 /\ at' = Off(r + 1)
  BY <1>1 DEF Consume
<1>3. PICK next \in Nodes(pats) : IsAdvance(pats, node, Text.tok[r], next) /\ state' = next
  BY <1>1 DEF Consume
<1>4. PICK ring : ring = starts'
  OBVIOUS
<1>5. Len(next) <= Len(node) + 1
  BY <1>1, <1>3, NextLength
<1>6. ring \in [0..(RingLen - 1) -> Nat] /\ Traced(next, units + 1, ring, r + 1)
  BY <1>0, <1>2, <1>3, <1>4, <1>5, RingWritten
<1>7. EndsText(Text, r + 1, next) /\ Covers(pats, Text, r, next)
  BY <1>0, <1>3, AdvanceTracks
<1>8. Tracks(pats, Text, r + 1, next)
  BY <1>0, <1>7, CoversTracks
<1>a. PICK out \in Outputs(pats) :
        /\ IsOutput(pats, next, out)
        /\ LET start == ring[(units + 1 - out.units) % RingLen] IN
           best' = IF Improves(out, start)
                     THEN [pattern |-> out.pattern, start |-> start] ELSE best
  BY <1>3, <1>4 DEF Consume
<1>9. PICK start, kept :
        /\ IsOutput(pats, next, out)
        /\ start = ring[(units + 1 - out.units) % RingLen]
        /\ kept = IF Improves(out, start)
                    THEN [pattern |-> out.pattern, start |-> start] ELSE best
        /\ best' = kept
  BY <1>a
<1>10. PICK b2 \in {-1} \cup 0..Text.n, m2 \in Answers(pats, Text) :
         IsBest(pats, Text, r + 1, b2, m2) /\ kept = Placed(m2)
  <2>1. PICK e, w : e = r + 1 /\ w = units + 1
    OBVIOUS
  <2>2. EndsText(Text, e, next) /\ Traced(next, w, ring, e)
    BY <1>6, <1>7, <2>1
  <2>3. start = ring[(w - out.units) % RingLen]
    <3>1. start = ring[(units + 1 - out.units) % RingLen]
      BY <1>9
    <3>2. out.units \in Nat
      <4>1. \A id \in Ids(pats) : Len(pats[id]) \in Nat
        BY <1>0 DEF IsPatternSet, Ids
      <4>2. out \in Outputs(pats)
        BY <1>a
      <4> QED BY <4>1, <4>2 DEF Outputs, NoOutput
    <3>3. units + 1 - out.units = w - out.units
      BY <2>1, <3>2
    <3> QED BY <3>1, <3>3
  <2>4. /\ IsOutput(pats, next, out)
        /\ kept = IF Improves(out, start)
                    THEN [pattern |-> out.pattern, start |-> start] ELSE best
    BY <1>9
  <2>5. Covers(pats, Text, r, next)
    BY <1>7
  <2>6. \E b2 \in {-1} \cup 0..Text.n, m2 \in Answers(pats, Text) :
          IsBest(pats, Text, e, b2, m2) /\ kept = Placed(m2)
    BY <2>1, <2>2, <2>3, <2>4, <2>5, BestRead
  <2> QED BY <2>1, <2>6
<1>11. Behind(Off(r + 1), r + 1) /\ Closed(Off(r + 1), r + 1)
  <2>1. Off(r + 1) \in Nat
    BY <1>0, TextOff
  <2>2. ASSUME NEW v \in 0..(r + 1 - 1) PROVE Off(v) < Off(r + 1)
    <3>1. v \in 0..Text.n /\ v < r + 1
      BY <1>0, Scenery
    <3> QED BY <1>0, <3>1, OffGrows
  <2>3. Behind(Off(r + 1), r + 1)
    BY <1>0, <2>1, <2>2 DEF Behind
  <2>4. Closed(Off(r + 1), r + 1)
    BY <2>1 DEF Closed
  <2> QED BY <2>3, <2>4
<1>12. Scanned(at', state', r + 1, b2, m2)
  BY <1>2, <1>3, <1>7, <1>8, <1>10, <1>11 DEF Scanned
<1>13. Traced(state', history', starts', r + 1)
  BY <1>2, <1>3, <1>4, <1>6
<1>14. starts' \in [0..(RingLen - 1) -> Nat] /\ history' \in Nat
  BY <1>2, <1>4, <1>6
<1>15. best' = Placed(m2)
  BY <1>9, <1>10
<1> QED BY <1>0, <1>2, <1>3, <1>12, <1>13, <1>14, <1>15 DEF Read
-----------------------------------------------------------------------------
(***************************************************************************)
(* Each action preserves the invariant.                                    *)
(***************************************************************************)
LEMMA ArgsKept ==
  ASSUME UNCHANGED args
  PROVE  /\ Lo' = Lo /\ Hi' = Hi /\ Text' = Text /\ RingLen' = RingLen
         /\ pats' = pats /\ hay' = hay /\ from' = from /\ to' = to
         /\ screen' = screen /\ maxUnits' = maxUnits
<1>1. /\ pats' = pats /\ hay' = hay /\ from' = from /\ to' = to
      /\ screen' = screen /\ maxUnits' = maxUnits
  BY DEF args
<1>2. Lo' = Lo /\ Hi' = Hi /\ RingLen' = RingLen
  BY <1>1 DEF Lo, Hi, RingLen
<1>3. Text' = Text
  BY <1>1, <1>2 DEF Text
<1> QED BY <1>1, <1>2, <1>3

LEMMA TypedKept ==
  ASSUME Typed, UNCHANGED args, starts' \in [0..(RingLen - 1) -> Nat], history' \in Nat
  PROVE  Typed'
BY ArgsKept DEF Typed

LEMMA ScreenKept ==
  ASSUME Looping, Covered, OnlyAscii, UNCHANGED <<args, phase>>
  PROVE  Covered' /\ OnlyAscii' /\ Looping'
<1>0. UNCHANGED args /\ phase' = phase
  OBVIOUS
<1>1. Looping'
  BY <1>0 DEF Looping
<1>2. Covered'
  BY <1>0, ArgsKept DEF Covered, Looping
<1>3. OnlyAscii'
  BY <1>0, ArgsKept DEF OnlyAscii
<1> QED BY <1>1, <1>2, <1>3

LEMMA ScannedKept ==
  ASSUME UNCHANGED args, NEW a, NEW node, NEW r, NEW b, NEW m, NEW units, NEW ring
  PROVE  /\ Scanned(a, node, r, b, m)' <=> Scanned(a, node, r, b, m)
         /\ Traced(node, units, ring, r)' <=> Traced(node, units, ring, r)
         /\ Placed(m)' = Placed(m) /\ Off(r)' = Off(r)
<1>1. \A q : (hay.off[Lo + q])' = hay.off[Lo + q]
  BY ArgsKept
<1>2. Off(r)' = Off(r)
  BY ArgsKept DEF Off
<1>3. Behind(a, r)' <=> Behind(a, r)
  BY ArgsKept DEF Behind, Off
<1>4. Closed(a, r)' <=> Closed(a, r)
  BY ArgsKept DEF Closed, Off
<1>5. Scanned(a, node, r, b, m)' <=> Scanned(a, node, r, b, m)
  BY <1>3, <1>4, ArgsKept DEF Scanned
<1>6. Traced(node, units, ring, r)' <=> Traced(node, units, ring, r)
  BY ArgsKept DEF Traced, Off
<1>7. Placed(m)' = Placed(m)
  BY ArgsKept DEF Placed
<1> QED BY <1>2, <1>5, <1>6, <1>7

\* The next state is in the loop.
LEMMA StaysInLoop ==
  ASSUME UNCHANGED args, at' \in from..to, state' \in Nodes(pats),
         NEW r \in 0..Text.n, NEW b \in {-1} \cup 0..Text.n, NEW m \in Answers(pats, Text),
         Scanned(at', state', r, b, m), best' = Placed(m),
         state' # <<>> => at' = Off(r) /\ Traced(state', history', starts', r)
  PROVE  InLoop'
<1>1. PICK a, node, units, ring : a = at' /\ node = state' /\ units = history' /\ ring = starts'
  OBVIOUS
<1>2. /\ Scanned(a, node, r, b, m)' /\ Placed(m)' = Placed(m)
      /\ Traced(node, units, ring, r)' <=> Traced(node, units, ring, r)
      /\ Off(r)' = Off(r)
  <2>1. Scanned(a, node, r, b, m)
    BY <1>1
  <2> QED BY <2>1, ScannedKept
<1>3. Scanned(at, state, r, b, m)'
  BY <1>1, <1>2
<1>4. (state # <<>> => at = Off(r) /\ Traced(state, history, starts, r))'
  <2>1. Traced(node, units, ring, r)' <=> (Traced(state, history, starts, r))'
    BY <1>1
  <2>2. Traced(node, units, ring, r) <=> Traced(state', history', starts', r)
    BY <1>1
  <2> QED BY <1>2, <2>1, <2>2
<1>5. (best = Placed(m))'
  BY <1>2
<1>6. (at \in from..to)' /\ (state \in Nodes(pats))' /\ (r \in 0..Text.n)'
      /\ (b \in {-1} \cup 0..Text.n)' /\ (m \in Answers(pats, Text))'
  BY ArgsKept
<1> QED BY <1>3, <1>4, <1>5, <1>6 DEF InLoop

\* The loop goes on.
LEMMA GoesOn ==
  ASSUME IInv, Looping, UNCHANGED <<args, phase>>,
         starts' \in [0..(RingLen - 1) -> Nat], history' \in Nat, InLoop'
  PROVE  IInv'
<1>0. UNCHANGED args /\ phase' = phase
  OBVIOUS
<1>1. Typed'
  BY <1>0, TypedKept DEF IInv
<1>2. (phase \in Phases)'
  BY <1>0 DEF IInv, Phases
<1>3. Covered' /\ OnlyAscii' /\ Looping'
  BY ScreenKept DEF IInv
<1>4. phase' # "done"
  BY <1>3 DEF Looping
<1> QED BY <1>1, <1>2, <1>3, <1>4 DEF IInv

\* Or it ends, with the answer.
LEMMA Returns ==
  ASSUME IInv, Return, NEW m \in Answers(pats, Text), IsAnswer(pats, Text, m), best = Placed(m)
  PROVE  IInv'
<1>0. UNCHANGED args /\ phase' = "done" /\ best' = best /\ starts' = starts /\ history' = history
  BY DEF Return
<1>1. Typed'
  <2>1. starts' \in [0..(RingLen - 1) -> Nat] /\ history' \in Nat
    BY <1>0 DEF IInv, Typed
  <2> QED BY <1>0, <2>1, TypedKept DEF IInv
<1>2. Covered' /\ OnlyAscii' /\ (phase \in Phases)' /\ ~Looping'
  BY <1>0 DEF Covered, OnlyAscii, Phases, Looping
<1>3. Answered'
  <2>1. Placed(m)' = Placed(m)
    BY <1>0, ArgsKept DEF Placed
  <2> QED BY <1>0, <2>1, ArgsKept DEF Answered
<1> QED BY <1>1, <1>2, <1>3 DEF IInv

LEMMA UnitRead ==
  ASSUME IInv, Looping, UNCHANGED <<args, phase>>, NEW r, Read(r)
  PROVE  IInv'
<1>0. Typed
  BY DEF IInv
<1>1. /\ starts' \in [0..(RingLen - 1) -> Nat] /\ history' \in Nat
      /\ at' = Off(r) /\ r \in 0..Text.n /\ state' \in Nodes(pats)
      /\ Traced(state', history', starts', r)
  BY DEF Read
<1>2. PICK b \in {-1} \cup 0..Text.n, m \in Answers(pats, Text) :
        Scanned(at', state', r, b, m) /\ best' = Placed(m)
  BY DEF Read
<1>3. at' \in from..to
  <2>1. Off(r) \in Nat /\ from <= Off(r) /\ Off(r) <= to /\ from \in Nat /\ to \in Nat
    BY <1>0, <1>1, TextOff, Scenery
  <2> QED BY <1>1, <2>1
<1>4. InLoop'
  BY <1>1, <1>2, <1>3, StaysInLoop
<1> QED BY <1>1, <1>4, GoesOn

LEMMA StepKeeps ==
  ASSUME IInv, Step
  PROVE  IInv'
<1>0. /\ Looping /\ at < to /\ state # <<>> /\ Consume(at, history) /\ Typed /\ InLoop
      /\ UNCHANGED <<args, phase>> /\ history \in Nat
  BY DEF IInv, Step, Consume, Typed
<1>1. PICK r \in 0..Text.n, b \in {-1} \cup 0..Text.n, m \in Answers(pats, Text) :
        /\ Scanned(at, state, r, b, m) /\ best = Placed(m)
        /\ at = Off(r) /\ Traced(state, history, starts, r)
  BY <1>0 DEF InLoop
<1>2. r \in 0..(Text.n - 1)
  <2>1. r # Text.n
    BY <1>0, <1>1, TextEnds, TextOff, Scenery
  <2> QED BY <1>0, <1>1, <2>1, Scenery
<1>3. EndsText(Text, r, state) /\ Tracks(pats, Text, r, state) /\ IsBest(pats, Text, r, b, m)
  BY <1>1 DEF Scanned
<1>4. state \in Nodes(pats) /\ at \in Nat
  BY <1>0, <1>1, TextOff DEF InLoop
<1>5. PICK node, s : node = state /\ s = at
  OBVIOUS
<1>6. /\ node \in Nodes(pats) /\ s \in Nat /\ s = Off(r) /\ Consume(s, history)
      /\ EndsText(Text, r, node) /\ Tracks(pats, Text, r, node)
      /\ Traced(node, history, starts, r)
  BY <1>0, <1>1, <1>3, <1>4, <1>5
<1>7. Read(r + 1)
  BY <1>0, <1>1, <1>2, <1>3, <1>5, <1>6, ConsumeUnit
<1> QED BY <1>0, <1>7, UnitRead

\* Inside a unit nothing is read: the loop is at the root and stays there.
LEMMA ConsumeInside ==
  ASSUME IInv, Looping, state = <<>>, NEW s \in Nat, from <= s, s < to,
         NEW v \in 0..Text.n, NEW b \in {-1} \cup 0..Text.n, NEW m \in Answers(pats, Text),
         Scanned(s, <<>>, v, b, m), best = Placed(m), s # Off(v), Consume(s, 0)
  PROVE  IInv'
<1>0. Typed /\ UNCHANGED <<args, phase>>
  BY DEF IInv, Consume
<1>1. Behind(s, v) /\ Closed(s, v)
  BY DEF Scanned
<1>2. TokenAt(s) = 0 /\ SizeAt(s) = 1 /\ s < Off(v) /\ Off(v) \in Nat /\ Off(v) <= to
  BY <1>0, <1>1, InsideUnit, TextOff
<1>3. at' = s + 1 /\ state' = <<>> /\ starts' = [starts EXCEPT ![0 % RingLen] = s] /\ history' = 1
  BY <1>2 DEF Consume, IsAdvance
<1>4. best' = best
  <2>1. PICK out \in Outputs(pats) :
          /\ IsOutput(pats, <<>>, out)
          /\ \E start :
               best' = IF Improves(out, start)
                         THEN [pattern |-> out.pattern, start |-> start] ELSE best
    BY <1>3 DEF Consume
  <2>2. ~(out.pattern >= 0)
    <3> SUFFICES ASSUME out.pattern >= 0 PROVE FALSE
      OBVIOUS
    <3>1. out # NoOutput
      BY DEF NoOutput
    <3>2. PICK id \in Ids(pats) : pats[id] # <<>> /\ Len(pats[id]) <= Len(<<>>)
      BY <2>1, <3>1 DEF IsOutput, EndsHere, EndsWith
    <3>3. pats[id] \in Seq(Token)
      BY <1>0, <3>2, Scenery DEF IsPatternSet, Ids
    <3> QED BY <3>2, <3>3
  <2> QED BY <2>1, <2>2 DEF Improves
<1>5. starts' \in [0..(RingLen - 1) -> Nat] /\ history' \in Nat
  <2>1. RingLen \in Nat \ {0}
    BY <1>0, RingIsLongEnough
  <2>2. 0 % RingLen \in 0..(RingLen - 1)
    BY <2>1, ModRange
  <2>3. starts \in [0..(RingLen - 1) -> Nat]
    BY <1>0 DEF Typed
  <2> QED BY <1>3, <2>2, <2>3
<1>6. Scanned(s + 1, <<>>, v, b, m)
  <2>1. Behind(s + 1, v)
    <3>1. ASSUME NEW w \in 0..(v - 1) PROVE Off(w) < s + 1
      <4>1. Off(w) < s /\ w \in 0..Text.n
        BY <1>0, <1>1, Scenery DEF Behind
      <4>2. Off(w) \in Nat
        BY <1>0, <4>1, TextOff
      <4> QED BY <4>1, <4>2
    <3>2. s + 1 <= Off(v)
      BY <1>2
    <3> QED BY <3>1, <3>2 DEF Behind
  <2>2. Closed(s + 1, v)
    BY <1>1, <1>2 DEF Closed
  <2> QED BY <2>1, <2>2 DEF Scanned
<1>7. at' \in from..to
  BY <1>0, <1>2, <1>3, Scenery
<1>8. state' \in Nodes(pats)
  BY <1>3 DEF Nodes
<1>9. Scanned(at', state', v, b, m) /\ best' = Placed(m)
  BY <1>3, <1>4, <1>6
<1>10. InLoop'
  BY <1>0, <1>3, <1>7, <1>8, <1>9, StaysInLoop
<1> QED BY <1>0, <1>5, <1>10, GoesOn

LEMMA LeaveRootKeeps ==
  ASSUME IInv, LeaveRoot
  PROVE  IInv'
<1>0. /\ Looping /\ at < to /\ state = <<>> /\ Typed /\ InLoop /\ Covered /\ OnlyAscii
      /\ phase \in Phases
  BY DEF IInv, LeaveRoot
<1>1. PICK s \in at..(to - 1) : MaySkipTo(s) /\ Consume(s, 0)
  BY DEF LeaveRoot
<1>2. PICK r \in 0..Text.n, b \in {-1} \cup 0..Text.n, m \in Answers(pats, Text) :
        Scanned(at, <<>>, r, b, m) /\ best = Placed(m)
  BY <1>0 DEF InLoop
<1>3. at \in from..to /\ from \in Nat /\ to \in Nat
  BY <1>0, Scenery DEF InLoop
<1>4. s \in at..to /\ s \in Nat /\ from <= s /\ s < to
  BY <1>3
<1>5. PICK v \in 0..Text.n : Scanned(s, <<>>, v, b, m)
  BY <1>0, <1>1, <1>2, <1>3, <1>4, SkipTo
<1>6. CASE s = Off(v)
  <2>1. v \in 0..(Text.n - 1)
    <3>1. v # Text.n
      BY <1>0, <1>4, <1>6, TextEnds
    <3> QED BY <1>0, <1>5, <3>1, Scenery
  <2>2. EndsText(Text, v, <<>>) /\ Tracks(pats, Text, v, <<>>) /\ IsBest(pats, Text, v, b, m)
    BY <1>5 DEF Scanned
  <2>3. Traced(<<>>, 0, starts, v) /\ <<>> \in Nodes(pats)
    BY DEF Traced, Nodes
  <2>4. Read(v + 1)
    BY <1>0, <1>1, <1>2, <1>4, <1>6, <2>1, <2>2, <2>3, ConsumeUnit
  <2>5. UNCHANGED <<args, phase>>
    BY <1>1 DEF Consume
  <2> QED BY <1>0, <2>4, <2>5, UnitRead
<1>7. CASE s # Off(v)
  BY <1>0, <1>1, <1>2, <1>4, <1>5, <1>7, ConsumeInside
<1> QED BY <1>6, <1>7
-----------------------------------------------------------------------------
\* Once no match is open, none that ends later can start before the best.
LEMMA BestOnceIdle ==
  ASSUME NEW p, IsPatternSet(p), NEW h, IsHaystack(h), NEW e \in 0..h.n,
         NEW b, NEW m, IsBest(p, h, e, b, m), 0 <= b, b < e, Tracks(p, h, e, <<>>)
  PROVE  IsAnswer(p, h, m)
<1>0. h.n \in Nat /\ e \in Nat
  BY DEF IsHaystack
<1>1. b \in 0..h.n
  BY DEF IsBest
<1>2. PICK id \in Ids(p) :
        /\ m = [pattern |-> id, start |-> h.off[b]]
        /\ Ended(p, h, e, id, b)
        /\ \A other \in Ids(p), u \in 0..h.n : Ended(p, h, e, other, u) => Before(b, id, u, other)
  <2>1. b # -1
    BY <1>1
  <2> QED BY <2>1 DEF IsBest
<1>3. ASSUME NEW other \in Ids(p), NEW v \in 0..h.n, Occurs(p, h, other, v)
      PROVE  Before(b, id, v, other)
  <2>0. Len(p[other]) \in Nat /\ (p[other] = <<>> => Len(p[other]) = 0) /\ v \in Nat
    BY <1>0 DEF IsPatternSet, Ids
  <2>1. CASE p[other] = <<>>
    <3>1. Ended(p, h, e, other, 0)
      <4>1. Occurs(p, h, other, 0)
        BY <1>0, <2>0, <2>1 DEF Occurs
      <4> QED BY <1>0, <2>0, <2>1, <4>1 DEF Ended
    <3>2. 0 \in 0..h.n
      BY <1>0
    <3>3. Before(b, id, 0, other)
      BY <1>2, <3>1, <3>2
    <3> QED BY <1>0, <1>1, <2>0, <3>3 DEF Before
  <2>2. CASE p[other] # <<>> /\ v + Len(p[other]) <= e
    <3>1. Ended(p, h, e, other, v)
      BY <1>3, <2>2 DEF Ended
    <3> QED BY <1>2, <3>1
  <2>3. CASE e < v + Len(p[other])
    <3>1. ~(v < e)
      <4> SUFFICES ASSUME v < e PROVE FALSE
        OBVIOUS
      <4>1. e - v <= Len(<<>>)
        BY <1>3, <2>3 DEF Tracks
      <4> QED BY <1>0, <2>0, <4>1
    <3> QED BY <1>0, <1>1, <2>0, <3>1 DEF Before
  <2> QED BY <1>0, <2>0, <2>1, <2>2, <2>3
<1>4. Occurs(p, h, id, b)
  BY <1>2 DEF Ended
<1> QED BY <1>1, <1>2, <1>3, <1>4 DEF IsAnswer

LEMMA ReturnSettledKeeps ==
  ASSUME IInv, ReturnSettled
  PROVE  IInv'
<1>0. Looping /\ state = <<>> /\ Settled /\ Return /\ Typed /\ InLoop
  BY DEF IInv, ReturnSettled
<1>1. PICK r \in 0..Text.n, b \in {-1} \cup 0..Text.n, m \in Answers(pats, Text) :
        Scanned(at, <<>>, r, b, m) /\ best = Placed(m)
  BY <1>0 DEF InLoop
<1>2. Behind(at, r) /\ Tracks(pats, Text, r, <<>>) /\ IsBest(pats, Text, r, b, m)
  BY <1>1 DEF Scanned
<1>3. b \in 0..Text.n /\ best.start = Off(b)
  <2>1. best.pattern >= 0
    BY <1>0 DEF Settled
  <2>2. best.pattern # -1
    BY <2>1
  <2>3. ~(Placed(m) = NoMatch)
    BY <1>1, <2>2 DEF NoMatch
  <2> QED BY <1>0, <1>1, <1>2, <2>3, PlacedMatch
<1>4. b < r
  <2>1. Off(b) < at /\ at <= Off(r) /\ at \in from..to
    BY <1>0, <1>2, <1>3 DEF Settled, Behind, InLoop
  <2>2. Off(b) < Off(r)
    BY <1>0, <1>1, <1>3, <2>1, TextOff, Scenery
  <2> QED BY <1>0, <1>1, <1>3, <2>2, OffGrows
<1>5. IsAnswer(pats, Text, m)
  <2>1. IsPatternSet(pats) /\ IsHaystack(Text) /\ 0 <= b
    BY <1>0, <1>3, Scenery
  <2> QED BY <1>1, <1>2, <1>4, <2>1, BestOnceIdle
<1> QED BY <1>0, <1>1, <1>5, Returns

\* Where the text has been scanned to its end, the best match is the answer.
LEMMA AnswerAtEnd ==
  ASSUME Typed, NEW node, NEW r, NEW b, NEW m, Scanned(to, node, r, b, m)
  PROVE  IsAnswer(pats, Text, m)
<1>1. r \in 0..Text.n /\ to <= Off(r) /\ IsBest(pats, Text, r, b, m)
  BY DEF Scanned, Behind
<1>2. r = Text.n
  <2>1. Off(Text.n) <= Off(r)
    BY <1>1, TextEnds
  <2>2. Text.n <= r
    BY <1>1, <2>1, TextEnds, OffGrows
  <2> QED BY <1>1, <2>2, Scenery
<1> QED BY <1>1, <1>2, Scenery, BestAtEnd

LEMMA NothingFollowsKeeps ==
  ASSUME IInv, NothingFollows
  PROVE  IInv'
<1>0. /\ Looping /\ state = <<>> /\ MaySkipTo(to) /\ Return /\ Typed /\ InLoop
      /\ Covered /\ OnlyAscii /\ phase \in Phases
  BY DEF IInv, NothingFollows
<1>1. PICK r \in 0..Text.n, b \in {-1} \cup 0..Text.n, m \in Answers(pats, Text) :
        Scanned(at, <<>>, r, b, m) /\ best = Placed(m)
  BY <1>0 DEF InLoop
<1>2. at \in from..to /\ to \in at..to
  BY <1>0, Scenery DEF InLoop
<1>3. PICK v \in 0..Text.n : Scanned(to, <<>>, v, b, m)
  BY <1>0, <1>1, <1>2, SkipTo
<1>4. IsAnswer(pats, Text, m)
  BY <1>0, <1>3, AnswerAtEnd
<1> QED BY <1>0, <1>1, <1>4, Returns

LEMMA FinishKeeps ==
  ASSUME IInv, Finish
  PROVE  IInv'
<1>0. Looping /\ at >= to /\ Return /\ Typed /\ InLoop
  BY DEF IInv, Finish
<1>1. PICK r \in 0..Text.n, b \in {-1} \cup 0..Text.n, m \in Answers(pats, Text) :
        Scanned(at, state, r, b, m) /\ best = Placed(m)
  BY <1>0 DEF InLoop
<1>2. at = to
  BY <1>0, Scenery DEF InLoop
<1>3. IsAnswer(pats, Text, m)
  BY <1>0, <1>1, <1>2, AnswerAtEnd
<1> QED BY <1>0, <1>1, <1>3, Returns

\* Before the first unit: the lowest empty pattern, or nothing.
LEMMA ScannedAtStart ==
  ASSUME Typed, NEW b, NEW m, IsBest(pats, Text, 0, b, m)
  PROVE  Scanned(from, <<>>, 0, b, m)
<1>1. Off(0) = from /\ 0 \in 0..Text.n /\ from \in Nat
  BY TextEnds, Scenery
<1>2. Behind(from, 0) /\ Closed(from, 0)
  BY <1>1 DEF Behind, Closed
<1>3. EndsText(Text, 0, <<>>)
  BY DEF EndsText
<1>4. Tracks(pats, Text, 0, <<>>)
  <2>1. Text.n \in Nat
    BY Scenery
  <2> QED BY <2>1 DEF Tracks
<1> QED BY <1>2, <1>3, <1>4 DEF Scanned

\* The whole haystack as a region.
LEMMA WholePart ==
  ASSUME NEW p, IsPatternSet(p), NEW h, IsHaystack(h), NEW m, IsAnswer(p, h, m)
  PROVE  IsAnswer(p, Part(h, 0, h.n), m)
<1> DEFINE q == Part(h, 0, h.n)
<1> SUFFICES IsAnswer(p, q, m)
  OBVIOUS
<1>0. h.n \in Nat /\ 0 \in 0..h.n /\ h.n \in 0..h.n /\ h.off[0] = 0 /\ 0 \in 0..h.n
  BY DEF IsHaystack
<1>1. q.n = h.n
  BY <1>0 DEF Part
<1>2. ASSUME NEW u \in 0..h.n PROVE q.off[u] = h.off[u]
  <2>1. h.off[u] \in Nat /\ 0 + u = u /\ u \in 0..(h.n - 0)
    BY <1>0 DEF IsHaystack
  <2>2. q.off[u] = h.off[0 + u] - h.off[0]
    BY <2>1 DEF Part
  <2> QED BY <1>0, <2>1, <2>2
<1>3. ASSUME NEW id \in Ids(p), NEW u \in 0..h.n
      PROVE  Occurs(p, q, id, u) <=> Occurs(p, h, id, u)
  <2>1. Occurs(p, q, id, u) <=> Occurs(p, h, id, 0 + u) /\ 0 + u + Len(p[id]) <= h.n
    <3>1. u \in Nat /\ 0 \in 0..h.n /\ h.n \in 0..h.n
      BY <1>0
    <3> HIDE DEF q
    <3> QED BY <3>1, PartOccurs DEF q
  <2>2. 0 + u = u
    OBVIOUS
  <2>3. Occurs(p, h, id, u) => u + Len(p[id]) <= h.n
    BY DEF Occurs
  <2> HIDE DEF q
  <2> QED BY <2>1, <2>2, <2>3
<1> HIDE DEF q
<1>4. CASE m = NoMatch /\ \A id \in Ids(p), u \in 0..h.n : ~Occurs(p, h, id, u)
  BY <1>1, <1>3, <1>4 DEF IsAnswer
<1>5. CASE \E id \in Ids(p), u \in 0..h.n :
             /\ m = [pattern |-> id, start |-> h.off[u]]
             /\ Occurs(p, h, id, u)
             /\ \A other \in Ids(p), v \in 0..h.n : Occurs(p, h, other, v) => Before(u, id, v, other)
  <2>1. PICK id \in Ids(p), u \in 0..h.n :
             /\ m = [pattern |-> id, start |-> h.off[u]]
             /\ Occurs(p, h, id, u)
             /\ \A other \in Ids(p), v \in 0..h.n : Occurs(p, h, other, v) => Before(u, id, v, other)
    BY <1>5
  <2>2. m = [pattern |-> id, start |-> q.off[u]] /\ Occurs(p, q, id, u)
    BY <1>2, <1>3, <2>1
  <2>3. \A other \in Ids(p), v \in 0..q.n : Occurs(p, q, other, v) => Before(u, id, v, other)
    BY <1>1, <1>3, <2>1
  <2> QED BY <1>1, <2>1, <2>2, <2>3 DEF IsAnswer
<1> QED BY <1>4, <1>5 DEF IsAnswer
-----------------------------------------------------------------------------
\* The screen that Dispatch chooses is one the plan has.
LEMMA DispatchKeeps ==
  ASSUME IInv, Dispatch
  PROVE  IInv'
<1>0. /\ Typed /\ UNCHANGED args /\ at' = at /\ state' = state
      /\ history' = history /\ starts' = starts
  BY DEF IInv, Dispatch
<1>1. from = 0 /\ to = Bytes(hay) /\ at = from /\ state = <<>> /\ best = NoMatch
  BY DEF IInv, Dispatch, Covered
<1>2. Text = Part(hay, 0, hay.n)
  <2>1. 0 \in 0..hay.n /\ hay.n \in 0..hay.n /\ hay.off[0] = 0 /\ Bytes(hay) = hay.off[hay.n]
    BY <1>0, Scenery DEF IsHaystack, Bytes
  <2>2. Lo = 0 /\ Hi = hay.n
    BY <1>0, <1>1, <2>1, Scenery, UnitAtOff DEF Lo, Hi
  <2> QED BY <2>2 DEF Text
<1>3. PICK vector \in BOOLEAN, useBucket \in {FALSE, screen.buckets # {}} :
        phase' = Screened(vector, useBucket)
  BY DEF Dispatch
<1>4. Typed'
  <2>1. starts' \in [0..(RingLen - 1) -> Nat] /\ history' \in Nat
    BY <1>0 DEF Typed
  <2> QED BY <1>0, <2>1, TypedKept
<1>5. /\ phase' \in Phases \ {"dispatch", "region"}
      /\ phase' = "asciiTriples" => screen.asciiTriples /\ AllAscii(hay)
      /\ phase' \in {"triples", "buckets"} => screen.triplesComplete
      /\ phase' = "buckets" => screen.buckets # {}
      /\ phase' \in {"filter", "pairSecond"} => screen.filter # NoFilter
      /\ phase' = "pairSecond" => PairSecond(screen.filter)
  BY <1>3 DEF Screened, Phases
<1>6. Covered'
  BY <1>0, <1>5, ArgsKept DEF Covered
<1>7. OnlyAscii'
  <2> SUFFICES ASSUME phase' = "asciiTriples", NEW i \in from..(to - 1)
               PROVE  hay.bytes[i] \in Ascii
    BY <1>0, <1>5, ArgsKept DEF OnlyAscii
  <2>1. i \in 0..(Bytes(hay) - 1)
    BY <1>1
  <2> QED BY <1>5, <2>1 DEF AllAscii
<1>8. CASE phase' # "done"
  <2>1. PICK b, m : /\ \/ EmptyIds(pats) = {} /\ b = -1 /\ m = NoMatch
                       \/ \E id \in EmptyIds(pats) :
                            /\ \A other \in EmptyIds(pats) : id <= other
                            /\ b = 0 /\ m = [pattern |-> id, start |-> 0]
                    /\ best' = m
    <3>1. CASE EmptyIds(pats) = {} /\ best' = best
      BY <1>1, <3>1
    <3>2. CASE \E id \in EmptyIds(pats) :
                 /\ \A other \in EmptyIds(pats) : id <= other
                 /\ best' = [pattern |-> id, start |-> 0]
      BY <3>2
    <3> QED BY <1>8, <3>1, <3>2 DEF Dispatch
  <2>2. IsBest(pats, Text, 0, b, m)
    BY <1>0, <2>1, Scenery, BestAtStart
  <2>3. Scanned(from, <<>>, 0, b, m) /\ 0 \in 0..Text.n
    BY <1>0, <2>2, ScannedAtStart, TextEnds
  <2>4. m \in Answers(pats, Text) /\ b \in {-1} \cup 0..Text.n
    BY <1>0, <2>2, PlacedMatch
  <2>5. best' = Placed(m)
    <3>1. CASE m = NoMatch
      BY <2>1, <3>1 DEF Placed
    <3>2. CASE m # NoMatch
      <4>1. PICK id : m = [pattern |-> id, start |-> 0]
        BY <2>1, <3>2
      <4>2. Placed(m) = [pattern |-> id, start |-> 0]
        BY <1>1, <3>2, <4>1 DEF Placed
      <4> QED BY <2>1, <4>1, <4>2
    <3> QED BY <3>1, <3>2
  <2>6. at' \in from..to /\ state' = <<>> /\ state' \in Nodes(pats)
    BY <1>0, <1>1, Scenery DEF Nodes, Bytes
  <2>7. Scanned(at', state', 0, b, m)
    BY <1>0, <1>1, <2>3
  <2>8. InLoop'
    BY <1>0, <2>3, <2>4, <2>5, <2>6, <2>7, StaysInLoop
  <2> QED BY <1>4, <1>5, <1>6, <1>7, <1>8, <2>8 DEF IInv
<1>9. CASE phase' = "done"
  <2>1. IsAnswer(pats, hay, best')
    BY <1>9 DEF Dispatch
  <2>2. IsAnswer(pats, Text, best')
    BY <1>0, <1>2, <2>1, Scenery, WholePart
  <2>3. PICK m : m = best'
    OBVIOUS
  <2>4. m \in Answers(pats, Text) /\ IsAnswer(pats, Text, m)
    BY <2>2, <2>3, AnswerTyped
  <2>5. Placed(m) = m
    <3>1. CASE m = NoMatch
      BY <3>1 DEF Placed
    <3>2. CASE m # NoMatch
      <4>1. PICK id \in Ids(pats), u \in 0..Text.n : m = [pattern |-> id, start |-> Text.off[u]]
        BY <2>4, <3>2 DEF IsAnswer
      <4>2. Text.off[u] + from = Text.off[u]
        <5>1. Text.off[u] + from = Off(u) /\ Text.off[u] = Off(u) - from /\ Off(u) \in Nat
          BY <1>0, <4>1, TextOff
        <5> QED BY <1>1, <5>1
      <4> QED BY <3>2, <4>1, <4>2 DEF Placed
    <3> QED BY <3>1, <3>2
  <2>6. Answered'
    <3>1. Placed(m)' = Placed(m)
      BY <1>0, ArgsKept DEF Placed
    <3> QED BY <1>0, <2>3, <2>4, <2>5, <3>1, ArgsKept DEF Answered
  <2>7. ~Looping'
    BY <1>9 DEF Looping
  <2> QED BY <1>4, <1>5, <1>6, <1>7, <2>6, <2>7 DEF IInv
<1> QED BY <1>8, <1>9

LEMMA InitHolds ==
  ASSUME Init
  PROVE  IInv
<1>0. /\ pats \in PatternSets /\ IsPatternSet(pats) /\ hay \in Haystacks
      /\ IsHaystack(hay) /\ hay.n \in Nat
  <2>1. pats \in PatternSets /\ hay \in Haystacks
    BY DEF Init
  <2>2. IsPatternSet(pats) /\ IsHaystack(hay)
    BY <2>1, FilteredAssumption DEF FilteredAssumption, IsSpelled
  <2> QED BY <2>1, <2>2 DEF IsHaystack
<1>1. maxUnits \in Nat /\ IsMaxUnits(pats, maxUnits)
  <2>1. \A id \in Ids(pats) : Len(pats[id]) \in Nat
    BY <1>0 DEF IsPatternSet, Ids
  <2> QED BY <2>1 DEF Init
<1>2. PICK lo \in 0..hay.n, hi \in 0..hay.n :
        /\ from = hay.off[lo] /\ to = hay.off[hi] /\ lo <= hi
        /\ \/ /\ phase = "dispatch" /\ from = 0 /\ to = Bytes(hay)
           \/ /\ phase = "region" /\ screen.asciiTriples /\ EmptyIds(pats) = {}
              /\ \A i \in from..(to - 1) : hay.bytes[i] \in Ascii \ {0}
  <2>1. CASE from = 0 /\ to = Bytes(hay) /\ phase = "dispatch"
    <3>1. 0 \in 0..hay.n /\ hay.n \in 0..hay.n /\ hay.off[0] = 0 /\ 0 <= hay.n
      BY <1>0 DEF IsHaystack
    <3> QED BY <2>1, <3>1 DEF Bytes
  <2>2. CASE /\ phase = "region" /\ screen.asciiTriples /\ EmptyIds(pats) = {}
             /\ from \in {hay.off[u] : u \in 0..hay.n}
             /\ to \in {hay.off[u] : u \in 0..hay.n}
             /\ to - from >= MinBytes
             /\ \A i \in from..(to - 1) : hay.bytes[i] \in Ascii \ {0}
    <3>1. PICK lo \in 0..hay.n, hi \in 0..hay.n : from = hay.off[lo] /\ to = hay.off[hi]
      BY <2>2
    <3>2. from <= to
      <4>1. MinBytes \in Nat
        BY FilteredAssumption DEF FilteredAssumption
      <4>2. from \in Nat /\ to \in Nat
        BY <1>0, <3>1, OffOrder
      <4> QED BY <2>2, <4>1, <4>2
    <3>3. lo <= hi
      BY <1>0, <3>1, <3>2, OffOrder
    <3> QED BY <2>2, <3>1, <3>3
  <2> QED BY <2>1, <2>2 DEF Init
<1>3. Lo = lo /\ Hi = hi
  BY <1>0, <1>2, UnitAtOff DEF Lo, Hi
<1>4. /\ at = from /\ state = <<>> /\ history = 0 /\ best = NoMatch
      /\ starts = [i \in 0..(RingLen - 1) |-> 0]
      /\ screen = ScreenOf(pats) /\ ~OpaqueContinuation(pats)
  BY DEF Init
<1>5. Typed
  <2>1. starts \in [0..(RingLen - 1) -> Nat] /\ history \in Nat
    BY <1>4
  <2>2. Lo \in 0..hay.n /\ Hi \in Lo..hay.n /\ from = hay.off[Lo] /\ to = hay.off[Hi]
    BY <1>0, <1>2, <1>3
  <2> QED BY <1>0, <1>1, <1>4, <2>1, <2>2 DEF Typed
<1>6. phase \in Phases /\ phase # "done" /\ (Looping => phase = "region")
  BY <1>2 DEF Phases, Looping
<1>7. Covered
  BY <1>2, <1>4 DEF Covered
<1>8. OnlyAscii
  BY <1>2 DEF OnlyAscii
<1>9. ASSUME phase = "region" PROVE InLoop
  <2>1. EmptyIds(pats) = {}
    BY <1>2, <1>9
  <2>2. PICK b, m : b = -1 /\ m = NoMatch
    OBVIOUS
  <2>3. IsBest(pats, Text, 0, b, m)
    BY <1>5, <2>1, <2>2, Scenery, BestAtStart
  <2>4. Scanned(from, <<>>, 0, b, m) /\ 0 \in 0..Text.n
    BY <1>5, <2>3, ScannedAtStart, TextEnds
  <2>5. m \in Answers(pats, Text) /\ b \in {-1} \cup 0..Text.n
    BY <1>5, <2>3, PlacedMatch
  <2>6. best = Placed(m)
    BY <1>4, <2>2 DEF Placed
  <2>7. at \in from..to /\ state \in Nodes(pats)
    <3>1. Off(0) <= to /\ Off(0) = from /\ from \in Nat /\ to \in Nat
      BY <1>5, <2>4, TextEnds, TextOff, Scenery
    <3> QED BY <1>4, <3>1 DEF Nodes
  <2> QED BY <1>4, <2>4, <2>5, <2>6, <2>7 DEF InLoop
<1> QED BY <1>5, <1>6, <1>7, <1>8, <1>9 DEF IInv

LEMMA StutterKeeps ==
  ASSUME IInv, UNCHANGED vars
  PROVE  IInv'
<1>0. /\ UNCHANGED args /\ phase' = phase /\ at' = at /\ state' = state
      /\ history' = history /\ starts' = starts /\ best' = best
  BY DEF vars
<1>1. Typed'
  <2>1. starts' \in [0..(RingLen - 1) -> Nat] /\ history' \in Nat
    BY <1>0 DEF IInv, Typed
  <2> QED BY <1>0, <2>1, TypedKept DEF IInv
<1>2. Covered' /\ OnlyAscii' /\ (phase \in Phases)' /\ (Looping' <=> Looping)
  BY <1>0, ArgsKept DEF IInv, Covered, OnlyAscii, Phases, Looping
<1>3. Looping => InLoop'
  <2> SUFFICES ASSUME Looping PROVE InLoop'
    OBVIOUS
  <2>1. InLoop
    BY DEF IInv
  <2>2. PICK r \in 0..Text.n, b \in {-1} \cup 0..Text.n, m \in Answers(pats, Text) :
          /\ Scanned(at, state, r, b, m) /\ best = Placed(m)
          /\ state # <<>> => at = Off(r) /\ Traced(state, history, starts, r)
    BY <2>1 DEF InLoop
  <2>3. at' \in from..to /\ state' \in Nodes(pats)
    BY <1>0, <2>1 DEF InLoop
  <2>4. /\ Scanned(at', state', r, b, m) /\ best' = Placed(m)
        /\ state' # <<>> => at' = Off(r) /\ Traced(state', history', starts', r)
    BY <1>0, <2>2
  <2> QED BY <1>0, <2>2, <2>3, <2>4, StaysInLoop
<1>4. phase' = "done" => Answered'
  <2> SUFFICES ASSUME phase = "done" PROVE Answered'
    BY <1>0
  <2>1. PICK m \in Answers(pats, Text) : IsAnswer(pats, Text, m) /\ best = Placed(m)
    BY DEF IInv, Answered
  <2>2. Placed(m)' = Placed(m)
    BY <1>0, ArgsKept DEF Placed
  <2> QED BY <1>0, <2>1, <2>2, ArgsKept DEF Answered
<1> QED BY <1>1, <1>2, <1>3, <1>4 DEF IInv

-----------------------------------------------------------------------------
\* The inductive invariant holds of every reachable state.
THEOREM Invariance == Spec => []IInv
<1>1. Init => IInv
  BY InitHolds
<1>2. IInv /\ [Next]_vars => IInv'
  BY DispatchKeeps, LeaveRootKeeps, StepKeeps, ReturnSettledKeeps, NothingFollowsKeeps,
     FinishKeeps, StutterKeeps DEF Next, Done
<1> QED BY <1>1, <1>2, PTL DEF Spec

-----------------------------------------------------------------------------
\* Where the scan stands at the start of a unit of the text.
LEMMA StandsAt ==
  ASSUME Typed, NEW r \in 0..Text.n, at = Off(r)
  PROVE  OnBoundary(at) /\ UnitAt(hay, at) = Lo + r
<1>1. Lo + r \in 0..hay.n
  BY TextOff
<1> QED BY <1>1, Scenery, UnitAtOff DEF OnBoundary, Off

\* What of an occurrence lies behind the scan is on the path to the state.
LEMMA NoneSkipped ==
  ASSUME IInv, Looping, NEW id \in Ids(pats), NEW u \in 0..hay.n, Occurs(pats, hay, id, u),
         NEW last, last = hay.off[u + Len(pats[id])],
         from <= hay.off[u], last <= to, hay.off[u] < at, at < last
  PROVE  OnBoundary(at) /\ UnitAt(hay, at) - u <= Len(state)
<1>0. Typed /\ InLoop
  BY DEF IInv
<1>1. PICK r \in 0..Text.n, b \in {-1} \cup 0..Text.n, m \in Answers(pats, Text) :
        Scanned(at, state, r, b, m)
  BY <1>0 DEF InLoop
<1>2. /\ Behind(at, r) /\ Closed(at, r) /\ Tracks(pats, Text, r, state)
  BY <1>1 DEF Scanned
<1>3. /\ Len(pats[id]) \in Nat /\ u + Len(pats[id]) \in 0..hay.n /\ u \in Nat
      /\ hay.off[u] \in Nat /\ last \in Nat /\ at \in Nat
  <2>1. Len(pats[id]) \in Nat /\ u + Len(pats[id]) <= hay.n /\ u \in Nat
    BY <1>0, Scenery DEF Occurs, IsPatternSet, Ids
  <2>2. u + Len(pats[id]) \in 0..hay.n
    BY <1>0, <2>1, Scenery
  <2>3. hay.off[u] \in Nat /\ last \in Nat
    BY <1>0, <2>2, Scenery, OffOrder
  <2>4. at \in Nat
    BY <1>0, Scenery DEF InLoop
  <2> QED BY <2>1, <2>2, <2>3, <2>4
<1>4. Lo <= u /\ u + Len(pats[id]) <= Hi
  BY <1>0, <1>3, Scenery, OffOrder
<1>a. PICK n \in Nat : n = Len(pats[id])
  BY <1>3
<1>b. PICK lo \in Nat, hi \in Nat : lo = Lo /\ hi = Hi /\ Text.n = hi - lo
  BY <1>0, Scenery
<1>c. lo <= u /\ u + n <= hi /\ u \in Nat
  BY <1>3, <1>4, <1>a, <1>b
<1>5. PICK w \in 0..Text.n : u = Lo + w /\ w + Len(pats[id]) <= Text.n
  <2>1. PICK w \in Nat : u = lo + w /\ w + n <= hi - lo /\ w <= hi - lo
    <3>1. u - lo \in Nat /\ u = lo + (u - lo) /\ (u - lo) + n <= hi - lo
          /\ u - lo <= hi - lo
      BY <1>c
    <3> QED BY <3>1
  <2>2. w \in 0..Text.n /\ u = Lo + w /\ w + Len(pats[id]) <= Text.n
    BY <1>a, <1>b, <2>1
  <2> QED BY <2>2
<1>6. PICK e \in 0..Text.n : e = w + Len(pats[id]) /\ Lo + e = u + Len(pats[id])
  <2>1. PICK x \in Nat : x = w + n
    <3>1. w \in Nat
      BY <1>b, <1>5
    <3> QED BY <3>1
  <2>2. x \in 0..Text.n /\ x = w + Len(pats[id])
    BY <1>a, <1>b, <1>5, <2>1
  <2>3. lo + x = u + n
    BY <1>b, <1>5, <2>1
  <2>4. Lo + x = u + Len(pats[id])
    BY <1>a, <1>b, <2>3
  <2> QED BY <2>2, <2>4
<1>7. Off(w) = hay.off[u] /\ Off(e) = last
  BY <1>5, <1>6 DEF Off
<1>8. Occurs(pats, Text, id, w)
  <2>1. Lo \in 0..Hi /\ w \in Nat
    BY <1>0, <1>5, Scenery
  <2> QED BY <1>0, <1>4, <1>5, <2>1, Scenery, PartOccurs DEF Text
<1>9. pats[id] # <<>>
  <2> SUFFICES ASSUME pats[id] = <<>> PROVE FALSE
    OBVIOUS
  <2>1. e = w
    BY <1>0, <1>5, <1>6, Scenery
  <2> QED BY <1>3, <1>7, <2>1
<1>10. w < r /\ w \in 0..(r - 1)
  <2>1. Off(w) < Off(r) /\ Off(r) \in Nat
    BY <1>0, <1>1, <1>2, <1>3, <1>7, TextOff DEF Behind
  <2>2. w < r
    BY <1>0, <1>1, <1>5, <2>1, OffGrows
  <2> QED BY <1>0, <1>1, <1>5, <2>2, Scenery
<1>11. at = Off(r)
  <2> SUFFICES ASSUME at < Off(r) PROVE FALSE
    <3>1. at <= Off(r) /\ Off(r) \in Nat
      BY <1>0, <1>1, <1>2, TextOff DEF Behind
    <3> QED BY <1>3, <3>1
  <2>1. e < r
    BY <1>2, <1>6, <1>8, <1>9, <1>10 DEF Closed
  <2>2. e \in 0..(r - 1)
    BY <1>0, <1>1, <1>6, <2>1, Scenery
  <2>3. Off(e) < at
    BY <1>2, <2>2 DEF Behind
  <2> QED BY <1>3, <1>7, <2>3
<1>12. r < e
  BY <1>0, <1>1, <1>6, <1>7, <1>11, OffGrows
<1>13. r - w <= Len(state)
  BY <1>2, <1>5, <1>6, <1>8, <1>10, <1>12 DEF Tracks
<1>14. OnBoundary(at) /\ UnitAt(hay, at) = Lo + r
  BY <1>0, <1>1, <1>11, StandsAt
<1>15. (Lo + r) - u = r - w
  BY <1>0, <1>1, <1>5, Scenery
<1> QED BY <1>13, <1>14, <1>15

\* No screen passes over the first byte of a match, and what has been read of
\* one is on the path to the state; the scan stays inside its region.
THEOREM NoMatchSkipped == Spec => []SkipsNoMatch
<1>1. IInv => SkipsNoMatch
  <2> SUFFICES ASSUME IInv, Looping PROVE SkipsNoMatch
    BY DEF SkipsNoMatch
  <2>1. at \in from..to
    BY DEF IInv, InLoop
  <2> QED BY <2>1, NoneSkipped DEF SkipsNoMatch
<1> QED BY <1>1, Invariance, PTL

\* The ring has the start of every unit on the path, whatever its length.
THEOREM StartsKnown == Spec => []RingKnowsStarts
<1>1. IInv => RingKnowsStarts
  <2> SUFFICES ASSUME IInv, Looping, state # <<>> PROVE RingKnowsStarts
    BY DEF RingKnowsStarts
  <2>0. Typed /\ InLoop
    BY DEF IInv
  <2>1. PICK r \in 0..Text.n : at = Off(r) /\ Traced(state, history, starts, r)
    BY <2>0 DEF InLoop
  <2>2. OnBoundary(at) /\ UnitAt(hay, at) = Lo + r
    BY <2>0, <2>1, StandsAt
  <2>3. ASSUME NEW k \in 1..Len(state)
        PROVE  starts[(history - k) % RingLen] = hay.off[UnitAt(hay, at) - k]
    <3>1. starts[(history - k) % RingLen] = Off(r - k)
      BY <2>1 DEF Traced
    <3>2. k \in Int
      <4>1. Len(state) \in Nat
        BY <2>0, NodeLength DEF InLoop
      <4> QED BY <4>1
    <3>3. Lo + (r - k) = (Lo + r) - k
      BY <2>0, <2>1, <3>2, Scenery
    <3> QED BY <2>2, <3>1, <3>3 DEF Off
  <2>4. Len(state) <= history
    BY <2>1 DEF Traced
  <2> QED BY <2>2, <2>3, <2>4 DEF RingKnowsStarts
<1> QED BY <1>1, Invariance, PTL

-----------------------------------------------------------------------------
\* The contract's vocabulary is that of the executors.
LEMMA SameVocabulary ==
  /\ Contract!IsPatternSet(pats) <=> IsPatternSet(pats)
  /\ Contract!IsHaystack(Text) <=> IsHaystack(Text)
  /\ Contract!Answers(pats, Text) = Answers(pats, Text)
  /\ \A m : Contract!IsAnswer(pats, Text, m) <=> IsAnswer(pats, Text, m)
<1>1. Contract!IsPatternSet(pats) <=> IsPatternSet(pats)
  BY DEF Contract!IsPatternSet, IsPatternSet, Contract!Token, Token
<1>2. Contract!IsHaystack(Text) <=> IsHaystack(Text)
  BY DEF Contract!IsHaystack, IsHaystack
<1>3. Contract!Answers(pats, Text) = Answers(pats, Text)
  BY DEF Contract!Answers, Answers, Contract!NoMatch, NoMatch, Contract!Ids, Ids
<1>4. \A m : Contract!IsAnswer(pats, Text, m) <=> IsAnswer(pats, Text, m)
  BY DEF Contract!IsAnswer, IsAnswer, Contract!NoMatch, NoMatch, Contract!Ids, Ids,
         Contract!Occurs, Occurs, Contract!Before, Before
<1> QED BY <1>1, <1>2, <1>3, <1>4

\* Counted from the start of the text, a match placed in the haystack is the
\* text's.
LEMMA ShiftedBack ==
  ASSUME Typed, NEW m, IsAnswer(pats, Text, m), NEW x, x = Placed(m)
  PROVE  (IF x = NoMatch THEN NoMatch ELSE [x EXCEPT !.start = @ - from]) = m
<1>1. CASE m = NoMatch
  BY <1>1 DEF Placed
<1>2. CASE m # NoMatch
  <2>1. PICK id \in Ids(pats), u \in 0..Text.n : m = [pattern |-> id, start |-> Text.off[u]]
    BY <1>2 DEF IsAnswer
  <2>2. /\ Text.off[u] + from = Off(u) /\ Off(u) - from = Text.off[u]
        /\ Off(u) \in Nat
    BY <2>1, TextOff
  <2>3. x = [pattern |-> id, start |-> Off(u)]
    BY <1>2, <2>1, <2>2 DEF Placed
  <2>4. x # NoMatch
    BY <2>2, <2>3 DEF NoMatch
  <2>5. [x EXCEPT !.start = @ - from] = [pattern |-> id, start |-> Off(u) - from]
    BY <2>3
  <2> QED BY <2>1, <2>2, <2>4, <2>5
<1> QED BY <1>1, <1>2

\* A search that is not done has not answered; the step that ends it replies.
LEMMA RepliesOnce ==
  ASSUME IInv, IInv', [Next]_vars, phase # "done", phase' = "done"
  PROVE  Contract!Reply
<1>1. UNCHANGED args
  BY DEF Next, vars, Dispatch, LeaveRoot, Step, Consume, ReturnSettled, NothingFollows,
         Finish, Return, Done
<1>2. PICK m : /\ IsAnswer(pats, Text, m)
               /\ (IF best' = NoMatch THEN NoMatch
                   ELSE [best' EXCEPT !.start = @ - from]) = m
  <2>1. PICK m : (IsAnswer(pats, Text, m) /\ best = Placed(m))'
    BY DEF IInv, Answered
  <2>2. IsAnswer(pats, Text, m) /\ best' = Placed(m)
    BY <1>1, <2>1 DEF args, Placed, Text, Lo, Hi
  <2>3. Typed
    BY DEF IInv
  <2> QED BY <2>2, <2>3, ShiftedBack
<1>3. m \in Answers(pats, Text)
  BY <1>2, AnswerTyped
<1> QED BY <1>1, <1>2, <1>3, SameVocabulary
     DEF Contract!Reply, Text, Lo, Hi, args

\* The executor implements the contract of Find: in the end the best match is
\* the leftmost one of lowest index, of the haystack or of the region.
THEOREM Refinement == Spec => ImplementsFind
<1>1. IInv /\ Init => Contract!Init
  <2> SUFFICES ASSUME IInv, Init PROVE Contract!Init
    OBVIOUS
  <2>1. phase # "done"
    BY DEF Init
  <2>2. Typed
    BY DEF IInv
  <2>3. Contract!IsPatternSet(pats) /\ Contract!IsHaystack(Text)
    BY <2>2, Scenery, SameVocabulary
  <2> QED BY <2>1, <2>3 DEF Contract!Init, Text, Lo, Hi
<1>2. IInv /\ IInv' /\ [Next]_vars => [Contract!Reply]_(Contract!vars)
  <2> SUFFICES ASSUME IInv, IInv', [Next]_vars PROVE [Contract!Reply]_(Contract!vars)
    OBVIOUS
  <2>1. CASE phase # "done" /\ phase' = "done"
    BY <2>1, RepliesOnce
  <2>2. CASE phase # "done" /\ phase' # "done"
    <3>1. UNCHANGED args
      BY DEF Next, vars, Dispatch, LeaveRoot, Step, Consume, ReturnSettled, NothingFollows,
             Finish, Return, Done
    <3> QED BY <2>2, <3>1 DEF Contract!vars, args
  <2>3. CASE phase = "done"
    <3>1. UNCHANGED vars
      BY <2>3 DEF Next, vars, Dispatch, LeaveRoot, Step, ReturnSettled, NothingFollows,
                  Finish, Looping, Done
    <3> QED BY <2>3, <3>1 DEF Contract!vars, vars, args
  <2> QED BY <2>1, <2>2, <2>3
<1>3. Contract!Init /\ [][Contract!Reply]_(Contract!vars) => Contract!Spec
  BY DEF Contract!Spec
<1> QED BY <1>1, <1>2, <1>3, Invariance, PTL DEF Spec, ImplementsFind
=============================================================================
