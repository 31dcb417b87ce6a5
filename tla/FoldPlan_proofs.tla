-------------------------- MODULE FoldPlan_proofs ---------------------------
(***************************************************************************)
(* Facts about the compiled plan that the proofs of every executor cite:   *)
(* what a step of the automaton keeps of the text, and what its output is. *)
(***************************************************************************)
EXTENDS FoldPlan, SequenceTheorems, WellFoundedInduction, TLAPS

\* Every set of naturals with an element has a least one: induction over units.
LEMMA Least ==
  ASSUME NEW S \in SUBSET Nat, S # {}
  PROVE  \E x \in S : \A y \in S : x <= y
<1>1. PICK x \in S : \A y \in S : ~(<<y, x>> \in OpToRel(<, Nat))
  BY NatLessThanWellFounded, WFMin
<1>2. ASSUME NEW y \in S PROVE x <= y
  <2>1. ~(y < x)
    BY <1>1, <1>2 DEF OpToRel
  <2> QED BY <2>1
<1> QED BY <1>2

\* f is the run of a loop of n rounds that carries a value.
IsIteration(V, start, round, n, f) ==
  /\ f \in [0..n -> V] /\ f[0] = start
  /\ \A i \in 1..n : f[i] = round[<<i, f[i - 1]>>]

\* There is one: what a recursive function over the rounds defines exists.
LEMMA RunExists ==
  ASSUME NEW V, NEW start \in V, NEW n \in Nat, NEW round \in [(1..n) \X V -> V]
  PROVE  \E f : IsIteration(V, start, round, n, f)
<1> DEFINE Without == {k \in 0..n : ~\E f : IsIteration(V, start, round, k, f)}
<1> SUFFICES ASSUME ~\E f : IsIteration(V, start, round, n, f) PROVE FALSE
  OBVIOUS
<1>1. PICK k \in Without : \A j \in Without : k <= j
  <2>1. n \in 0..n
    OBVIOUS
  <2>2. Without \in SUBSET Nat /\ Without # {}
    BY <2>1
  <2> HIDE DEF Without
  <2> QED BY <2>2, Least
<1>2. k \in 0..n /\ ~\E f : IsIteration(V, start, round, k, f)
  OBVIOUS
<1>3. k # 0
  <2> DEFINE f == [i \in 0..0 |-> start]
  <2>1. f \in [0..0 -> V] /\ f[0] = start /\ 1..0 = {}
    OBVIOUS
  <2>2. IsIteration(V, start, round, 0, f)
    BY <2>1 DEF IsIteration
  <2> QED BY <1>2, <2>2
<1>4. PICK f : IsIteration(V, start, round, k - 1, f)
  <2>1. k - 1 \in 0..n /\ ~(k <= k - 1)
    BY <1>2, <1>3
  <2>2. k - 1 \notin Without
    BY <1>1, <2>1
  <2> QED BY <2>1, <2>2
<1> HIDE DEF Without
<1> DEFINE last == round[<<k, f[k - 1]>>]
           g == [i \in 0..k |-> IF i = k THEN last ELSE f[i]]
<1>5. k \in 1..n /\ f[k - 1] \in V /\ last \in V
  BY <1>2, <1>3, <1>4 DEF IsIteration
<1> HIDE DEF last
<1>6. \A i \in 0..(k - 1) : g[i] = f[i] /\ f[i] \in V
  BY <1>4, <1>5 DEF IsIteration
<1>7. g \in [0..k -> V] /\ g[k] = last /\ g[0] = start
  <2>1. g \in [0..k -> V]
    <3>1. ASSUME NEW i \in 0..k PROVE (IF i = k THEN last ELSE f[i]) \in V
      <4>1. CASE i = k
        BY <1>5, <4>1
      <4>2. CASE i # k
        <5>1. i \in 0..(k - 1)
          BY <1>5, <4>2
        <5> QED BY <1>6, <4>2, <5>1
      <4> QED BY <4>1, <4>2
    <3> QED BY <3>1
  <2>2. 0 \in 0..(k - 1) /\ k \in 0..k
    BY <1>5
  <2>3. g[0] = f[0]
    BY <1>6, <2>2
  <2> QED BY <1>4, <2>1, <2>2, <2>3 DEF IsIteration
<1> HIDE DEF g
<1>8. ASSUME NEW i \in 1..k PROVE g[i] = round[<<i, g[i - 1]>>]
  <2>1. CASE i = k
    <3>1. k - 1 \in 0..(k - 1)
      BY <1>5
    <3> QED BY <1>6, <1>7, <2>1, <3>1 DEF last
  <2>2. CASE i # k
    <3>1. i \in 1..(k - 1) /\ i \in 0..(k - 1) /\ i - 1 \in 0..(k - 1)
      BY <1>5, <2>2
    <3> QED BY <1>4, <1>6, <3>1 DEF IsIteration
  <2> QED BY <2>1, <2>2
<1>9. IsIteration(V, start, round, k, g)
  BY <1>7, <1>8 DEF IsIteration
<1> QED BY <1>2, <1>9

\* A node is a sequence of tokens.
LEMMA NodesAreSeqs ==
  ASSUME NEW pats, IsPatternSet(pats), NEW s \in Nodes(pats)
  PROVE  s \in Seq(Token)
<1>1. CASE s = <<>>
  BY <1>1
<1>2. ASSUME NEW id \in Ids(pats), NEW k \in 1..Len(pats[id]),
             s = SubSeq(pats[id], 1, k)
      PROVE  s \in Seq(Token)
  <2>1. pats[id] \in Seq(Token)
    BY DEF IsPatternSet, Ids
  <2> QED BY <1>2, <2>1, SubSeqProperties
<1> QED BY <1>1, <1>2 DEF Nodes

\* Every non-empty prefix of a pattern is a node.
LEMMA PrefixIsNode ==
  ASSUME NEW pats, IsPatternSet(pats), NEW id \in Ids(pats),
         NEW k \in 1..Len(pats[id])
  PROVE  /\ SubSeq(pats[id], 1, k) \in Nodes(pats)
         /\ SubSeq(pats[id], 1, k) \in Seq(Token)
         /\ Len(SubSeq(pats[id], 1, k)) = k
         /\ \A i \in 1..k : SubSeq(pats[id], 1, k)[i] = pats[id][i]
<1>1. pats[id] \in Seq(Token)
  BY DEF IsPatternSet, Ids
<1>2. SubSeq(pats[id], 1, k) \in Nodes(pats)
  BY DEF Nodes
<1> QED BY <1>1, <1>2, SubSeqProperties

-----------------------------------------------------------------------------
\* The node holds the part read of every occurrence that unit u is in.
Covers(pats, h, u, node) ==
  \A id \in Ids(pats), start \in 0..u :
    Occurs(pats, h, id, start) /\ u < start + Len(pats[id])
      => u + 1 - start <= Len(node)

(***************************************************************************)
(* One step of the automaton over unit u: the new node still ends the text *)
(* read, and holds the part read of every occurrence that unit u is in.    *)
(***************************************************************************)
LEMMA AdvanceTracks ==
  ASSUME NEW pats, IsPatternSet(pats), NEW h, IsHaystack(h),
         NEW u \in 0..(h.n - 1),
         NEW state \in Nodes(pats), EndsText(h, u, state), Tracks(pats, h, u, state),
         NEW next \in Nodes(pats), IsAdvance(pats, state, h.tok[u], next)
  PROVE  EndsText(h, u + 1, next) /\ Covers(pats, h, u, next)
<1>0. /\ state \in Seq(Token) /\ next \in Seq(Token)
      /\ h.n \in Nat /\ h.tok[u] \in Nat
  BY NodesAreSeqs DEF IsHaystack
<1>1. CASE h.tok[u] = 0
  <2>1. next = <<>>
    BY <1>1 DEF IsAdvance
  <2>2. EndsText(h, u + 1, next)
    BY <1>0, <2>1 DEF EndsText
  <2>3. ASSUME NEW id \in Ids(pats), NEW start \in 0..u,
               Occurs(pats, h, id, start), u < start + Len(pats[id])
        PROVE  FALSE
    <3>1. pats[id] \in Seq(Token)
      BY DEF IsPatternSet, Ids
    <3>2. (u - start + 1) \in 1..Len(pats[id])
      BY <1>0, <2>3, <3>1
    <3>3. h.tok[start + (u - start + 1) - 1] = pats[id][u - start + 1]
      BY <2>3, <3>2 DEF Occurs
    <3>4. start + (u - start + 1) - 1 = u
      BY <1>0
    <3>5. pats[id][u - start + 1] \in Token
      BY <3>1, <3>2
    <3> QED BY <1>1, <3>3, <3>4, <3>5 DEF Token
  <2> QED BY <2>2, <2>3 DEF Covers
<1>2. CASE h.tok[u] # 0
  <2> DEFINE t == Append(state, h.tok[u])
  <2>0. h.tok[u] \in Token
    BY <1>0, <1>2 DEF Token
  <2>1. /\ t \in Seq(Token)
        /\ Len(t) = Len(state) + 1
        /\ \A i \in 1..Len(state) : t[i] = state[i]
        /\ t[Len(state) + 1] = h.tok[u]
    BY <1>0, <2>0, AppendProperties
  <2>2. /\ EndsWith(t, next)
        /\ \A s \in Nodes(pats) : EndsWith(t, s) => Len(s) <= Len(next)
    BY <1>2 DEF IsAdvance
  <2>3. \A i \in 1..Len(t) : t[i] = h.tok[(u + 1) - Len(t) + i - 1]
    <3> SUFFICES ASSUME NEW i \in 1..Len(t)
                 PROVE  t[i] = h.tok[(u + 1) - Len(t) + i - 1]
      OBVIOUS
    <3>1. CASE i = Len(state) + 1
      <4>1. (u + 1) - Len(t) + i - 1 = u
        BY <1>0, <2>1, <3>1
      <4> QED BY <2>1, <3>1, <4>1
    <3>2. CASE i \in 1..Len(state)
      <4>1. (u + 1) - Len(t) + i - 1 = u - Len(state) + i - 1
        BY <1>0, <2>1
      <4>2. state[i] = h.tok[u - Len(state) + i - 1]
        BY <3>2 DEF EndsText
      <4> QED BY <2>1, <3>2, <4>1, <4>2
    <3> QED BY <1>0, <2>1, <3>1, <3>2
  <2>4. Len(t) <= u + 1
    BY <1>0, <2>1 DEF EndsText
  <2>5. EndsText(h, u + 1, next)
    <3>1. Len(next) <= Len(t)
      BY <2>2 DEF EndsWith
    <3>2. ASSUME NEW i \in 1..Len(next)
          PROVE  next[i] = h.tok[(u + 1) - Len(next) + i - 1]
      <4>1. next[i] = t[Len(t) - Len(next) + i]
        BY <2>2, <3>2 DEF EndsWith
      <4>2. (Len(t) - Len(next) + i) \in 1..Len(t)
        BY <1>0, <2>1, <3>1, <3>2
      <4>3. (u + 1) - Len(t) + (Len(t) - Len(next) + i) - 1 = (u + 1) - Len(next) + i - 1
        BY <1>0, <2>1, <3>2
      <4> QED BY <2>3, <4>1, <4>2, <4>3
    <3> QED BY <1>0, <2>1, <2>4, <3>1, <3>2 DEF EndsText
  <2>6. ASSUME NEW id \in Ids(pats), NEW start \in 0..u,
               Occurs(pats, h, id, start), u < start + Len(pats[id])
        PROVE  u + 1 - start <= Len(next)
    <3> DEFINE k == u + 1 - start
               s == SubSeq(pats[id], 1, k)
    <3>1. pats[id] \in Seq(Token)
      BY DEF IsPatternSet, Ids
    <3>2. k \in 1..Len(pats[id])
      BY <1>0, <2>6, <3>1
    <3>3. /\ s \in Nodes(pats) /\ Len(s) = k
          /\ \A i \in 1..k : s[i] = pats[id][i]
      BY <3>2, PrefixIsNode
    <3>4. k <= Len(t)
      <4>1. CASE start = u
        BY <1>0, <2>1, <4>1
      <4>2. CASE start < u
        <5>1. start \in 0..h.n
          BY <1>0
        <5>2. u - start <= Len(state)
          BY <2>6, <4>2, <5>1 DEF Tracks
        <5> QED BY <1>0, <2>1, <5>2
      <4> QED BY <1>0, <4>1, <4>2
    <3>5. ASSUME NEW i \in 1..k PROVE s[i] = t[Len(t) - k + i]
      <4>0. Len(t) \in Nat /\ k \in Nat /\ i \in Nat /\ 1 <= i /\ i <= k
        BY <1>0, <2>1, <3>1, <3>2, <3>5
      <4>1. (Len(t) - k + i) \in 1..Len(t)
        <5> HIDE DEF k
        <5> QED BY <3>4, <4>0
      <4>2. (u + 1) - Len(t) + (Len(t) - k + i) - 1 = start + i - 1
        <5>1. (u + 1) - Len(t) + (Len(t) - k + i) - 1 = (u + 1) - k + i - 1
          <6> HIDE DEF k
          <6> QED BY <1>0, <4>0
        <5>2. (u + 1) - k = start
          BY <1>0
        <5> QED BY <5>1, <5>2
      <4>3. i \in 1..Len(pats[id])
        BY <3>1, <3>2, <3>5
      <4>4. h.tok[start + i - 1] = pats[id][i]
        BY <2>6, <4>3 DEF Occurs
      <4> QED BY <2>3, <3>3, <3>5, <4>1, <4>2, <4>4
    <3>6. EndsWith(t, s)
      BY <3>3, <3>4, <3>5 DEF EndsWith
    <3> QED BY <2>2, <3>3, <3>6
  <2> QED BY <2>5, <2>6 DEF Covers
<1> QED BY <1>1, <1>2

LEMMA CoversTracks ==
  ASSUME NEW pats, IsPatternSet(pats), NEW h, IsHaystack(h),
         NEW u \in 0..(h.n - 1), NEW node, Covers(pats, h, u, node)
  PROVE  Tracks(pats, h, u + 1, node)
<1> SUFFICES ASSUME NEW id \in Ids(pats), NEW b \in 0..h.n,
                    Occurs(pats, h, id, b), b < u + 1, u + 1 < b + Len(pats[id])
             PROVE  u + 1 - b <= Len(node)
  BY DEF Tracks
<1>1. Len(pats[id]) \in Nat
  BY DEF IsPatternSet, Ids
<1>2. b \in 0..u /\ u < b + Len(pats[id])
  BY <1>1
<1> QED BY <1>2 DEF Covers

-----------------------------------------------------------------------------
(***************************************************************************)
(* The output of a node that ends the text at e is an occurrence that ends *)
(* at e.                                                                   *)
(***************************************************************************)
LEMMA OutputOccurs ==
  ASSUME NEW pats, IsPatternSet(pats), NEW h, IsHaystack(h), NEW e \in 0..h.n,
         NEW node \in Nodes(pats), EndsText(h, e, node),
         NEW out, IsOutput(pats, node, out), out.pattern >= 0
  PROVE  /\ out.pattern \in Ids(pats)
         /\ out.units = Len(pats[out.pattern])
         /\ out.units \in 1..e
         /\ Occurs(pats, h, out.pattern, e - out.units)
<1>0. /\ node \in Seq(Token)
      /\ h.n \in Nat
  BY NodesAreSeqs DEF IsHaystack
<1>1. PICK id \in Ids(pats) : /\ out = [pattern |-> id, units |-> Len(pats[id])]
                              /\ EndsHere(pats, node, id)
  BY DEF IsOutput, NoOutput
<1>2. pats[id] \in Seq(Token) /\ pats[id] # <<>>
  BY <1>1 DEF IsPatternSet, Ids, EndsHere
<1>3. Len(pats[id]) \in 1..e
  <2>1. Len(pats[id]) # 0
    BY <1>2
  <2>2. Len(pats[id]) <= Len(node)
    BY <1>1 DEF EndsHere, EndsWith
  <2> QED BY <1>0, <1>2, <2>1, <2>2 DEF EndsText
<1>4. ASSUME NEW i \in 1..Len(pats[id])
      PROVE  h.tok[e - Len(pats[id]) + i - 1] = pats[id][i]
  <2>1. pats[id][i] = node[Len(node) - Len(pats[id]) + i]
    BY <1>1 DEF EndsHere, EndsWith
  <2>2. Len(pats[id]) <= Len(node)
    BY <1>1 DEF EndsHere, EndsWith
  <2>3. (Len(node) - Len(pats[id]) + i) \in 1..Len(node)
    BY <1>0, <1>2, <2>2
  <2>4. e - Len(node) + (Len(node) - Len(pats[id]) + i) - 1 = e - Len(pats[id]) + i - 1
    BY <1>0, <1>2
  <2> QED BY <2>1, <2>3, <2>4 DEF EndsText
<1>5. Occurs(pats, h, id, e - Len(pats[id]))
  <2>1. e - Len(pats[id]) + Len(pats[id]) <= h.n
    BY <1>0, <1>2
  <2> QED BY <1>4, <2>1 DEF Occurs
<1> QED BY <1>1, <1>3, <1>5

(***************************************************************************)
(* It is preferred to every occurrence that ends at e and that the node    *)
(* holds: the longest one starts first, equal ones have the higher index.  *)
(***************************************************************************)
LEMMA OutputIsBest ==
  ASSUME NEW pats, IsPatternSet(pats), NEW h, IsHaystack(h), NEW e \in 0..h.n,
         NEW node \in Nodes(pats), EndsText(h, e, node),
         NEW out, IsOutput(pats, node, out),
         NEW id \in Ids(pats), pats[id] # <<>>,
         Len(pats[id]) <= Len(node),
         NEW start \in 0..h.n, start + Len(pats[id]) = e, Occurs(pats, h, id, start),
         NEW su, su = e - out.units
  PROVE  out.pattern >= 0 /\ Before(su, out.pattern, start, id)
<1>0. /\ node \in Seq(Token)
      /\ pats[id] \in Seq(Token)
      /\ h.n \in Nat
      /\ Ids(pats) \subseteq Nat
  BY NodesAreSeqs DEF IsHaystack, IsPatternSet, Ids
<1>1. ASSUME NEW i \in 1..Len(pats[id])
      PROVE  pats[id][i] = node[Len(node) - Len(pats[id]) + i]
  <2>1. (Len(node) - Len(pats[id]) + i) \in 1..Len(node)
    BY <1>0
  <2>2. e - Len(node) + (Len(node) - Len(pats[id]) + i) - 1 = start + i - 1
    <3>1. e \in Int /\ Len(node) \in Int /\ Len(pats[id]) \in Int /\ i \in Int
      BY <1>0
    <3>2. e - Len(node) + (Len(node) - Len(pats[id]) + i) - 1 = e - Len(pats[id]) + i - 1
      BY <3>1
    <3>3. e - Len(pats[id]) = start
      BY <3>1
    <3> QED BY <3>2, <3>3
  <2>3. h.tok[start + i - 1] = pats[id][i]
    BY DEF Occurs
  <2> QED BY <2>1, <2>2, <2>3 DEF EndsText
<1>2. EndsHere(pats, node, id)
  BY <1>1 DEF EndsHere, EndsWith
<1>3. PICK best \in Ids(pats) :
        /\ out = [pattern |-> best, units |-> Len(pats[best])]
        /\ \/ Len(pats[id]) < Len(pats[best])
           \/ Len(pats[id]) = Len(pats[best]) /\ best <= id
  BY <1>2 DEF IsOutput
<1>4. pats[best] \in Seq(Token)
  BY DEF IsPatternSet, Ids
<1>5. out.pattern = best /\ out.units = Len(pats[best])
  BY <1>3
<1>6. Before(su, best, start, id)
  <2>1. e \in Nat /\ Len(pats[best]) \in Nat /\ Len(pats[id]) \in Nat
    BY <1>0, <1>4
  <2>2. su = e - Len(pats[best])
    BY <1>5
  <2>3. su < start \/ (su = start /\ best <= id)
    BY <1>3, <2>1, <2>2
  <2> QED BY <2>3 DEF Before
<1> QED BY <1>0, <1>5, <1>6

\* Offsets are bytes of the haystack and grow with the unit.
LEMMA OffTyped ==
  ASSUME NEW h, IsHaystack(h), NEW u \in 0..h.n
  PROVE  /\ h.off[u] \in 0..Bytes(h)
         /\ h.off[u] = Bytes(h) => u = h.n
<1>1. h.n \in Nat /\ h.n \in 0..h.n /\ u \in Nat
  BY DEF IsHaystack
<1>2. h.off[u] \in Nat /\ h.off[h.n] \in Nat
  BY <1>1 DEF IsHaystack
<1>3. CASE u = h.n
  BY <1>2, <1>3 DEF Bytes
<1>4. CASE u < h.n
  <2>1. h.off[u] < h.off[h.n]
    BY <1>1, <1>4 DEF IsHaystack
  <2> QED BY <1>2, <2>1 DEF Bytes
<1> QED BY <1>1, <1>3, <1>4

\* Units are of one byte at least.
LEMMA UnitsHaveBytes ==
  ASSUME NEW h, IsHaystack(h), NEW u \in 0..h.n, NEW k \in Nat, u + k <= h.n
  PROVE  h.off[u + k] \in Nat /\ h.off[u] \in Nat /\ h.off[u + k] >= h.off[u] + k
<1>0. h.n \in Nat /\ \A v \in 0..h.n : h.off[v] \in Nat
  BY DEF IsHaystack
<1>1. \A i \in 0..k : u + i \in 0..h.n
  BY <1>0
<1> DEFINE Short == {i \in 0..k : ~(h.off[u + i] >= h.off[u] + i)}
<1>2. Short = {}
  <2> SUFFICES ASSUME Short # {} PROVE FALSE
    OBVIOUS
  <2>1. PICK i \in Short : \A j \in Short : i <= j
    <3>1. Short \in SUBSET Nat
      OBVIOUS
    <3> HIDE DEF Short
    <3> QED BY <3>1, Least
  <2>2. i \in 0..k /\ ~(h.off[u + i] >= h.off[u] + i)
    OBVIOUS
  <2>3. i # 0
    <3>1. u + 0 = u /\ h.off[u] >= h.off[u] + 0
      BY <1>0
    <3> QED BY <2>2, <3>1
  <2>4. i - 1 \in 0..k /\ ~(i <= i - 1) /\ u + (i - 1) < u + i
    BY <2>2, <2>3
  <2>5. h.off[u + (i - 1)] >= h.off[u] + (i - 1)
    BY <2>1, <2>4
  <2>6. h.off[u + (i - 1)] < h.off[u + i]
    BY <1>1, <2>2, <2>4 DEF IsHaystack
  <2>7. h.off[u + (i - 1)] \in Nat /\ h.off[u + i] \in Nat /\ h.off[u] \in Nat
    BY <1>0, <1>1, <2>2, <2>4
  <2> QED BY <2>2, <2>5, <2>6, <2>7
<1>3. k \in 0..k /\ k \notin Short
  BY <1>2
<1> QED BY <1>0, <1>1, <1>3

\* Every unit boundary has an offset of its own.
LEMMA UnitAtOff ==
  ASSUME NEW h, IsHaystack(h), NEW u \in 0..h.n
  PROVE  UnitAt(h, h.off[u]) = u
<1>1. \A v \in 0..h.n : h.off[v] = h.off[u] => v = u
  <2>1. \A v \in 0..h.n : v # u => h.off[v] < h.off[u] \/ h.off[u] < h.off[v]
    BY DEF IsHaystack
  <2> QED BY <2>1 DEF IsHaystack
<1> QED BY <1>1 DEF UnitAt

\* Inside a run of ASCII bytes the unit grows with the offset.
LEMMA AsciiRun ==
  ASSUME NEW h, IsHaystack(h), NEW e \in 0..h.n,
         \A u \in 0..e : h.off[u] = u,
         NEW f \in 0..h.n,
         \A v \in e..(f - 1) : h.ascii[v]
  PROVE  \A u \in 0..f : h.off[u] = u
<1>0. h.n \in Nat
  BY DEF IsHaystack
<1> SUFFICES ASSUME NEW w \in 0..f, h.off[w] # w
             PROVE  FALSE
  OBVIOUS
<1> DEFINE Wrong == {u \in 0..f : h.off[u] # u}
<1>1. PICK u \in Wrong : \A v \in Wrong : u <= v
  <2>1. Wrong \in SUBSET Nat /\ Wrong # {}
    BY <1>0
  <2> QED BY <2>1, Least
<1>2. u \in 0..f /\ h.off[u] # u
  OBVIOUS
<1>3. e < u
  BY <1>0, <1>2
<1>4. PICK v \in e..(f - 1) : u = v + 1
  <2>1. u - 1 \in e..(f - 1) /\ u = (u - 1) + 1
    BY <1>0, <1>2, <1>3
  <2> QED BY <2>1
<1>5. h.off[v] = v
  <2>1. v \in 0..f /\ v < u
    BY <1>0, <1>4
  <2>2. v \notin Wrong
    BY <1>0, <1>1, <2>1
  <2> QED BY <2>1, <2>2
<1>6. h.off[v + 1] = h.off[v] + 1
  <2>1. v \in 0..(h.n - 1)
    BY <1>0, <1>4
  <2>2. h.ascii[v]
    BY <1>4
  <2> QED BY <2>1, <2>2 DEF IsHaystack
<1> QED BY <1>2, <1>4, <1>5, <1>6

-----------------------------------------------------------------------------
(***************************************************************************)
(* The best of the occurrences seen is the answer once the haystack is     *)
(* read, and as soon as any later end belongs to a later start.            *)
(***************************************************************************)
LEMMA BestAtEnd ==
  ASSUME NEW pats, IsPatternSet(pats), NEW h, IsHaystack(h),
         NEW b, NEW m, IsBest(pats, h, h.n, b, m)
  PROVE  IsAnswer(pats, h, m)
<1>0. h.n \in Nat /\ Ids(pats) \subseteq Nat
  BY DEF IsHaystack, IsPatternSet, Ids
<1>1. ASSUME NEW id \in Ids(pats), NEW u \in 0..h.n, Occurs(pats, h, id, u)
      PROVE  Ended(pats, h, h.n, id, IF pats[id] = <<>> THEN 0 ELSE u)
  <2>1. CASE pats[id] = <<>>
    BY <1>0, <2>1 DEF Ended, Occurs
  <2>2. CASE pats[id] # <<>>
    BY <1>1, <2>2 DEF Ended, Occurs
  <2> QED BY <2>1, <2>2
<1>2. CASE /\ b = -1 /\ m = NoMatch
           /\ \A id \in Ids(pats), u \in 0..h.n : ~Ended(pats, h, h.n, id, u)
  <2>1. \A id \in Ids(pats), u \in 0..h.n : ~Occurs(pats, h, id, u)
    BY <1>0, <1>1, <1>2
  <2> QED BY <1>2, <2>1 DEF IsAnswer
<1>3. ASSUME b \in 0..h.n, NEW id \in Ids(pats),
             m = [pattern |-> id, start |-> h.off[b]],
             Ended(pats, h, h.n, id, b),
             \A other \in Ids(pats), u \in 0..h.n :
               Ended(pats, h, h.n, other, u) => Before(b, id, u, other)
      PROVE  IsAnswer(pats, h, m)
  <2>1. ASSUME NEW other \in Ids(pats), NEW u \in 0..h.n, Occurs(pats, h, other, u)
        PROVE  Before(b, id, u, other)
    <3> DEFINE v == IF pats[other] = <<>> THEN 0 ELSE u
    <3>1. v \in 0..h.n /\ v <= u
      BY <1>0
    <3>2. Before(b, id, v, other)
      BY <1>1, <1>3, <2>1, <3>1
    <3> QED BY <1>0, <1>3, <3>1, <3>2 DEF Before
  <2>2. Occurs(pats, h, id, b)
    BY <1>3 DEF Ended
  <2> QED BY <1>3, <2>1, <2>2 DEF IsAnswer
<1> QED BY <1>2, <1>3 DEF IsBest

LEMMA BestWhenSettled ==
  ASSUME NEW pats, IsPatternSet(pats), NEW h, IsHaystack(h),
         NEW e \in 0..h.n, NEW b \in 0..h.n, NEW m, IsBest(pats, h, e, b, m),
         NEW units \in Nat, IsMaxUnits(pats, units), b + units <= e
  PROVE  IsAnswer(pats, h, m)
<1>0. h.n \in Nat /\ Ids(pats) \subseteq Nat
  BY DEF IsHaystack, IsPatternSet, Ids
<1>1. PICK id \in Ids(pats) :
        /\ m = [pattern |-> id, start |-> h.off[b]]
        /\ Ended(pats, h, e, id, b)
        /\ \A other \in Ids(pats), u \in 0..h.n :
             Ended(pats, h, e, other, u) => Before(b, id, u, other)
  BY DEF IsBest
<1>2. ASSUME NEW other \in Ids(pats), NEW u \in 0..h.n, Occurs(pats, h, other, u)
      PROVE  Before(b, id, u, other)
  <2>0. pats[other] \in Seq(Token) /\ Len(pats[other]) <= units
    BY DEF IsPatternSet, Ids, IsMaxUnits
  <2>1. CASE b < u
    BY <2>1 DEF Before
  <2>2. CASE u <= b
    <3> DEFINE v == IF pats[other] = <<>> THEN 0 ELSE u
    <3>1. v \in 0..h.n /\ v <= u
      BY <1>0
    <3>2. CASE pats[other] = <<>>
      <4>1. Ended(pats, h, e, other, v)
        BY <1>0, <3>2 DEF Ended, Occurs
      <4> QED BY <1>0, <1>1, <3>1, <4>1 DEF Before
    <3>3. CASE pats[other] # <<>>
      <4>1. u + Len(pats[other]) <= e
        BY <1>0, <2>0, <2>2
      <4>2. Ended(pats, h, e, other, u)
        BY <1>2, <3>3, <4>1 DEF Ended
      <4> QED BY <1>1, <4>2
    <3> QED BY <3>2, <3>3
  <2> QED BY <1>0, <2>1, <2>2
<1> QED BY <1>1, <1>2 DEF IsAnswer, Ended

(***************************************************************************)
(* Keeping the better of the best so far and the node's one output keeps   *)
(* the best of all the occurrences that end by the next unit boundary.     *)
(***************************************************************************)
Improvement(out, su, b, m) ==
  /\ out.pattern >= 0
  /\ b < 0 \/ su < b \/ (su = b /\ out.pattern < m.pattern)

LEMMA BestAfterStep ==
  ASSUME NEW pats, IsPatternSet(pats), NEW h, IsHaystack(h), NEW e \in 0..(h.n - 1),
         NEW end, end = e + 1,
         NEW node \in Nodes(pats), EndsText(h, end, node),
         Covers(pats, h, e, node),
         NEW out, IsOutput(pats, node, out),
         NEW b, NEW m, IsBest(pats, h, e, b, m), NEW b2, NEW m2, NEW su,
         su = end - out.units,
         \/ /\ Improvement(out, su, b, m)
            /\ b2 = su /\ m2 = [pattern |-> out.pattern, start |-> h.off[su]]
         \/ ~Improvement(out, su, b, m) /\ b2 = b /\ m2 = m
  PROVE  IsBest(pats, h, end, b2, m2)
<1>0. h.n \in Nat /\ Ids(pats) \subseteq Nat /\ end \in 0..h.n
  BY DEF IsHaystack, IsPatternSet, Ids
<1>1. out.pattern >= 0 =>
        /\ out.pattern \in Ids(pats)
        /\ su \in 0..h.n
        /\ Ended(pats, h, end, out.pattern, su)
  <2> SUFFICES ASSUME out.pattern >= 0
               PROVE  /\ out.pattern \in Ids(pats)
                      /\ su \in 0..h.n
                      /\ Ended(pats, h, end, out.pattern, su)
    OBVIOUS
  <2>1. /\ out.pattern \in Ids(pats)
        /\ out.units = Len(pats[out.pattern])
        /\ out.units \in 1..end
        /\ Occurs(pats, h, out.pattern, su)
    BY <1>0, OutputOccurs
  <2>2. pats[out.pattern] # <<>>
    BY <2>1
  <2>3. su + out.units = end /\ su \in 0..h.n
    <3>1. \A k \in 1..end : (end - k) + k = end /\ end - k \in 0..h.n
      BY <1>0
    <3> QED BY <2>1, <3>1
  <2>4. su + out.units <= end
    BY <1>0, <2>3
  <2> QED BY <2>1, <2>2, <2>3, <2>4 DEF Ended
<1>2. ASSUME NEW id \in Ids(pats), NEW u \in 0..h.n, Ended(pats, h, end, id, u)
      PROVE  \/ Ended(pats, h, e, id, u)
             \/ out.pattern >= 0 /\ Before(su, out.pattern, u, id)
  <2>0. pats[id] \in Seq(Token)
    BY DEF IsPatternSet, Ids
  <2>1. CASE pats[id] = <<>> \/ u + Len(pats[id]) <= e
    <3>1. u + Len(pats[id]) <= e
      BY <1>0, <1>2, <2>1 DEF Ended
    <3> QED BY <1>2, <3>1 DEF Ended
  <2>2. CASE pats[id] # <<>> /\ ~(u + Len(pats[id]) <= e)
    <3>1. Len(pats[id]) \in Nat \ {0}
      BY <2>0, <2>2
    <3>2. u + Len(pats[id]) = end /\ u \in 0..e
      BY <1>0, <1>2, <2>2, <3>1 DEF Ended
    <3>3. Len(pats[id]) <= Len(node)
      <4>1. Occurs(pats, h, id, u)
        BY <1>2 DEF Ended
      <4>2. e < u + Len(pats[id])
        BY <1>0, <3>2
      <4>3. end - u <= Len(node)
        BY <1>0, <3>2, <4>1, <4>2 DEF Covers
      <4>4. end - u = Len(pats[id])
        BY <1>0, <3>1, <3>2
      <4> QED BY <4>3, <4>4
    <3>4. Occurs(pats, h, id, u)
      BY <1>2 DEF Ended
    <3>5. out.pattern >= 0 /\ Before(su, out.pattern, u, id)
      BY <1>0, <2>2, <3>2, <3>3, <3>4, OutputIsBest
    <3> QED BY <3>2, <3>5
  <2> QED BY <2>1, <2>2
<1>3. \A id \in Ids(pats), u \in 0..h.n : Ended(pats, h, e, id, u) => Ended(pats, h, end, id, u)
  <2>1. ASSUME NEW id \in Ids(pats), NEW u \in 0..h.n, Ended(pats, h, e, id, u)
        PROVE  Ended(pats, h, end, id, u)
    <3>1. pats[id] \in Seq(Token)
      BY DEF IsPatternSet, Ids
    <3>2. u + Len(pats[id]) <= end
      BY <1>0, <2>1, <3>1 DEF Ended
    <3> QED BY <2>1, <3>2 DEF Ended
  <2> QED BY <2>1
<1>4. CASE b = -1 /\ m = NoMatch /\ \A id \in Ids(pats), u \in 0..h.n : ~Ended(pats, h, e, id, u)
  <2>1. CASE out.pattern >= 0
    <3>1. b2 = su /\ m2 = [pattern |-> out.pattern, start |-> h.off[su]]
      BY <1>4, <2>1 DEF Improvement
    <3>2. \A id \in Ids(pats), u \in 0..h.n :
            Ended(pats, h, end, id, u) => Before(su, out.pattern, u, id)
      BY <1>2, <1>4
    <3> QED BY <1>1, <2>1, <3>1, <3>2 DEF IsBest
  <2>2. CASE ~(out.pattern >= 0)
    <3>1. b2 = b /\ m2 = m
      BY <2>2 DEF Improvement
    <3>2. \A id \in Ids(pats), u \in 0..h.n : ~Ended(pats, h, end, id, u)
      BY <1>2, <1>4, <2>2
    <3> QED BY <1>4, <3>1, <3>2 DEF IsBest
  <2> QED BY <2>1, <2>2
<1>5. ASSUME b \in 0..h.n, NEW old \in Ids(pats),
             m = [pattern |-> old, start |-> h.off[b]],
             Ended(pats, h, e, old, b),
             \A id \in Ids(pats), u \in 0..h.n :
               Ended(pats, h, e, id, u) => Before(b, old, u, id)
      PROVE  IsBest(pats, h, end, b2, m2)
  <2>0. m.pattern = old
    BY <1>5
  <2>1. CASE /\ out.pattern >= 0
             /\ su < b \/ (su = b /\ out.pattern < old)
    <3>1. b2 = su /\ m2 = [pattern |-> out.pattern, start |-> h.off[su]]
      BY <1>5, <2>0, <2>1 DEF Improvement
    <3>2. ASSUME NEW id \in Ids(pats), NEW u \in 0..h.n, Ended(pats, h, end, id, u)
          PROVE  Before(su, out.pattern, u, id)
      <4>1. CASE Ended(pats, h, e, id, u)
        <5>1. Before(b, old, u, id)
          BY <1>5, <4>1
        <5> QED BY <1>0, <1>1, <1>5, <2>1, <5>1 DEF Before
      <4> QED BY <1>2, <3>2, <4>1
    <3> QED BY <1>1, <2>1, <3>1, <3>2 DEF IsBest
  <2>2. CASE ~(/\ out.pattern >= 0
               /\ su < b \/ (su = b /\ out.pattern < old))
    <3>1. b2 = b /\ m2 = m
      BY <1>5, <2>0, <2>2 DEF Improvement
    <3>2. ASSUME NEW id \in Ids(pats), NEW u \in 0..h.n, Ended(pats, h, end, id, u)
          PROVE  Before(b, old, u, id)
      <4>1. CASE Ended(pats, h, e, id, u)
        BY <1>5, <4>1
      <4>2. CASE out.pattern >= 0 /\ Before(su, out.pattern, u, id)
        BY <1>0, <1>1, <1>5, <2>2, <4>2 DEF Before
      <4> QED BY <1>2, <3>2, <4>1, <4>2
    <3> QED BY <1>3, <1>5, <3>1, <3>2 DEF IsBest
  <2> QED BY <2>1, <2>2
<1> QED BY <1>4, <1>5 DEF IsBest

\* The answer, and the best on the way to it, are ones a search may give.
LEMMA AnswerTyped ==
  ASSUME NEW pats, NEW h, NEW m, IsAnswer(pats, h, m)
  PROVE  m \in Answers(pats, h)
BY DEF IsAnswer, Answers

LEMMA BestTyped ==
  ASSUME NEW pats, NEW h, NEW e, NEW b, NEW m, IsBest(pats, h, e, b, m)
  PROVE  m \in Answers(pats, h) /\ b \in {-1} \cup 0..h.n
BY DEF IsBest, Answers

LEMMA AnswersAreMatches ==
  ASSUME NEW pats, NEW h, IsHaystack(h)
  PROVE  Answers(pats, h) \subseteq [pattern : {-1} \cup Ids(pats), start : -1..Bytes(h)]
<1>1. Bytes(h) \in Nat
  BY DEF IsHaystack, Bytes
<1>2. \A u \in 0..h.n : h.off[u] \in -1..Bytes(h)
  BY <1>1, OffTyped
<1> QED BY <1>1, <1>2 DEF Answers, NoMatch

\* Before anything is read, only the empty patterns have matched.
LEMMA BestAtStart ==
  ASSUME NEW pats, IsPatternSet(pats), NEW h, IsHaystack(h), NEW b, NEW m,
         \/ EmptyIds(pats) = {} /\ b = -1 /\ m = NoMatch
         \/ \E id \in EmptyIds(pats) :
              /\ \A other \in EmptyIds(pats) : id <= other
              /\ b = 0 /\ m = [pattern |-> id, start |-> 0]
  PROVE  IsBest(pats, h, 0, b, m)
<1>0. h.n \in Nat /\ h.off[0] = 0
  BY DEF IsHaystack
<1>1. ASSUME NEW id \in Ids(pats), NEW u \in 0..h.n, Ended(pats, h, 0, id, u)
      PROVE  id \in EmptyIds(pats) /\ u = 0
  <2>1. pats[id] \in Seq(Token)
    BY DEF IsPatternSet, Ids
  <2>2. Len(pats[id]) = 0 /\ u = 0
    BY <1>0, <1>1, <2>1 DEF Ended
  <2> QED BY <2>1, <2>2 DEF EmptyIds
<1>2. CASE EmptyIds(pats) = {} /\ b = -1 /\ m = NoMatch
  BY <1>1, <1>2 DEF IsBest
<1>3. ASSUME NEW id \in EmptyIds(pats),
             \A other \in EmptyIds(pats) : id <= other,
             b = 0, m = [pattern |-> id, start |-> 0]
      PROVE  IsBest(pats, h, 0, b, m)
  <2>1. id \in Ids(pats) /\ pats[id] = <<>>
    BY DEF EmptyIds
  <2>2. Ended(pats, h, 0, id, 0)
    BY <1>0, <2>1 DEF Ended, Occurs
  <2>3. \A other \in Ids(pats), u \in 0..h.n :
          Ended(pats, h, 0, other, u) => Before(0, id, u, other)
    BY <1>1, <1>3 DEF Before
  <2> QED BY <1>0, <1>3, <2>1, <2>2, <2>3 DEF IsBest
<1> QED BY <1>2, <1>3

-----------------------------------------------------------------------------
\* In a part of the haystack there occurs what occurs there in the haystack.
LEMMA PartOccurs ==
  ASSUME NEW pats, IsPatternSet(pats), NEW h, IsHaystack(h),
         NEW e \in 0..h.n, NEW b \in 0..e,
         NEW id \in Ids(pats), NEW u \in Nat
  PROVE  Occurs(pats, Part(h, b, e), id, u)
           <=> Occurs(pats, h, id, b + u) /\ b + u + Len(pats[id]) <= e
<1> DEFINE part == Part(h, b, e)
           len == Len(pats[id])
<1>0. h.n \in Nat /\ e \in Nat /\ b \in Nat /\ len \in Nat /\ e <= h.n /\ b <= e
  BY DEF IsHaystack, IsPatternSet, Ids
<1>1. part.n = e - b /\ \A j \in 0..(e - b - 1) : part.tok[j] = h.tok[b + j]
  BY DEF Part
<1> HIDE DEF part, len
<1>2. u + len <= part.n <=> b + u + len <= e
  <2>1. part.n = e - b
    BY <1>1
  <2>2. u + len <= e - b <=> b + u + len <= e
    BY <1>0
  <2> QED BY <2>1, <2>2
<1>3. ASSUME u + len <= part.n, NEW i \in 1..len
      PROVE  part.tok[u + i - 1] = h.tok[b + u + i - 1]
  <2>1. u + i - 1 \in 0..(e - b - 1) /\ b + (u + i - 1) = b + u + i - 1
    BY <1>0, <1>1, <1>3
  <2> QED BY <1>1, <2>1
<1>4. ASSUME Occurs(pats, part, id, u)
      PROVE  Occurs(pats, h, id, b + u) /\ b + u + len <= e
  <2>1. u + len <= part.n /\ \A i \in 1..len : part.tok[u + i - 1] = pats[id][i]
    BY <1>4 DEF Occurs, len
  <2>2. b + u + len <= e /\ b + u + len <= h.n
    BY <1>0, <1>2, <2>1
  <2>3. \A i \in 1..len : h.tok[b + u + i - 1] = pats[id][i]
    BY <1>3, <2>1
  <2> QED BY <2>2, <2>3 DEF Occurs, len
<1>5. ASSUME Occurs(pats, h, id, b + u), b + u + len <= e
      PROVE  Occurs(pats, part, id, u)
  <2>1. \A i \in 1..len : h.tok[b + u + i - 1] = pats[id][i]
    BY <1>5 DEF Occurs, len
  <2>2. u + len <= part.n
    BY <1>2, <1>5
  <2>3. \A i \in 1..len : part.tok[u + i - 1] = pats[id][i]
    BY <1>3, <2>1, <2>2
  <2> QED BY <2>2, <2>3 DEF Occurs, len
<1> QED BY <1>4, <1>5 DEF part, len

\* A part of a haystack is a haystack.
LEMMA PartIsHaystack ==
  ASSUME NEW h, IsHaystack(h), NEW e \in 0..h.n, NEW b \in 0..e
  PROVE  IsHaystack(Part(h, b, e))
<1> DEFINE p == Part(h, b, e)
<1>0. h.n \in Nat /\ e \in Nat /\ b \in Nat /\ e <= h.n /\ b <= e /\ e - b \in Nat
  BY DEF IsHaystack
<1>1. /\ p.n = e - b
      /\ p.tok = [i \in 0..(e - b - 1) |-> h.tok[b + i]]
      /\ p.ascii = [i \in 0..(e - b - 1) |-> h.ascii[b + i]]
      /\ p.off = [i \in 0..(e - b) |-> h.off[b + i] - h.off[b]]
  BY DEF Part
<1> HIDE DEF p
<1>2. \A i \in 0..(e - b) : b + i \in 0..h.n /\ b <= b + i
  BY <1>0
<1>3. \A i \in 0..(e - b - 1) : b + i \in 0..(h.n - 1) /\ b + (i + 1) = (b + i) + 1
                                /\ i \in 0..(e - b) /\ i + 1 \in 0..(e - b)
  BY <1>0
<1>4. \A i \in 0..(e - b) : h.off[b + i] \in Nat /\ h.off[b] \in Nat /\ h.off[b] <= h.off[b + i]
  <2>1. ASSUME NEW i \in 0..(e - b) PROVE h.off[b] = h.off[b + i] \/ h.off[b] < h.off[b + i]
    <3>1. b = b + i \/ b < b + i
      BY <1>0
    <3>2. b + i \in 0..h.n /\ b \in 0..h.n
      BY <1>0, <1>2
    <3> QED BY <3>1, <3>2 DEF IsHaystack
  <2>2. \A i \in 0..h.n : h.off[i] \in Nat
    BY DEF IsHaystack
  <2>3. b \in 0..h.n
    BY <1>0
  <2> QED BY <1>2, <2>1, <2>2, <2>3
<1>5. p.tok \in [0..(p.n - 1) -> Nat] /\ p.ascii \in [0..(p.n - 1) -> BOOLEAN]
  <2>1. /\ \A i \in 0..(e - b - 1) : h.tok[b + i] \in Nat
        /\ \A i \in 0..(e - b - 1) : h.ascii[b + i] \in BOOLEAN
    BY <1>3 DEF IsHaystack
  <2> QED BY <1>1, <2>1
<1>6. p.off \in [0..p.n -> Nat]
  <2>1. ASSUME NEW i \in 0..(e - b) PROVE h.off[b + i] - h.off[b] \in Nat
    <3>1. h.off[b + i] \in Nat /\ h.off[b] \in Nat /\ h.off[b] <= h.off[b + i]
      BY <1>4
    <3> QED BY <3>1
  <2> QED BY <1>1, <2>1
<1>7. p.off[0] = 0
  <2>1. 0 \in 0..(e - b) /\ b + 0 = b /\ h.off[b] \in Nat
    BY <1>0, <1>4
  <2> QED BY <1>1, <2>1
<1>8. ASSUME NEW u \in 0..p.n, NEW v \in 0..p.n, u < v
      PROVE  p.off[u] < p.off[v]
  <2>1. b + u < b + v /\ b + u \in 0..h.n /\ b + v \in 0..h.n
    BY <1>0, <1>1, <1>2, <1>8
  <2>2. h.off[b + u] < h.off[b + v]
    BY <2>1 DEF IsHaystack
  <2>3. p.off[u] = h.off[b + u] - h.off[b] /\ p.off[v] = h.off[b + v] - h.off[b]
    BY <1>1
  <2>4. h.off[b + u] \in Nat /\ h.off[b + v] \in Nat /\ h.off[b] \in Nat
    BY <1>1, <1>4
  <2> QED BY <2>2, <2>3, <2>4
<1>9. ASSUME NEW u \in 0..(p.n - 1), p.ascii[u]
      PROVE  p.off[u + 1] = p.off[u] + 1 /\ p.tok[u] \in AsciiTokens \cup {0}
  <2>1. h.ascii[b + u] /\ b + u \in 0..(h.n - 1)
    BY <1>1, <1>3, <1>9
  <2>2. h.off[(b + u) + 1] = h.off[b + u] + 1 /\ h.tok[b + u] \in AsciiTokens \cup {0}
    BY <2>1 DEF IsHaystack
  <2>3. p.off[u + 1] = h.off[(b + u) + 1] - h.off[b] /\ p.off[u] = h.off[b + u] - h.off[b]
    BY <1>1, <1>3
  <2>4. h.off[b + u] \in Nat /\ h.off[b] \in Nat
    BY <1>1, <1>3, <1>4
  <2> QED BY <1>1, <2>2, <2>3, <2>4
<1>10. p.n \in Nat
  BY <1>0, <1>1
<1> QED BY <1>5, <1>6, <1>7, <1>8, <1>9, <1>10 DEF IsHaystack, p

(***************************************************************************)
(* The answer for a part of the haystack, shifted back, is the first of    *)
(* the occurrences inside that part.                                       *)
(***************************************************************************)
Inside(pats, h, b, e, id, u) ==
  b <= u /\ u + Len(pats[id]) <= e /\ Occurs(pats, h, id, u)

LEMMA AnswerInPart ==
  ASSUME NEW pats, IsPatternSet(pats), NEW h, IsHaystack(h),
         NEW e \in 0..h.n, NEW b \in 0..e, NEW m, IsAnswer(pats, Part(h, b, e), m)
  PROVE  \/ /\ m = NoMatch
            /\ \A id \in Ids(pats), u \in 0..h.n : ~Inside(pats, h, b, e, id, u)
         \/ \E id \in Ids(pats), u \in b..e :
              /\ m = [pattern |-> id, start |-> h.off[u] - h.off[b]]
              /\ Inside(pats, h, b, e, id, u)
              /\ \A other \in Ids(pats), v \in 0..h.n :
                   Inside(pats, h, b, e, other, v) => Before(u, id, v, other)
<1> DEFINE part == Part(h, b, e)
<1>0. h.n \in Nat /\ e \in Nat /\ b \in Nat /\ Ids(pats) \subseteq Nat
  BY DEF IsHaystack, IsPatternSet, Ids
<1>1. part.n = e - b /\ \A j \in 0..(e - b) : part.off[j] = h.off[b + j] - h.off[b]
  BY DEF Part
<1>2. ASSUME NEW id \in Ids(pats), NEW u \in 0..h.n, Inside(pats, h, b, e, id, u)
      PROVE  /\ u - b \in 0..(e - b) /\ b + (u - b) = u
             /\ Occurs(pats, part, id, u - b)
  <2>1. Len(pats[id]) \in Nat
    BY DEF IsPatternSet, Ids
  <2>2. b <= u /\ u + Len(pats[id]) <= e /\ Occurs(pats, h, id, u)
    BY <1>2 DEF Inside
  <2>3. u - b \in 0..(e - b) /\ b + (u - b) = u /\ u - b \in Nat
    BY <1>0, <2>1, <2>2
  <2>4. Occurs(pats, h, id, b + (u - b)) /\ b + (u - b) + Len(pats[id]) <= e
    BY <2>2, <2>3
  <2> QED BY <2>3, <2>4, PartOccurs
<1> HIDE DEF part
<1>3. CASE m = NoMatch /\ \A id \in Ids(pats), u \in 0..part.n : ~Occurs(pats, part, id, u)
  BY <1>1, <1>2, <1>3
<1>4. ASSUME NEW id \in Ids(pats), NEW j \in 0..part.n,
             m = [pattern |-> id, start |-> part.off[j]],
             Occurs(pats, part, id, j),
             \A other \in Ids(pats), v \in 0..part.n :
               Occurs(pats, part, other, v) => Before(j, id, v, other)
      PROVE  \E u \in b..e :
              /\ m = [pattern |-> id, start |-> h.off[u] - h.off[b]]
              /\ Inside(pats, h, b, e, id, u)
              /\ \A other \in Ids(pats), v \in 0..h.n :
                   Inside(pats, h, b, e, other, v) => Before(u, id, v, other)
  <2>1. b + j \in b..e /\ j \in Nat /\ j \in 0..(e - b)
    BY <1>0, <1>1
  <2>2. m = [pattern |-> id, start |-> h.off[b + j] - h.off[b]]
    BY <1>1, <1>4, <2>1
  <2>3. Inside(pats, h, b, e, id, b + j)
    <3>1. Occurs(pats, h, id, b + j) /\ b + j + Len(pats[id]) <= e
      BY <1>4, <2>1, PartOccurs DEF part
    <3>2. b <= b + j
      BY <1>0, <2>1
    <3> QED BY <3>1, <3>2 DEF Inside
  <2>4. ASSUME NEW other \in Ids(pats), NEW v \in 0..h.n, Inside(pats, h, b, e, other, v)
        PROVE  Before(b + j, id, v, other)
    <3>1. v - b \in 0..part.n /\ b + (v - b) = v /\ Occurs(pats, part, other, v - b)
      BY <1>1, <1>2, <2>4
    <3>2. Before(j, id, v - b, other)
      BY <1>4, <3>1
    <3> QED BY <1>0, <2>1, <3>1, <3>2 DEF Before
  <2> QED BY <2>1, <2>2, <2>3, <2>4
<1> QED BY <1>3, <1>4 DEF IsAnswer, part

\* Where every unit is one byte wide, a unit starts at its own number.
LEMMA ByteUnitsOff ==
  ASSUME NEW h, IsHaystack(h), \A u \in 0..(h.n - 1) : h.off[u + 1] = h.off[u] + 1,
         NEW u \in 0..h.n
  PROVE  h.off[u] = u
<1> DEFINE Wrong == {v \in 0..h.n : h.off[v] # v}
<1>0. h.n \in Nat /\ h.off[0] = 0
  BY DEF IsHaystack
<1>1. SUFFICES ASSUME Wrong # {} PROVE FALSE
  OBVIOUS
<1>2. PICK v \in Wrong : \A w \in Wrong : v <= w
  <2>1. Wrong \in SUBSET Nat
    BY <1>0
  <2> HIDE DEF Wrong
  <2> QED BY <1>1, <2>1, Least
<1>3. v # 0 /\ v - 1 \in 0..(h.n - 1) /\ v - 1 \in 0..h.n /\ (v - 1) + 1 = v
  BY <1>0, <1>2
<1>4. v - 1 \notin Wrong
  BY <1>2, <1>3
<1>5. h.off[v - 1] = v - 1
  BY <1>3, <1>4
<1>6. h.off[v] = h.off[v - 1] + 1
  BY <1>3
<1> QED BY <1>2, <1>3, <1>5, <1>6

-----------------------------------------------------------------------------
\* A run of units that start no occurrence, from the root: nothing is lost by
\* resuming at the root after it.
LEMMA IdleKeeps ==
  ASSUME NEW p, IsPatternSet(p), NEW h, IsHaystack(h),
         NEW e \in 0..h.n, Tracks(p, h, e, <<>>),
         NEW f \in 0..h.n, e <= f,
         \A v \in e..(f - 1), id \in Ids(p) : p[id] # <<>> => ~Occurs(p, h, id, v),
         NEW b, NEW m, IsBest(p, h, e, b, m)
  PROVE  /\ EndsText(h, f, <<>>)
         /\ Tracks(p, h, f, <<>>)
         /\ IsBest(p, h, f, b, m)
<1>0. h.n \in Nat /\ Len(<<>>) = 0
  BY DEF IsHaystack
<1>1. EndsText(h, f, <<>>)
  BY <1>0 DEF EndsText
<1>2. ASSUME NEW id \in Ids(p), NEW start \in 0..h.n, Occurs(p, h, id, start),
             start < f, p[id] # <<>>
      PROVE  start + Len(p[id]) <= e
  <2>0. p[id] \in Seq(Token)
    BY DEF IsPatternSet, Ids
  <2>1. start < e
    BY <1>0, <1>2
  <2>2. CASE e < start + Len(p[id])
    <3>1. e - start <= 0
      BY <1>0, <1>2, <2>1, <2>2 DEF Tracks
    <3> QED BY <1>0, <2>1, <3>1
  <2> QED BY <1>0, <2>0, <2>2
<1>3. Tracks(p, h, f, <<>>)
  <2>1. ASSUME NEW id \in Ids(p), NEW start \in 0..h.n,
               Occurs(p, h, id, start), start < f, f < start + Len(p[id])
        PROVE  FALSE
    <3>0. p[id] \in Seq(Token)
      BY DEF IsPatternSet, Ids
    <3>1. p[id] # <<>>
      BY <1>0, <2>1
    <3>2. start + Len(p[id]) <= e
      BY <1>2, <2>1, <3>1
    <3> QED BY <1>0, <2>1, <3>0, <3>2
  <2> QED BY <2>1 DEF Tracks
<1>4. \A id \in Ids(p), u \in 0..h.n : Ended(p, h, f, id, u) <=> Ended(p, h, e, id, u)
  <2>1. ASSUME NEW id \in Ids(p), NEW u \in 0..h.n
        PROVE  Ended(p, h, f, id, u) <=> Ended(p, h, e, id, u)
    <3>0. p[id] \in Seq(Token)
      BY DEF IsPatternSet, Ids
    <3>1. CASE p[id] = <<>>
      BY <1>0, <3>1 DEF Ended
    <3>2. CASE p[id] # <<>>
      <4>0. Len(p[id]) \in Nat \ {0}
        BY <3>0, <3>2
      <4>1. ASSUME Ended(p, h, f, id, u) PROVE Ended(p, h, e, id, u)
        <5>1. u < f /\ Occurs(p, h, id, u)
          BY <1>0, <4>0, <4>1 DEF Ended
        <5>2. u + Len(p[id]) <= e
          BY <1>2, <3>2, <5>1
        <5> QED BY <3>2, <5>1, <5>2 DEF Ended
      <4>2. ASSUME Ended(p, h, e, id, u) PROVE Ended(p, h, f, id, u)
        BY <1>0, <4>0, <4>2 DEF Ended
      <4> QED BY <4>1, <4>2
    <3> QED BY <3>1, <3>2
  <2> QED BY <2>1
<1>5. IsBest(p, h, f, b, m)
  BY <1>4 DEF IsBest
<1> QED BY <1>1, <1>3, <1>5

LEMMA PrefixOfSeq ==
  ASSUME NEW S, NEW s \in Seq(S), NEW k \in 1..Len(s)
  PROVE  /\ SubSeq(s, 1, k) \in Seq(S)
         /\ Len(SubSeq(s, 1, k)) = k
         /\ \A i \in 1..k : SubSeq(s, 1, k)[i] = s[i]
BY SubSeqProperties

LEMMA SingletonSeq ==
  ASSUME NEW S, NEW s \in Seq(S), Len(s) = 1, NEW x, s[1] = x
  PROVE  s = <<x>>
<1>1. x \in S
  <2>1. 1 \in 1..Len(s)
    OBVIOUS
  <2> QED BY <2>1
<1>2. <<x>> \in Seq(S) /\ Len(<<x>>) = 1 /\ <<x>>[1] = x
  BY <1>1
<1>3. \A i \in 1..Len(s) : i = 1
  OBVIOUS
<1>4. \A i \in 1..Len(s) : s[i] = <<x>>[i]
  BY <1>2, <1>3
<1> QED BY <1>2, <1>4, SeqEqual

\* A non-empty occurrence starts with a root token ...
LEMMA OccurrenceStarts ==
  ASSUME NEW p, IsPatternSet(p), NEW h, IsHaystack(h), NEW id \in Ids(p),
         NEW u \in 0..h.n, Occurs(p, h, id, u), p[id] # <<>>
  PROVE  /\ u < h.n
         /\ h.tok[u] \in RootTokens(p) /\ h.tok[u] \in Token
         /\ h.tok[u] = p[id][1]
<1>0. /\ p[id] \in Seq(Token) /\ h.n \in Nat
      /\ Len(p[id]) \in Nat \ {0}
  BY DEF IsPatternSet, Ids, IsHaystack
<1>1. u < h.n
  BY <1>0 DEF Occurs
<1>2. h.tok[u] = p[id][1]
  <2>1. 1 \in 1..Len(p[id]) /\ u + 1 - 1 = u
    BY <1>0
  <2> QED BY <2>1 DEF Occurs
<1>3. h.tok[u] \in RootTokens(p) /\ h.tok[u] \in Token
  BY <1>0, <1>2 DEF RootTokens
<1> QED BY <1>1, <1>2, <1>3

\* ... and with q after r, if only q follows r and r is no pattern.
OnlyFollows(p, r, q) ==
  EdgeTokens(p, <<r>>) = {q} /\ \A i \in Ids(p) : p[i] # <<r>>

LEMMA OccurrenceStartsWithPair ==
  ASSUME NEW p, IsPatternSet(p), NEW h, IsHaystack(h), NEW id \in Ids(p),
         NEW u \in 0..h.n, Occurs(p, h, id, u), p[id] # <<>>,
         NEW r, h.tok[u] = r, NEW q, OnlyFollows(p, r, q)
  PROVE  u + 1 < h.n /\ h.tok[u + 1] = q
<1>0. /\ p[id] \in Seq(Token) /\ h.n \in Nat
      /\ Len(p[id]) \in Nat \ {0}
      /\ h.tok[u] = p[id][1]
  <2>1. h.tok[u] = p[id][1]
    BY OccurrenceStarts
  <2> QED BY <2>1 DEF IsPatternSet, Ids, IsHaystack
<1>1. Len(p[id]) >= 2
  <2>1. Len(p[id]) # 1
    BY <1>0, SingletonSeq DEF OnlyFollows
  <2>2. \A n \in Nat \ {0} : n # 1 => n >= 2
    OBVIOUS
  <2> QED BY <1>0, <2>1, <2>2
<1>2. u + 1 < h.n
  BY <1>0, <1>1 DEF Occurs
<1>3. h.tok[u + 1] = p[id][2]
  <2>1. 2 \in 1..Len(p[id]) /\ u + 2 - 1 = u + 1
    BY <1>0, <1>1
  <2> QED BY <2>1 DEF Occurs
<1> DEFINE t == SubSeq(p[id], 1, 2)
<1>4. t \in Nodes(p) /\ t \in Seq(Token) /\ Len(t) = 2 /\ \A i \in 1..2 : t[i] = p[id][i]
  <2>1. 2 \in 1..Len(p[id])
    BY <1>0, <1>1
  <2> QED BY <2>1, PrefixIsNode
<1>5. SubSeq(t, 1, 1) = <<r>>
  <2> HIDE DEF t
  <2>1. /\ SubSeq(t, 1, 1) \in Seq(Token) /\ Len(SubSeq(t, 1, 1)) = 1
        /\ SubSeq(t, 1, 1)[1] = t[1]
    <3>1. 1 \in 1..Len(t) /\ 1 \in 1..1
      BY <1>4
    <3> QED BY <1>4, <3>1, PrefixOfSeq
  <2>2. t[1] = r
    BY <1>0, <1>4
  <2> QED BY <2>1, <2>2, SingletonSeq
<1>6. Len(<<r>>) = 1
  OBVIOUS
<1>7. t[2] \in EdgeTokens(p, <<r>>)
  <2> HIDE DEF t
  <2>1. Len(t) = Len(<<r>>) + 1 /\ SubSeq(t, 1, Len(<<r>>)) = <<r>>
    BY <1>4, <1>5, <1>6
  <2>2. t[2] = t[Len(<<r>>) + 1]
    BY <1>6
  <2> QED BY <1>4, <2>1, <2>2, Zenon DEF EdgeTokens
<1> QED BY <1>2, <1>3, <1>4, <1>7 DEF OnlyFollows

-----------------------------------------------------------------------------
\* The ring's arithmetic.
LEMMA ModRange ==
  ASSUME NEW L \in Nat \ {0}, NEW a \in Nat
  PROVE  a % L \in 0..(L - 1)
OBVIOUS

LEMMA ModLess ==
  ASSUME NEW L \in Nat \ {0}, NEW a \in Nat, NEW b \in Nat, a < b, b - a < L
  PROVE  a % L # b % L
<1> SUFFICES ASSUME a % L = b % L PROVE FALSE
  OBVIOUS
<1>1. PICK q \in Int, r \in 0..(L - 1) : a = L * q + r /\ r = a % L
  <2>1. a = L * (a \div L) + (a % L)
    OBVIOUS
  <2>2. a % L \in 0..(L - 1) /\ (a \div L) \in Int
    OBVIOUS
  <2> QED BY <2>1, <2>2
<1>2. PICK p \in Int : b = L * p + r
  <2>1. b = L * (b \div L) + (b % L)
    OBVIOUS
  <2>2. (b \div L) \in Int
    OBVIOUS
  <2> QED BY <1>1, <2>1, <2>2
<1>3. b - a = L * (p - q)
  BY <1>1, <1>2
<1>4. p - q >= 1 \/ p - q <= 0
  BY <1>1, <1>2
<1>5. CASE p - q >= 1
  <2>1. L * (p - q) >= L
    BY <1>1, <1>2, <1>5
  <2> QED BY <1>3, <2>1
<1>6. CASE p - q <= 0
  <2>1. L * (p - q) <= 0
    BY <1>1, <1>2, <1>6
  <2> QED BY <1>3, <2>1
<1> QED BY <1>4, <1>5, <1>6

\* Two units closer than the ring is long have cells of their own.
LEMMA ModDistinct ==
  ASSUME NEW L \in Nat \ {0}, NEW a \in Nat, NEW b \in Nat,
         a # b, a - b < L, b - a < L
  PROVE  a % L # b % L
<1>1. CASE a < b
  BY <1>1, ModLess
<1>2. CASE b < a
  BY <1>2, ModLess
<1> QED BY <1>1, <1>2
=============================================================================
