------------------------- MODULE Partition_proofs -------------------------
(***************************************************************************)
(* What the ASCII partition may be trusted with, for every pattern set,    *)
(* haystack and size of sample, lookahead and window: its cuts, the only   *)
(* match it can pass over, and that it passes over none for a single       *)
(* pattern.                                                                *)
(***************************************************************************)
EXTENDS Partition, FoldPlan_proofs

-----------------------------------------------------------------------------
(***************************************************************************)
(* The inductive invariant.  Bounds ties the window to the spans it is     *)
(* for, Group says what the coordinator knows of the part before the span, *)
(* Ahead what it knows of the part behind the group.                       *)
(***************************************************************************)
Typed ==
  /\ pats \in PatternSets /\ hay \in Haystacks
  /\ maxBytes = MaxBytes(pats)
  /\ asciiOnly = (DOMAIN pats = {0})
  /\ phase \in {"admit", "group", "coalesce", "search", "done"}
  /\ cursor \in 0..Bytes(hay) /\ spanStart \in 0..Bytes(hay)
  /\ windowStart \in 0..Bytes(hay) /\ windowEnd \in 0..Bytes(hay)
  /\ lastHighEnd \in 0..Bytes(hay) /\ scanAt \in 0..Bytes(hay)
  /\ nextStart \in -1..Bytes(hay) /\ gapSearched \in BOOLEAN

Hit(from, to, id, u) ==
  /\ Occurs(pats, hay, id, u)
  /\ from <= hay.off[u] /\ hay.off[u + Len(pats[id])] <= to

\* m is to be preferred to the occurrence of id at u, or is that one.
Beats(m, id, u) ==
  /\ m # NoMatch
  /\ m.start < hay.off[u] \/ (m.start = hay.off[u] /\ m.pattern <= id)

\* What AnswerIn(from, to) answers.
FirstIn(from, to, m) ==
  /\ \A id \in Ids(pats), u \in 0..hay.n : Hit(from, to, id, u) => Beats(m, id, u)
  /\ m # NoMatch =>
       \E id \in Ids(pats), u \in 0..hay.n :
         m = [pattern |-> id, start |-> hay.off[u]] /\ Hit(from, to, id, u)

NothingBefore(at) ==
  \A id \in Ids(pats), u \in 0..hay.n : Occurs(pats, hay, id, u) => hay.off[u] >= at

Fresh == phase = "admit" => windowStart = 0 /\ lastHighEnd = 0 /\ pending = NoMatch

Group ==
  phase \in {"group", "coalesce", "search"} =>
    /\ cursor <= spanStart /\ NothingBefore(cursor)
    /\ OnBoundary(cursor) /\ OnBoundary(spanStart) /\ OnBoundary(WindowFrom(spanStart))
    /\ OnBoundary(windowStart) /\ OnBoundary(lastHighEnd)
    /\ asciiOnly /\ phase # "search" => pending = NoMatch
    /\ ~asciiOnly /\ pending # NoMatch => FirstIn(cursor, spanStart, pending)

Bounds ==
  phase \in {"coalesce", "search"} =>
    /\ spanStart <= scanAt /\ OnBoundary(scanAt)
    /\ windowStart = WindowFrom(spanStart) /\ windowEnd = WindowTo(scanAt)

\* Before anything is known of what follows the span ...
Unseen == phase = "coalesce" => lastHighEnd = scanAt /\ nextStart = -1

\* ... and then: another group follows, or no span at all, or a match that
\* makes it unnecessary to look for one.
NextKnown ==
  /\ Apart(nextStart) /\ lastHighEnd = scanAt /\ gapSearched = asciiOnly
  /\ IF asciiOnly
       THEN pending = NoMatch /\ GapMatch(scanAt) = NoMatch /\ nextStart = NextHigh(scanAt)
       ELSE nextStart = NextExceptional(scanAt)

NoneFollows ==
  IF asciiOnly
    THEN /\ lastHighEnd = Bytes(hay) /\ pending = GapMatch(scanAt)
         /\ GapMatch(scanAt) # NoMatch \/ GapHigh(scanAt) < 0
    ELSE lastHighEnd = scanAt /\ NextExceptional(scanAt) = Bytes(hay)

Seen == phase = "search" => IF nextStart >= 0 THEN NextKnown ELSE NoneFollows

\* The first of all matches starts behind the last span and crosses the end of
\* the window, in which there is another match.
PassedOver(m) ==
  /\ ~asciiOnly
  /\ \E id \in Ids(pats), u \in 0..hay.n :
       m = [pattern |-> id, start |-> hay.off[u]] /\ Occurs(pats, hay, id, u)
  /\ \E id \in Ids(pats), u \in 0..hay.n :
       /\ Occurs(pats, hay, id, u)
       /\ \A other \in Ids(pats), v \in 0..hay.n :
            Occurs(pats, hay, other, v) => Before(u, id, v, other)
       /\ lastHighEnd <= hay.off[u] /\ hay.off[u] < windowEnd
       /\ windowEnd < hay.off[u + Len(pats[id])]

Answered == phase = "done" => IsAnswer(pats, hay, best) \/ PassedOver(best)

IInv == Typed /\ Fresh /\ Group /\ Bounds /\ Unseen /\ Seen /\ Answered

-----------------------------------------------------------------------------
(***************************************************************************)
(* The width of a match.  Spelled is defined by recursion: that there is   *)
(* such a function, and what it bounds, is shown unit by unit.             *)
(***************************************************************************)
IsSum(tokens, k, f) ==
  f = [i \in 0..k |-> IF i = 0 THEN 0 ELSE f[i - 1] + TokenBytes[tokens[i]]]

LEMMA SumExists ==
  ASSUME NEW tokens, NEW n \in Nat
  PROVE  \E f : IsSum(tokens, n, f)
<1> DEFINE Without == {k \in 0..n : ~\E f : IsSum(tokens, k, f)}
<1> SUFFICES ASSUME ~\E f : IsSum(tokens, n, f) PROVE FALSE
  OBVIOUS
<1>1. PICK k \in Without : \A j \in Without : k <= j
  <2>1. n \in 0..n
    OBVIOUS
  <2>2. Without \in SUBSET Nat /\ Without # {}
    BY <2>1
  <2> HIDE DEF Without
  <2> QED BY <2>2, Least
<1>2. k \in 0..n /\ ~\E f : IsSum(tokens, k, f)
  OBVIOUS
<1>3. k # 0
  <2> DEFINE f == [i \in 0..0 |-> 0]
  <2>1. IsSum(tokens, 0, f)
    BY DEF IsSum
  <2> QED BY <1>2, <2>1
<1>4. PICK f : IsSum(tokens, k - 1, f)
  <2>1. k - 1 \in 0..n /\ ~(k <= k - 1)
    BY <1>2, <1>3
  <2>2. k - 1 \notin Without
    BY <1>1, <2>1
  <2> QED BY <2>1, <2>2
<1> DEFINE g == [i \in 0..k |-> IF i = k THEN f[k - 1] + TokenBytes[tokens[k]] ELSE f[i]]
<1>5. ASSUME NEW i \in 0..k
      PROVE  g[i] = IF i = 0 THEN 0 ELSE g[i - 1] + TokenBytes[tokens[i]]
  <2>1. CASE i = 0
    <3>1. 0 \in 0..(k - 1) /\ i # k /\ 0 \in 0..k
      BY <1>2, <1>3, <2>1
    <3>2. f[0] = 0
      BY <1>4, <3>1 DEF IsSum
    <3> QED BY <2>1, <3>1, <3>2
  <2>2. CASE i # 0 /\ i # k
    <3>1. i \in 0..(k - 1) /\ i - 1 \in 0..k /\ i - 1 # k
      BY <1>2, <2>2
    <3>2. f[i] = f[i - 1] + TokenBytes[tokens[i]]
      BY <1>4, <2>2, <3>1 DEF IsSum
    <3> QED BY <2>2, <3>1, <3>2
  <2>3. CASE i # 0 /\ i = k
    <3>1. k - 1 \in 0..k /\ k - 1 # k /\ k \in 0..k
      BY <1>2, <1>3
    <3> QED BY <2>3, <3>1
  <2> QED BY <2>1, <2>2, <2>3
<1>6. IsSum(tokens, k, g)
  <2>1. g = [i \in 0..k |-> g[i]]
    OBVIOUS
  <2> HIDE DEF g
  <2> QED BY <1>5, <2>1 DEF IsSum
<1> QED BY <1>2, <1>6

LEMMA SpelledIsSum ==
  ASSUME NEW tokens, Len(tokens) \in Nat
  PROVE  \E f : IsSum(tokens, Len(tokens), f) /\ Spelled(tokens) = f[Len(tokens)]
<1> DEFINE f == CHOOSE g : IsSum(tokens, Len(tokens), g)
<1>1. IsSum(tokens, Len(tokens), f)
  BY SumExists
<1>2. Spelled(tokens) = f[Len(tokens)]
  BY DEF Spelled, IsSum
<1> QED BY <1>1, <1>2

LEMMA SumBounds ==
  ASSUME NEW tokens, NEW n \in Nat, \A i \in 1..n : TokenBytes[tokens[i]] \in Nat \ {0},
         NEW f, IsSum(tokens, n, f)
  PROVE  \A i \in 0..n : f[i] \in Nat /\ f[i] >= i
<1> DEFINE Wrong == {i \in 0..n : ~(f[i] \in Nat /\ f[i] >= i)}
<1> SUFFICES ASSUME Wrong # {} PROVE FALSE
  OBVIOUS
<1>1. PICK i \in Wrong : \A j \in Wrong : i <= j
  <2>1. Wrong \in SUBSET Nat
    OBVIOUS
  <2> HIDE DEF Wrong
  <2> QED BY <2>1, Least
<1>2. i \in 0..n /\ ~(f[i] \in Nat /\ f[i] >= i)
  OBVIOUS
<1>3. i # 0
  <2>1. 0 \in 0..n
    OBVIOUS
  <2>2. f[0] = 0
    BY <2>1 DEF IsSum
  <2> QED BY <1>2, <2>2
<1>4. i \in 1..n /\ i - 1 \in 0..n /\ ~(i <= i - 1)
  BY <1>2, <1>3
<1>5. f[i - 1] \in Nat /\ f[i - 1] >= i - 1
  BY <1>1, <1>4
<1>6. f[i] = f[i - 1] + TokenBytes[tokens[i]]
  BY <1>2, <1>3 DEF IsSum
<1>7. TokenBytes[tokens[i]] \in Nat \ {0}
  BY <1>4
<1> QED BY <1>2, <1>5, <1>6, <1>7

LEMMA MaxBytesTyped ==
  ASSUME Typed
  PROVE  maxBytes \in Nat /\ IsMaxBytes(pats, maxBytes)
<1>1. IsPatternSet(pats)
  BY PartitionAssumption DEF Typed
<1>2. maxBytes \in {Spelled(pats[i]) : i \in Ids(pats)} /\ IsMaxBytes(pats, maxBytes)
  BY PartitionAssumption DEF Typed, MaxBytes
<1>3. PICK i \in Ids(pats) : maxBytes = Spelled(pats[i])
  BY <1>2
<1>4. Len(pats[i]) \in Nat /\ DOMAIN pats[i] = 1..Len(pats[i])
  BY <1>1 DEF IsPatternSet, Ids
<1>5. \A j \in 1..Len(pats[i]) : TokenBytes[pats[i][j]] \in Nat \ {0}
  BY <1>4, PartitionAssumption DEF Typed
<1>6. PICK f : IsSum(pats[i], Len(pats[i]), f) /\ Spelled(pats[i]) = f[Len(pats[i])]
  BY <1>4, SpelledIsSum
<1>7. Len(pats[i]) \in 0..Len(pats[i])
  BY <1>4
<1>8. f[Len(pats[i])] \in Nat
  BY <1>4, <1>5, <1>6, <1>7, SumBounds
<1> QED BY <1>2, <1>3, <1>6, <1>8

\* The units of an occurrence are of no more bytes than their tokens allow.
LEMMA OccurrenceBytes ==
  ASSUME Typed, NEW id \in Ids(pats), NEW u \in 0..hay.n,
         Occurs(pats, hay, id, u)
  PROVE  /\ maxBytes \in Nat
         /\ Len(pats[id]) \in Nat \ {0} /\ Len(pats[id]) <= maxBytes
         /\ u + Len(pats[id]) \in 0..hay.n
         /\ hay.off[u + Len(pats[id])] - hay.off[u] <= maxBytes
<1> DEFINE toks == pats[id]
           len == Len(pats[id])
<1>0. /\ toks \in Seq(Token) /\ len \in Nat \ {0} /\ u + len <= hay.n
      /\ IsHaystack(hay) /\ hay.n \in Nat
      /\ \A i \in 1..len : TokenBytes[toks[i]] \in Nat \ {0}
  <2>1. IsPatternSet(pats) /\ pats[id] # <<>> /\ IsHaystack(hay)
    BY PartitionAssumption DEF Typed, EmptyIds, IsSpelledHaystack
  <2>2. toks \in Seq(Token) /\ DOMAIN toks = 1..len /\ len \in Nat
    BY <2>1 DEF IsPatternSet, Ids
  <2>3. \A i \in 1..len : TokenBytes[toks[i]] \in Nat \ {0}
    BY <2>2, PartitionAssumption DEF Typed
  <2> QED BY <2>1, <2>2, <2>3 DEF Occurs, IsHaystack
<1>1. PICK f : IsSum(toks, len, f) /\ Spelled(toks) = f[len]
  BY <1>0, SpelledIsSum
<1>2. maxBytes \in Nat /\ IsMaxBytes(pats, maxBytes)
  BY MaxBytesTyped
<1> HIDE DEF toks, len
<1>3. ASSUME NEW i \in 1..len
      PROVE  /\ i - 1 \in 0..len /\ f[i] = f[i - 1] + TokenBytes[toks[i]]
             /\ u + i \in 0..hay.n /\ u + (i - 1) \in 0..hay.n
             /\ hay.off[u + i] \in Nat /\ hay.off[u + (i - 1)] \in Nat
             /\ hay.off[u + i] - hay.off[u + (i - 1)] <= TokenBytes[toks[i]]
  <2>1. i \in 0..len /\ i - 1 \in 0..len /\ i # 0
    BY <1>0
  <2>2. f[i] = f[i - 1] + TokenBytes[toks[i]]
    BY <1>1, <2>1 DEF IsSum
  <2>3. /\ u + (i - 1) \in 0..(hay.n - 1) /\ u + i \in 0..hay.n
        /\ u + (i - 1) \in 0..hay.n /\ (u + (i - 1)) + 1 = u + i /\ u + i - 1 = u + (i - 1)
    BY <1>0
  <2>4. hay.tok[u + (i - 1)] = toks[i]
    BY <2>3 DEF Occurs, toks, len
  <2>5. toks[i] # 0
    BY <1>0 DEF Token, toks, len
  <2>6. hay.off[(u + (i - 1)) + 1] - hay.off[u + (i - 1)] <= TokenBytes[toks[i]]
    BY <2>3, <2>4, <2>5, PartitionAssumption DEF Typed, IsSpelledHaystack
  <2>7. hay.off[u + i] \in Nat /\ hay.off[u + (i - 1)] \in Nat
    BY <1>0, <2>3 DEF IsHaystack
  <2> QED BY <2>1, <2>2, <2>3, <2>6, <2>7
<1>8. \A i \in 0..len : f[i] \in Nat /\ f[i] >= i
  BY <1>0, <1>1, SumBounds
<1> DEFINE Wrong == {i \in 0..len : ~(hay.off[u + i] - hay.off[u] <= f[i])}
<1>4. Wrong = {}
  <2> SUFFICES ASSUME Wrong # {} PROVE FALSE
    OBVIOUS
  <2>1. PICK i \in Wrong : \A j \in Wrong : i <= j
    <3>1. Wrong \in SUBSET Nat
      BY <1>0
    <3> HIDE DEF Wrong
    <3> QED BY <3>1, Least
  <2>2. i \in 0..len /\ ~(hay.off[u + i] - hay.off[u] <= f[i])
    OBVIOUS
  <2>3. hay.off[u] \in Nat
    BY <1>0 DEF IsHaystack
  <2>4. i # 0
    <3>1. 0 \in 0..len /\ u + 0 = u
      BY <1>0
    <3>2. f[0] = 0
      BY <1>1, <3>1 DEF IsSum
    <3>3. hay.off[u] - hay.off[u] <= 0
      BY <2>3
    <3> QED BY <2>2, <3>1, <3>2, <3>3
  <2>5. i \in 1..len
    BY <1>0, <2>2, <2>4
  <2>6. f[i - 1] \in Nat /\ hay.off[u + (i - 1)] - hay.off[u] <= f[i - 1]
    <3>1. i - 1 \in 0..len /\ ~(i <= i - 1)
      BY <1>0, <2>5
    <3> QED BY <1>8, <2>1, <3>1
  <2>7. TokenBytes[toks[i]] \in Nat \ {0}
    BY <1>0, <2>5
  <2> DEFINE t == TokenBytes[toks[i]]
             a == hay.off[u]
             b == hay.off[u + (i - 1)]
             c == hay.off[u + i]
             g == f[i - 1]
  <2>8. /\ t \in Nat \ {0} /\ a \in Nat /\ b \in Nat /\ c \in Nat /\ g \in Nat
        /\ b - a <= g /\ c - b <= t /\ f[i] = g + t
    BY <1>3, <2>3, <2>5, <2>6, <2>7
  <2> HIDE DEF t, a, b, c, g
  <2>9. c - a <= g + t
    BY <2>8
  <2> QED BY <2>2, <2>8, <2>9 DEF a, c
<1>5. f[len] \in Nat /\ f[len] >= len /\ hay.off[u + len] - hay.off[u] <= f[len]
  <2>1. len \in 0..len
    BY <1>0
  <2> QED BY <1>4, <1>8, <2>1
<1>6. f[len] <= maxBytes
  BY <1>1, <1>2 DEF IsMaxBytes, toks
<1>7. len <= maxBytes /\ hay.off[u + len] - hay.off[u] <= maxBytes
  <2>1. len \in 0..len /\ u + len \in 0..hay.n
    BY <1>0
  <2>2. hay.off[u + len] \in Nat /\ hay.off[u] \in Nat
    BY <1>0, <2>1 DEF IsHaystack
  <2> QED BY <1>0, <1>2, <1>5, <1>6, <2>2
<1> QED BY <1>0, <1>2, <1>7 DEF len

LEMMA PatternUnits ==
  ASSUME Typed, NEW id \in Ids(pats)
  PROVE  Len(pats[id]) \in Nat \ {0} /\ Len(pats[id]) <= maxBytes
<1>1. IsPatternSet(pats) /\ pats[id] # <<>>
  BY PartitionAssumption DEF Typed, EmptyIds
<1>2. DOMAIN pats[id] = 1..Len(pats[id]) /\ Len(pats[id]) \in Nat \ {0}
  BY <1>1 DEF IsPatternSet, Ids
<1>3. \A i \in 1..Len(pats[id]) : TokenBytes[pats[id][i]] \in Nat \ {0}
  BY <1>2, PartitionAssumption DEF Typed
<1>4. PICK f : IsSum(pats[id], Len(pats[id]), f) /\ Spelled(pats[id]) = f[Len(pats[id])]
  BY <1>2, SpelledIsSum
<1>5. Len(pats[id]) \in 0..Len(pats[id])
  BY <1>2
<1>6. f[Len(pats[id])] \in Nat /\ f[Len(pats[id])] >= Len(pats[id])
  BY <1>2, <1>3, <1>4, <1>5, SumBounds
<1>7. f[Len(pats[id])] <= maxBytes /\ maxBytes \in Nat
  BY <1>4, MaxBytesTyped DEF IsMaxBytes
<1> QED BY <1>2, <1>6, <1>7

LEMMA Base ==
  ASSUME Typed
  PROVE  /\ IsPatternSet(pats) /\ IsHaystack(hay)
         /\ hay.n \in Nat /\ Bytes(hay) \in Nat /\ maxBytes \in Nat
         /\ 0 \in 0..hay.n /\ hay.off[0] = 0
         /\ hay.n \in 0..hay.n /\ hay.off[hay.n] = Bytes(hay)
         /\ \A u \in 0..hay.n : hay.off[u] \in 0..Bytes(hay)
         /\ \A u, v \in 0..hay.n : u < v <=> hay.off[u] < hay.off[v]
         /\ \A u, v \in 0..hay.n : hay.off[u] = hay.off[v] => u = v
         /\ Ids(pats) \subseteq Nat
<1>1. IsPatternSet(pats) /\ IsHaystack(hay)
  BY PartitionAssumption DEF Typed, IsSpelledHaystack
<1>2. hay.n \in Nat /\ hay.off[0] = 0 /\ hay.off \in [0..hay.n -> Nat]
  BY <1>1 DEF IsHaystack
<1>3. \A u \in 0..hay.n : hay.off[u] \in 0..Bytes(hay)
  BY <1>1, OffTyped
<1>4. \A u, v \in 0..hay.n : u < v <=> hay.off[u] < hay.off[v]
  <2> TAKE u \in 0..hay.n, v \in 0..hay.n
  <2>1. u < v => hay.off[u] < hay.off[v]
    BY <1>1 DEF IsHaystack
  <2>2. v < u => hay.off[v] < hay.off[u]
    BY <1>1 DEF IsHaystack
  <2>3. hay.off[u] \in Nat /\ hay.off[v] \in Nat
    BY <1>2
  <2> QED BY <1>2, <2>1, <2>2, <2>3
<1>5. \A u, v \in 0..hay.n : hay.off[u] = hay.off[v] => u = v
  <2> TAKE u \in 0..hay.n, v \in 0..hay.n
  <2>1. (u < v <=> hay.off[u] < hay.off[v]) /\ (v < u <=> hay.off[v] < hay.off[u])
    BY <1>4
  <2>2. hay.off[u] \in Nat /\ hay.off[v] \in Nat
    BY <1>2
  <2> QED BY <1>2, <2>1, <2>2
<1>6. maxBytes \in Nat
  BY MaxBytesTyped
<1>7. Bytes(hay) \in Nat /\ hay.off[hay.n] = Bytes(hay)
  BY <1>2 DEF Bytes
<1>8. Ids(pats) \subseteq Nat
  BY <1>1 DEF IsPatternSet, Ids
<1>9. 0 \in 0..hay.n /\ hay.n \in 0..hay.n
  BY <1>2
<1> QED BY <1>1, <1>2, <1>3, <1>4, <1>5, <1>6, <1>7, <1>8, <1>9

\* Where an occurrence starts and ends.
LEMMA Ends ==
  ASSUME Typed, NEW id \in Ids(pats), NEW u \in 0..hay.n, Occurs(pats, hay, id, u),
         NEW s, NEW e, s = hay.off[u], e = hay.off[u + Len(pats[id])]
  PROVE  /\ s \in Nat /\ e \in Nat
         /\ s + Len(pats[id]) <= e /\ s < e /\ e <= s + maxBytes /\ e <= Bytes(hay)
<1> DEFINE len == Len(pats[id])
<1>1. /\ maxBytes \in Nat /\ len \in Nat \ {0}
      /\ u + len \in 0..hay.n /\ hay.off[u + len] - hay.off[u] <= maxBytes
  BY OccurrenceBytes
<1>2. s \in 0..Bytes(hay) /\ e \in 0..Bytes(hay) /\ Bytes(hay) \in Nat
      /\ IsHaystack(hay) /\ hay.n \in Nat
  BY <1>1, Base
<1>3. e >= s + len
  <2>1. u + len <= hay.n
    BY <1>1, <1>2
  <2> QED BY <1>1, <1>2, <2>1, UnitsHaveBytes
<1>4. e - s <= maxBytes
  BY <1>1
<1> HIDE DEF len
<1>5. s \in Nat /\ e \in Nat /\ e <= Bytes(hay)
  BY <1>2
<1>6. len \in Nat \ {0} /\ maxBytes \in Nat
  BY <1>1
<1>7. s + len <= e /\ s < e
  BY <1>3, <1>5, <1>6
<1>8. e <= s + maxBytes
  BY <1>4, <1>5, <1>6
<1> QED BY <1>5, <1>7, <1>8 DEF len

-----------------------------------------------------------------------------
(***************************************************************************)
(* Of two matches the better one beats what either beats, and an answer    *)
(* beats every occurrence.                                                 *)
(***************************************************************************)
IsMatch(m) ==
  \E id \in Ids(pats), u \in 0..hay.n :
    m = [pattern |-> id, start |-> hay.off[u]] /\ Occurs(pats, hay, id, u)

BeatsAll(m) ==
  \A id \in Ids(pats), u \in 0..hay.n : Occurs(pats, hay, id, u) => Beats(m, id, u)

LEMMA MatchTyped ==
  ASSUME Typed, NEW m, IsMatch(m)
  PROVE  m # NoMatch /\ m.start \in Nat /\ m.pattern \in Nat
<1>1. PICK id \in Ids(pats), u \in 0..hay.n : m = [pattern |-> id, start |-> hay.off[u]]
  BY DEF IsMatch
<1>2. id \in Nat /\ hay.off[u] \in Nat
  BY Base
<1> QED BY <1>1, <1>2 DEF NoMatch

LEMMA BetterBeats ==
  ASSUME Typed, NEW m, NEW other, m = NoMatch \/ IsMatch(m), other = NoMatch \/ IsMatch(other)
  PROVE  /\ Better(m, other) = m \/ Better(m, other) = other
         /\ Better(m, other) = NoMatch => m = NoMatch /\ other = NoMatch
         /\ \A id \in Ids(pats), u \in 0..hay.n :
              Beats(m, id, u) \/ Beats(other, id, u) => Beats(Better(m, other), id, u)
<1>1. CASE m = NoMatch \/ other = NoMatch
  BY <1>1 DEF Better, Beats
<1>2. CASE m # NoMatch /\ other # NoMatch
  <2>1. /\ m.start \in Nat /\ m.pattern \in Nat
        /\ other.start \in Nat /\ other.pattern \in Nat
    BY <1>2, MatchTyped
  <2>2. \A id \in Ids(pats), u \in 0..hay.n : id \in Nat /\ hay.off[u] \in Nat
    BY Base
  <2>3. Better(m, other) = m \/ Better(m, other) = other
    BY DEF Better
  <2>4. ASSUME NEW id \in Ids(pats), NEW u \in 0..hay.n, Beats(m, id, u) \/ Beats(other, id, u)
        PROVE  Beats(Better(m, other), id, u)
    <3> DEFINE s == hay.off[u]
    <3>1. s \in Nat /\ id \in Nat
      BY <2>2
    <3>2. \/ m.start < s \/ (m.start = s /\ m.pattern <= id)
          \/ other.start < s \/ (other.start = s /\ other.pattern <= id)
      BY <2>4 DEF Beats
    <3>3. CASE m.start < other.start \/ (m.start = other.start /\ m.pattern < other.pattern)
      <4>1. Better(m, other) = m
        BY <1>2, <3>3 DEF Better
      <4>2. m.start < s \/ (m.start = s /\ m.pattern <= id)
        <5> HIDE DEF s
        <5> QED BY <2>1, <3>1, <3>2, <3>3
      <4> QED BY <1>2, <4>1, <4>2 DEF Beats
    <3>4. CASE ~(m.start < other.start \/ (m.start = other.start /\ m.pattern < other.pattern))
      <4>1. Better(m, other) = other
        BY <1>2, <3>4 DEF Better
      <4>2. other.start < s \/ (other.start = s /\ other.pattern <= id)
        <5> HIDE DEF s
        <5> QED BY <2>1, <3>1, <3>2, <3>4
      <4> QED BY <1>2, <4>1, <4>2 DEF Beats
    <3> QED BY <3>3, <3>4
  <2> QED BY <1>2, <2>3, <2>4
<1> QED BY <1>1, <1>2

LEMMA AnswerBeatsAll ==
  ASSUME Typed, NEW m
  PROVE  IsAnswer(pats, hay, m) <=> (m = NoMatch \/ IsMatch(m)) /\ BeatsAll(m)
<1>1. ASSUME NEW id \in Ids(pats), NEW u \in 0..hay.n, m = [pattern |-> id, start |-> hay.off[u]],
             NEW other \in Ids(pats), NEW v \in 0..hay.n
      PROVE  Before(u, id, v, other) <=> Beats(m, other, v)
  <2>1. /\ u < v <=> hay.off[u] < hay.off[v]
        /\ u = v <=> hay.off[u] = hay.off[v]
        /\ m # NoMatch
    BY <1>1, Base, MatchTyped DEF NoMatch
  <2>2. m.start = hay.off[u] /\ m.pattern = id
    BY <1>1
  <2> QED BY <2>1, <2>2 DEF Before, Beats
<1>2. CASE m = NoMatch
  <2>1. ~IsMatch(m)
    BY <1>2, MatchTyped
  <2>2. \A id \in Ids(pats), u \in 0..hay.n : m # [pattern |-> id, start |-> hay.off[u]]
    <3> TAKE id \in Ids(pats), u \in 0..hay.n
    <3>1. id \in Nat /\ m.pattern = -1
      BY <1>2, Base DEF NoMatch
    <3> QED BY <3>1
  <2> QED BY <1>2, <2>1, <2>2 DEF IsAnswer, BeatsAll, Beats
<1>3. CASE m # NoMatch
  <2>1. IsAnswer(pats, hay, m) => IsMatch(m) /\ BeatsAll(m)
    BY <1>1, <1>3 DEF IsAnswer, IsMatch, BeatsAll
  <2>2. IsMatch(m) /\ BeatsAll(m) => IsAnswer(pats, hay, m)
    BY <1>1, <1>3 DEF IsAnswer, IsMatch, BeatsAll
  <2> QED BY <1>3, <2>1, <2>2
<1> QED BY <1>2, <1>3

-----------------------------------------------------------------------------
\* What a search of a part answers is the first of the occurrences within it.
Hits(from, to) ==
  {o \in Ids(pats) \X (0..hay.n) :
     /\ from <= hay.off[o[2]]
     /\ Occurs(pats, hay, o[1], o[2])
     /\ hay.off[o[2] + Len(pats[o[1]])] <= to}

LEMMA FirstHit ==
  ASSUME Typed, NEW hits \in SUBSET (Ids(pats) \X (0..hay.n)), hits # {}
  PROVE  \E o \in hits : \A p \in hits : Before(o[2], o[1], p[2], p[1])
<1>0. hay.n \in Nat /\ Ids(pats) \subseteq Nat
  BY Base
<1>1. PICK u \in {o[2] : o \in hits} : \A v \in {o[2] : o \in hits} : u <= v
  <2> DEFINE S == {o[2] : o \in hits}
  <2>1. \A o \in hits : o[2] \in Nat
    BY <1>0
  <2>2. S \in SUBSET Nat /\ S # {}
    BY <2>1
  <2>3. \E u \in S : \A v \in S : u <= v
    <3> HIDE DEF S
    <3> QED BY <2>2, Least
  <2> QED BY <2>3
<1> DEFINE T == {id \in Ids(pats) : <<id, u>> \in hits}
<1>2. PICK id \in T : \A other \in T : id <= other
  <2>1. T \in SUBSET Nat /\ T # {}
    <3>1. PICK o \in hits : o[2] = u
      BY <1>1
    <3>2. o = <<o[1], u>> /\ o[1] \in Ids(pats)
      BY <3>1
    <3> QED BY <1>0, <3>1, <3>2
  <2> HIDE DEF T
  <2> QED BY <2>1, Least
<1>3. <<id, u>> \in hits /\ id \in Nat /\ u \in Nat
  BY <1>0, <1>1, <1>2
<1>4. ASSUME NEW p \in hits PROVE Before(u, id, p[2], p[1])
  <2>1. p = <<p[1], p[2]>> /\ p[1] \in Ids(pats) /\ p[2] \in 0..hay.n
    OBVIOUS
  <2>2. u <= p[2]
    BY <1>1
  <2>3. p[2] = u => id <= p[1]
    BY <1>2, <2>1
  <2> QED BY <1>0, <1>3, <2>1, <2>2, <2>3 DEF Before
<1> QED BY <1>3, <1>4

LEMMA AnswerInIsFirst ==
  ASSUME Typed, NEW from, NEW to
  PROVE  FirstIn(from, to, AnswerIn(from, to))
<1> DEFINE hits == Hits(from, to)
           first == CHOOSE o \in hits : \A p \in hits : Before(o[2], o[1], p[2], p[1])
           m == AnswerIn(from, to)
<1>0. \A id \in Ids(pats), u \in 0..hay.n : <<id, u>> \in hits <=> Hit(from, to, id, u)
  BY DEF Hits, Hit
<1>1. m = IF hits = {} THEN NoMatch ELSE [pattern |-> first[1], start |-> hay.off[first[2]]]
  BY DEF AnswerIn, Hits
<1>2. CASE hits = {}
  <2>1. m = NoMatch
    BY <1>1, <1>2
  <2> QED BY <1>0, <1>2, <2>1 DEF FirstIn
<1>3. CASE hits # {}
  <2>0. hits \in SUBSET (Ids(pats) \X (0..hay.n))
    BY DEF Hits
  <2>1. first \in hits /\ \A p \in hits : Before(first[2], first[1], p[2], p[1])
    <3> HIDE DEF hits
    <3> QED BY <1>3, <2>0, FirstHit
  <2> DEFINE id == first[1]
             u == first[2]
  <2>2. id \in Ids(pats) /\ u \in 0..hay.n /\ first = <<id, u>>
    BY <2>0, <2>1
  <2> HIDE DEF hits, first
  <2>3. m = [pattern |-> id, start |-> hay.off[u]] /\ Hit(from, to, id, u)
    BY <1>0, <1>1, <1>3, <2>1, <2>2
  <2>4. m # NoMatch
    BY <2>2, <2>3, MatchTyped DEF IsMatch, Hit
  <2>5. ASSUME NEW other \in Ids(pats), NEW v \in 0..hay.n, Hit(from, to, other, v)
        PROVE  Beats(m, other, v)
    <3>1. <<other, v>> \in hits
      BY <1>0, <2>5
    <3>2. Before(u, id, v, other)
      BY <2>1, <3>1
    <3>3. u < v <=> hay.off[u] < hay.off[v]
      BY <2>2, Base
    <3>4. m.start = hay.off[u] /\ m.pattern = id
      BY <2>3
    <3> HIDE DEF m, id, u
    <3> QED BY <2>4, <3>2, <3>3, <3>4 DEF Before, Beats
  <2> HIDE DEF m, id, u
  <2>6. FirstIn(from, to, m)
    BY <2>2, <2>3, <2>5 DEF FirstIn
  <2> QED BY <2>6 DEF m
<1> QED BY <1>2, <1>3

LEMMA FirstIsMatch ==
  ASSUME NEW from, NEW to, NEW m, FirstIn(from, to, m)
  PROVE  m = NoMatch \/ IsMatch(m)
BY DEF FirstIn, IsMatch, Hit

\* There is one answer only, whichever of two parts with the same occurrences
\* is searched.
LEMMA SameAnswer ==
  ASSUME Typed, NEW from, NEW start, NEW to, NEW m, NEW other,
         FirstIn(from, to, m), FirstIn(start, to, other),
         \A id \in Ids(pats), u \in 0..hay.n :
           Hit(from, to, id, u) <=> Hit(start, to, id, u)
  PROVE  m = other
<1>1. CASE m = NoMatch \/ other = NoMatch
  BY <1>1 DEF FirstIn, Beats
<1>2. CASE m # NoMatch /\ other # NoMatch
  <2>1. PICK id \in Ids(pats), u \in 0..hay.n :
          m = [pattern |-> id, start |-> hay.off[u]] /\ Hit(from, to, id, u)
    BY <1>2 DEF FirstIn
  <2>2. PICK id2 \in Ids(pats), u2 \in 0..hay.n :
          other = [pattern |-> id2, start |-> hay.off[u2]] /\ Hit(start, to, id2, u2)
    BY <1>2 DEF FirstIn
  <2>3. Beats(m, id2, u2) /\ Beats(other, id, u)
    BY <2>1, <2>2 DEF FirstIn
  <2>4. id \in Nat /\ id2 \in Nat /\ hay.off[u] \in Nat /\ hay.off[u2] \in Nat
    BY Base
  <2>5. id = id2 /\ hay.off[u] = hay.off[u2]
    BY <2>1, <2>2, <2>3, <2>4 DEF Beats
  <2> QED BY <2>1, <2>2, <2>5
<1> QED BY <1>1, <1>2

-----------------------------------------------------------------------------
\* The first of some units from a boundary on.
LEMMA FirstFromIsFirst ==
  ASSUME Typed, NEW at \in 0..Bytes(hay), NEW units \in SUBSET Units
  PROVE  /\ FirstFrom(at, units) \in 0..Bytes(hay) /\ at <= FirstFrom(at, units)
         /\ OnBoundary(FirstFrom(at, units))
         /\ \A u \in units : at <= hay.off[u] => FirstFrom(at, units) <= hay.off[u]
         /\ FirstFrom(at, units) # Bytes(hay) =>
              \E u \in units : hay.off[u] = FirstFrom(at, units)
<1> DEFINE stops == {u \in units : at <= hay.off[u]}
           first == CHOOSE u \in stops : \A v \in stops : u <= v
<1>0. /\ hay.n \in Nat /\ Bytes(hay) \in Nat
      /\ hay.n \in 0..hay.n /\ hay.off[hay.n] = Bytes(hay)
      /\ \A u \in 0..hay.n : hay.off[u] \in 0..Bytes(hay)
      /\ \A u, v \in 0..hay.n : u < v <=> hay.off[u] < hay.off[v]
  BY Base
<1>1. CASE stops = {}
  <2>1. FirstFrom(at, units) = Bytes(hay)
    BY <1>1 DEF FirstFrom
  <2>2. OnBoundary(Bytes(hay))
    BY <1>0 DEF OnBoundary
  <2>3. \A u \in units : ~(at <= hay.off[u])
    BY <1>1
  <2> HIDE DEF stops
  <2>4. at <= Bytes(hay)
    BY <1>0
  <2>5. Bytes(hay) \in 0..Bytes(hay)
    BY <1>0
  <2> QED BY <2>1, <2>2, <2>3, <2>4, <2>5
<1>2. CASE stops # {}
  <2>0. stops \in SUBSET Nat
    BY <1>0 DEF Units
  <2>1. first \in stops /\ \A v \in stops : first <= v
    <3> HIDE DEF stops
    <3> QED BY <1>2, <2>0, Least
  <2>2. FirstFrom(at, units) = hay.off[first]
    BY <1>2 DEF FirstFrom
  <2>3. first \in units /\ at <= hay.off[first]
    BY <2>1
  <2>4. \A v \in units : at <= hay.off[v] => first <= v
    BY <2>1
  <2> HIDE DEF stops, first
  <2>5. \A v \in units : v \in 0..hay.n
    BY <1>0 DEF Units
  <2>6. ASSUME NEW v \in units, at <= hay.off[v] PROVE hay.off[first] <= hay.off[v]
    <3>1. first \in 0..hay.n /\ v \in 0..hay.n /\ first <= v
      BY <2>3, <2>4, <2>5, <2>6
    <3>2. v < first <=> hay.off[v] < hay.off[first]
      BY <1>0, <3>1
    <3>3. hay.off[v] \in Nat /\ hay.off[first] \in Nat
      BY <1>0, <3>1
    <3> QED BY <1>0, <3>1, <3>2, <3>3
  <2>7. OnBoundary(hay.off[first])
    BY <2>3, <2>5 DEF OnBoundary
  <2>8. hay.off[first] \in 0..Bytes(hay)
    BY <1>0, <2>3, <2>5
  <2> QED BY <2>2, <2>3, <2>6, <2>7, <2>8
<1> QED BY <1>1, <1>2

\* Among ASCII bytes every byte is a boundary.
LEMMA RunBoundary ==
  ASSUME Typed, NEW from, OnBoundary(from), NEW to \in 0..Bytes(hay),
         \A u \in Units : from <= hay.off[u] /\ hay.off[u] < to => hay.ascii[u],
         NEW b \in Nat, from <= b, b <= to
  PROVE  OnBoundary(b)
<1>0. /\ hay.n \in Nat /\ Bytes(hay) \in Nat
      /\ hay.n \in 0..hay.n /\ hay.off[hay.n] = Bytes(hay)
      /\ \A u \in 0..hay.n : hay.off[u] \in 0..Bytes(hay)
      /\ \A u, v \in 0..hay.n : u < v <=> hay.off[u] < hay.off[v]
  BY Base
<1>1. PICK w \in 0..hay.n : hay.off[w] = from
  BY DEF OnBoundary
<1> DEFINE S == {v \in 0..hay.n : hay.off[v] >= b}
<1>2. PICK v \in S : \A x \in S : v <= x
  <2>1. hay.n \in S
    BY <1>0
  <2>2. S \in SUBSET Nat /\ S # {}
    BY <1>0, <2>1
  <2> HIDE DEF S
  <2> QED BY <2>2, Least
<1>3. v \in 0..hay.n /\ hay.off[v] >= b
  OBVIOUS
<1> SUFFICES ASSUME hay.off[v] # b PROVE FALSE
  BY <1>3 DEF OnBoundary
<1>4. hay.off[v] > b /\ hay.off[v] \in Nat /\ hay.off[w] \in Nat
  BY <1>0, <1>1, <1>3
<1>5. w < v
  <2>1. w < v <=> hay.off[w] < hay.off[v]
    BY <1>0, <1>1, <1>3
  <2> QED BY <1>1, <1>4, <2>1
<1>6. v - 1 \in 0..hay.n /\ v - 1 \in Units /\ w <= v - 1 /\ (v - 1) + 1 = v /\ ~(v <= v - 1)
  BY <1>0, <1>1, <1>3, <1>5 DEF Units
<1>7. hay.off[v - 1] < b /\ hay.off[v - 1] \in Nat
  <2>1. v - 1 \notin S
    BY <1>2, <1>6
  <2>2. hay.off[v - 1] \in Nat
    BY <1>0, <1>6
  <2> QED BY <1>6, <2>1, <2>2
<1>8. from <= hay.off[v - 1]
  <2>1. v - 1 < w <=> hay.off[v - 1] < hay.off[w]
    BY <1>0, <1>1, <1>6
  <2> QED BY <1>0, <1>1, <1>4, <1>6, <1>7, <2>1
<1>9. hay.ascii[v - 1]
  <2>1. hay.off[v - 1] < to
    BY <1>0, <1>7
  <2> QED BY <1>6, <1>8, <2>1
<1>10. hay.off[v] = hay.off[v - 1] + 1
  BY <1>6, <1>9, Base DEF IsHaystack, Units
<1> QED BY <1>4, <1>7, <1>10

LEMMA SpanBytes ==
  ASSUME Typed, NEW at \in 0..Bytes(hay)
  PROVE  /\ SpanEnd(at) \in 0..Bytes(hay) /\ at <= SpanEnd(at) /\ OnBoundary(SpanEnd(at))
         /\ \A u \in Units : hay.off[u] = at /\ Exceptional(u) => at < SpanEnd(at)
<1> DEFINE plain == {u \in Units : ~Exceptional(u)}
<1>0. /\ plain \in SUBSET Units /\ hay.n \in Nat /\ Bytes(hay) \in Nat
      /\ \A u, v \in 0..hay.n : hay.off[u] = hay.off[v] => u = v
      /\ hay.n \in 0..hay.n /\ hay.off[hay.n] = Bytes(hay)
      /\ Units \subseteq 0..hay.n
  BY Base DEF Units
<1>1. SpanEnd(at) = FirstFrom(at, plain)
  BY DEF SpanEnd
<1>2. \A u \in plain : u \in Units /\ ~Exceptional(u)
  OBVIOUS
<1> HIDE DEF plain
<1>3. /\ SpanEnd(at) \in 0..Bytes(hay) /\ at <= SpanEnd(at) /\ OnBoundary(SpanEnd(at))
      /\ SpanEnd(at) # Bytes(hay) => \E u \in plain : hay.off[u] = SpanEnd(at)
  BY <1>0, <1>1, FirstFromIsFirst
<1>4. ASSUME NEW u \in Units, hay.off[u] = at, Exceptional(u) PROVE at # SpanEnd(at)
  <2> SUFFICES ASSUME at = SpanEnd(at) PROVE FALSE
    OBVIOUS
  <2>1. u # hay.n /\ u \in 0..hay.n
    BY <1>0 DEF Units
  <2>2. at # Bytes(hay)
    BY <1>0, <1>4, <2>1
  <2>3. PICK v \in plain : hay.off[v] = at
    BY <1>3, <2>2
  <2>4. v \in 0..hay.n /\ ~Exceptional(v)
    BY <1>0, <1>2, <2>3
  <2> QED BY <1>0, <1>4, <2>1, <2>3, <2>4
<1>5. ASSUME NEW u \in Units, hay.off[u] = at, Exceptional(u) PROVE at < SpanEnd(at)
  BY <1>0, <1>3, <1>4, <1>5
<1> QED BY <1>3, <1>5

\* Up to the next span the bytes are ASCII.
LEMMA NextIsHigh ==
  ASSUME Typed, NEW at \in 0..Bytes(hay), NEW next,
         next = NextHigh(at) \/ next = NextExceptional(at)
  PROVE  /\ next \in 0..Bytes(hay) /\ at <= next /\ OnBoundary(next)
         /\ \A u \in Units : at <= hay.off[u] /\ hay.off[u] < next => hay.ascii[u]
         /\ next # Bytes(hay) => \E u \in Units : hay.off[u] = next /\ Exceptional(u)
<1>0. hay.n \in Nat /\ Bytes(hay) \in Nat /\ \A u \in Units : hay.off[u] \in Nat
  BY Base DEF Units
<1>1. PICK units \in {{u \in Units : High(u)}, {u \in Units : Exceptional(u)}} :
        next = FirstFrom(at, units)
  BY DEF NextHigh, NextExceptional
<1>2. /\ units \in SUBSET Units
      /\ \A u \in units : Exceptional(u)
      /\ \A u \in Units : u \notin units => hay.ascii[u]
  BY DEF Exceptional, High
<1>3. /\ next \in 0..Bytes(hay) /\ at <= next /\ OnBoundary(next)
      /\ \A u \in units : at <= hay.off[u] => next <= hay.off[u]
      /\ next # Bytes(hay) => \E u \in units : hay.off[u] = next
  BY <1>1, <1>2, FirstFromIsFirst
<1>4. ASSUME NEW u \in Units, at <= hay.off[u], hay.off[u] < next PROVE hay.ascii[u]
  <2>1. next \in Nat /\ hay.off[u] \in Nat
    BY <1>0, <1>3
  <2>2. ~(next <= hay.off[u])
    BY <1>4, <2>1
  <2> QED BY <1>2, <1>3, <1>4, <2>2
<1> QED BY <1>2, <1>3, <1>4

LEMMA WindowBytes ==
  ASSUME Typed, NEW at \in 0..Bytes(hay)
  PROVE  /\ WindowFrom(at) \in 0..Bytes(hay) /\ WindowFrom(at) <= at
         /\ at - WindowFrom(at) <= maxBytes
         /\ WindowFrom(at) # 0 => WindowFrom(at) + maxBytes = at
         /\ WindowTo(at) \in 0..Bytes(hay) /\ at <= WindowTo(at)
         /\ WindowTo(at) # Bytes(hay) => WindowTo(at) = at + maxBytes
<1>1. Bytes(hay) \in Nat /\ maxBytes \in Nat
  BY Base
<1>2. CASE at < maxBytes
  BY <1>1, <1>2 DEF WindowFrom, WindowTo
<1>3. CASE ~(at < maxBytes)
  BY <1>1, <1>3 DEF WindowFrom, WindowTo
<1> QED BY <1>2, <1>3

\* From a boundary on, the window's cut before the next span is a boundary.
LEMMA WindowBoundary ==
  ASSUME Typed, NEW at \in 0..Bytes(hay), OnBoundary(at), NEW next,
         next = NextHigh(at) \/ next = NextExceptional(at),
         NEW b \in Nat, at <= b, b <= next
  PROVE  OnBoundary(b)
<1>1. /\ next \in 0..Bytes(hay)
      /\ \A u \in Units : at <= hay.off[u] /\ hay.off[u] < next => hay.ascii[u]
  BY NextIsHigh
<1> QED BY <1>1, RunBoundary

-----------------------------------------------------------------------------
\* A search of all that is left has the answer.
LEMMA RestAnswers ==
  ASSUME Typed, NEW at, NothingBefore(at), NEW m, FirstIn(at, Bytes(hay), m)
  PROVE  IsAnswer(pats, hay, m)
<1>1. ASSUME NEW id \in Ids(pats), NEW u \in 0..hay.n, Occurs(pats, hay, id, u)
      PROVE  Beats(m, id, u)
  <2>1. hay.off[u + Len(pats[id])] <= Bytes(hay)
    BY <1>1, Ends
  <2>2. at <= hay.off[u]
    <3>1. hay.off[u] >= at
      BY <1>1 DEF NothingBefore
    <3> QED BY <3>1
  <2>3. Hit(at, Bytes(hay), id, u)
    BY <1>1, <2>1, <2>2 DEF Hit
  <2> QED BY <2>3 DEF FirstIn
<1> QED BY <1>1, FirstIsMatch, AnswerBeatsAll DEF BeatsAll

\* A search of the part before the next span, that finds nothing before the
\* span's window, leaves nothing before that window.
LEMMA GapLoses ==
  ASSUME Typed, NEW at, NothingBefore(at), NEW next \in 0..Bytes(hay),
         NEW m, FirstIn(at, next, m), m # NoMatch => m.start >= WindowFrom(next)
  PROVE  NothingBefore(WindowFrom(next))
<1> SUFFICES ASSUME NEW id \in Ids(pats), NEW u \in 0..hay.n, Occurs(pats, hay, id, u),
                    ~(hay.off[u] >= WindowFrom(next))
             PROVE  FALSE
  BY DEF NothingBefore
<1> DEFINE s == hay.off[u]
           e == hay.off[u + Len(pats[id])]
           w == WindowFrom(next)
<1>1. s \in Nat /\ e \in Nat /\ e <= s + maxBytes /\ maxBytes \in Nat
  BY Ends, Base
<1>2. w \in Nat /\ (w # 0 => w + maxBytes = next) /\ next \in Nat
  BY Base, WindowBytes
<1>3. s >= at
  BY DEF NothingBefore
<1>4. s < w
  BY <1>1, <1>2
<1>5. e <= next
  <2> HIDE DEF s, e, w
  <2> QED BY <1>1, <1>2, <1>4
<1>6. Hit(at, next, id, u)
  <2>1. at <= s
    BY <1>3
  <2> QED BY <1>5, <2>1 DEF Hit
<1>7. Beats(m, id, u)
  BY <1>6 DEF FirstIn
<1>8. m # NoMatch /\ m.start \in Nat /\ m.start <= s /\ m.start >= w
  BY <1>1, <1>7, MatchTyped, FirstIsMatch DEF Beats
<1> HIDE DEF s, e, w
<1> QED BY <1>1, <1>2, <1>4, <1>8

\* For a single pattern: the first match from a byte on beats all from there
\* on, the ones that the search could not see included.
LEMMA SingleBeats ==
  ASSUME Typed, asciiOnly, NEW from, NEW to, NEW m, FirstIn(from, to, m), m # NoMatch,
         NEW id \in Ids(pats), NEW u \in 0..hay.n, Occurs(pats, hay, id, u),
         from <= hay.off[u], to \in Int
  PROVE  Beats(m, id, u)
<1>1. PICK id2 \in Ids(pats), v \in 0..hay.n :
        m = [pattern |-> id2, start |-> hay.off[v]] /\ Hit(from, to, id2, v)
  BY DEF FirstIn
<1>2. id = 0 /\ id2 = 0
  BY DEF Typed, Ids
<1> DEFINE len == Len(pats[0])
<1>3. /\ hay.off[u] \in Nat /\ hay.off[v] \in Nat /\ u \in Nat /\ v \in Nat
      /\ hay.off[u + len] \in Nat /\ hay.off[v + len] \in Nat
  <2>1. Occurs(pats, hay, 0, u) /\ Occurs(pats, hay, 0, v) /\ 0 \in Ids(pats)
    BY <1>1, <1>2 DEF Hit
  <2>2. hay.off[u] \in Nat /\ hay.off[u + len] \in Nat
    BY <2>1, Ends
  <2>3. hay.off[v] \in Nat /\ hay.off[v + len] \in Nat
    BY <2>1, Ends
  <2> QED BY <2>2, <2>3
<1>4. u < v <=> hay.off[u] < hay.off[v]
  BY <1>1, Base
<1>5. CASE hay.off[u + len] <= to
  BY <1>2, <1>5 DEF FirstIn, Hit
<1>6. CASE ~(hay.off[u + len] <= to)
  <2>1. hay.off[v + len] <= to
    BY <1>1, <1>2 DEF Hit
  <2>2. hay.off[v + len] < hay.off[u + len]
    BY <1>3, <1>6, <2>1
  <2>3. u + len \in 0..hay.n /\ v + len \in 0..hay.n /\ len \in Nat
    BY <1>1, <1>2, OccurrenceBytes DEF Hit
  <2>4. v + len < u + len
    BY <2>2, <2>3, Base
  <2>5. v < u
    BY <1>3, <2>3, <2>4
  <2>6. hay.off[v] < hay.off[u]
    BY <1>1, <2>5, Base
  <2>7. m.start = hay.off[v]
    BY <1>1
  <2> QED BY <2>6, <2>7 DEF Beats
<1> QED BY <1>5, <1>6

\* The single pattern's gap search has the answer, unless a span is left.
LEMMA GapAnswers ==
  ASSUME Typed, asciiOnly, NEW at \in 0..Bytes(hay), NothingBefore(at),
         GapMatch(at) # NoMatch \/ GapHigh(at) < 0
  PROVE  IsAnswer(pats, hay, GapMatch(at))
<1> DEFINE next == NextHigh(at)
           m == GapMatch(at)
<1>1. next \in 0..Bytes(hay) /\ Bytes(hay) \in Nat
  BY NextIsHigh, Base
<1>2. FirstIn(at, next, m)
  BY AnswerInIsFirst DEF GapMatch
<1>3. ASSUME NEW id \in Ids(pats), NEW u \in 0..hay.n, Occurs(pats, hay, id, u)
      PROVE  Beats(m, id, u)
  <2>1. at <= hay.off[u]
    <3>1. hay.off[u] >= at
      BY <1>3 DEF NothingBefore
    <3> QED BY <3>1
  <2>2. CASE m # NoMatch
    <3> HIDE DEF m, next
    <3> QED BY <1>1, <1>2, <1>3, <2>1, <2>2, SingleBeats
  <2>3. CASE m = NoMatch
    <3> DEFINE s == hay.off[u]
               e == hay.off[u + Len(pats[id])]
    <3>1. id = 0
      BY DEF Typed, Ids
    <3>2. s \in Nat /\ e \in Nat /\ s + Len(pats[0]) <= e /\ e <= Bytes(hay)
      BY <1>3, <3>1, Ends
    <3>3. Len(pats[0]) \in Nat
      BY <3>1, PatternUnits
    <3>4. ~(Bytes(hay) - at < Len(pats[0]) - 1)
      <4> HIDE DEF s, e
      <4>1. at <= s
        BY <2>1 DEF s
      <4> QED BY <1>1, <3>2, <3>3, <4>1
    <3>5. next = Bytes(hay)
      <4>1. GapHigh(at) < 0
        BY <2>3
      <4>2. next # Bytes(hay) => GapHigh(at) = next
        BY <3>4 DEF GapHigh
      <4> QED BY <1>1, <4>1, <4>2
    <3>6. Hit(at, next, id, u)
      BY <1>3, <2>1, <3>2, <3>5 DEF Hit
    <3> QED BY <1>2, <3>6 DEF FirstIn
  <2> QED BY <2>2, <2>3
<1> HIDE DEF m
<1>4. IsAnswer(pats, hay, m)
  BY <1>2, <1>3, FirstIsMatch, AnswerBeatsAll DEF BeatsAll
<1> QED BY <1>4 DEF m

-----------------------------------------------------------------------------
(***************************************************************************)
(* What the searches of a group leave: every match that neither the region *)
(* nor the window has starts behind the group's last span, and crosses the *)
(* end of the window.                                                      *)
(***************************************************************************)
Region == IF cursor < spanStart THEN AnswerIn(cursor, spanStart) ELSE NoMatch

LEMMA RegionIsFirst ==
  ASSUME Typed, Group, phase = "search", pending = NoMatch \/ IsMatch(pending)
  PROVE  /\ FirstIn(cursor, spanStart, Region)
         /\ Ahead = Better(Region, pending)
         /\ ~asciiOnly => Ahead = Region
<1>1. FirstIn(cursor, spanStart, Region)
  <2>1. CASE cursor < spanStart
    BY <2>1, AnswerInIsFirst DEF Region
  <2>2. CASE ~(cursor < spanStart)
    <3>1. ASSUME NEW id \in Ids(pats), NEW u \in 0..hay.n, Hit(cursor, spanStart, id, u)
          PROVE  FALSE
      <4> DEFINE s == hay.off[u]
                 e == hay.off[u + Len(pats[id])]
      <4>1. s \in Nat /\ e \in Nat /\ s < e
        BY <3>1, Ends DEF Hit
      <4>2. cursor <= s /\ e <= spanStart
        BY <3>1 DEF Hit
      <4>3. cursor \in Nat /\ spanStart \in Nat
        BY Base DEF Typed
      <4> HIDE DEF s, e
      <4> QED BY <2>2, <4>1, <4>2, <4>3
    <3> QED BY <2>2, <3>1 DEF Region, FirstIn
  <2> QED BY <2>1, <2>2
<1>2. Ahead = Better(Region, pending)
  BY DEF Ahead, Region, Better
<1>3. ASSUME ~asciiOnly PROVE Ahead = Region
  <2>1. CASE pending = NoMatch
    BY <1>2, <2>1 DEF Better
  <2>2. CASE pending # NoMatch
    <3>1. FirstIn(cursor, spanStart, pending)
      BY <1>3, <2>2 DEF Group
    <3>2. pending = Region
      BY <1>1, <3>1, SameAnswer
    <3> QED BY <1>2, <3>2 DEF Better
  <2> QED BY <2>1, <2>2
<1> QED BY <1>1, <1>2, <1>3

Left(id, u) == /\ scanAt < hay.off[u] /\ windowStart <= hay.off[u]
               /\ windowEnd < hay.off[u + Len(pats[id])]

LEMMA GroupLeaves ==
  ASSUME Typed, Group, Bounds, phase = "search",
         NEW region, FirstIn(cursor, spanStart, region),
         NEW window, FirstIn(windowStart, windowEnd, window),
         NEW id \in Ids(pats), NEW u \in 0..hay.n, Occurs(pats, hay, id, u)
  PROVE  /\ hay.off[u] < windowStart => Beats(region, id, u)
         /\ Beats(region, id, u) \/ Beats(window, id, u) \/ Left(id, u)
<1> DEFINE s == hay.off[u]
           e == hay.off[u + Len(pats[id])]
<1>1. /\ s \in Nat /\ e \in Nat /\ e <= s + maxBytes /\ maxBytes \in Nat
      /\ Bytes(hay) \in Nat /\ e <= Bytes(hay)
  BY Ends, Base
<1>2. /\ windowStart \in Nat /\ (windowStart # 0 => windowStart + maxBytes = spanStart)
      /\ windowStart <= spanStart
  <2>1. windowStart = WindowFrom(spanStart) /\ spanStart \in 0..Bytes(hay)
    BY DEF Typed, Bounds
  <2> QED BY <1>1, <2>1, WindowBytes
<1>3. windowEnd \in Nat /\ (windowEnd # Bytes(hay) => windowEnd = scanAt + maxBytes)
  <2>1. windowEnd = WindowTo(scanAt) /\ scanAt \in 0..Bytes(hay)
    BY DEF Typed, Bounds
  <2> QED BY <1>1, <2>1, WindowBytes
<1>4. cursor \in Nat /\ spanStart \in Nat /\ scanAt \in Nat /\ cursor <= s
  <2>1. s >= cursor
    BY DEF Group, NothingBefore
  <2>2. cursor \in Nat /\ spanStart \in Nat /\ scanAt \in Nat
    BY <1>1 DEF Typed
  <2> QED BY <1>1, <2>1, <2>2
<1>5. e <= spanStart => Beats(region, id, u)
  BY <1>4 DEF Hit, FirstIn
<1>6. windowStart <= s /\ e <= windowEnd => Beats(window, id, u)
  BY DEF Hit, FirstIn
<1>7. s < windowStart => e <= spanStart
  <2> HIDE DEF s, e
  <2> QED BY <1>1, <1>2, <1>4
<1>8. windowStart <= s /\ ~(e <= windowEnd) => scanAt < s /\ windowEnd < e
  <2> HIDE DEF s, e
  <2> QED BY <1>1, <1>3, <1>4
<1>9. s < windowStart \/ windowStart <= s
  BY <1>1, <1>2
<1> QED BY <1>5, <1>6, <1>7, <1>8, <1>9 DEF Left

\* A group without an answer leaves nothing before the end of its last span.
LEMMA GroupPassed ==
  ASSUME Typed, Group, Bounds, phase = "search", pending = NoMatch \/ IsMatch(pending),
         GroupAnswer = NoMatch
  PROVE  NothingBefore(scanAt) /\ pending = NoMatch
<1> DEFINE window == AnswerIn(windowStart, windowEnd)
<1>1. FirstIn(windowStart, windowEnd, window)
  BY AnswerInIsFirst
<1>2. FirstIn(cursor, spanStart, Region) /\ Ahead = Better(Region, pending)
  BY RegionIsFirst
<1>3. Better(Ahead, window) = NoMatch
  BY DEF GroupAnswer
<1> HIDE DEF window
<1>4. Ahead = NoMatch /\ window = NoMatch
  BY <1>3 DEF Better
<1>5. Region = NoMatch /\ pending = NoMatch
  BY <1>2, <1>4 DEF Better
<1>6. ASSUME NEW id \in Ids(pats), NEW u \in 0..hay.n, Occurs(pats, hay, id, u)
      PROVE  hay.off[u] >= scanAt
  <2>1. ~Beats(Region, id, u) /\ ~Beats(window, id, u)
    BY <1>4, <1>5 DEF Beats
  <2>2. scanAt < hay.off[u]
    BY <1>1, <1>2, <1>6, <2>1, GroupLeaves DEF Left
  <2>3. scanAt \in Nat /\ hay.off[u] \in Nat
    BY Base DEF Typed
  <2> QED BY <2>2, <2>3
<1> QED BY <1>5, <1>6 DEF NothingBefore

-----------------------------------------------------------------------------
\* The answer of a group.
LEMMA PendingIsMatch ==
  ASSUME Typed, Group, Seen, phase = "search"
  PROVE  /\ pending = NoMatch \/ IsMatch(pending)
         /\ asciiOnly /\ pending # NoMatch => FirstIn(scanAt, NextHigh(scanAt), pending)
<1>1. CASE asciiOnly
  <2>1. pending = NoMatch \/ pending = GapMatch(scanAt)
    BY <1>1 DEF Seen, NextKnown, NoneFollows
  <2>2. FirstIn(scanAt, NextHigh(scanAt), GapMatch(scanAt))
    BY AnswerInIsFirst DEF GapMatch
  <2> QED BY <2>1, <2>2, FirstIsMatch
<1>2. CASE ~asciiOnly
  BY <1>2, FirstIsMatch DEF Group
<1> QED BY <1>1, <1>2

\* If the region's answer starts before the window, it stands.
LEMMA RegionStands ==
  ASSUME Typed, Group, Bounds, Seen, phase = "search",
         Ahead # NoMatch, Ahead.start < windowStart
  PROVE  IsAnswer(pats, hay, Ahead)
<1>0. pending = NoMatch \/ IsMatch(pending)
  BY PendingIsMatch
<1>1. /\ FirstIn(cursor, spanStart, Region) /\ Ahead = Better(Region, pending)
      /\ FirstIn(windowStart, windowEnd, AnswerIn(windowStart, windowEnd))
  BY <1>0, RegionIsFirst, AnswerInIsFirst
<1>2. Region = NoMatch \/ IsMatch(Region)
  BY <1>1, FirstIsMatch
<1>3. IsMatch(Ahead)
  BY <1>0, <1>1, <1>2, BetterBeats
<1>4. ASSUME NEW id \in Ids(pats), NEW u \in 0..hay.n, Occurs(pats, hay, id, u)
      PROVE  Beats(Ahead, id, u)
  <2>1. CASE hay.off[u] < windowStart
    <3>1. Beats(Region, id, u)
      BY <1>1, <1>4, <2>1, GroupLeaves
    <3> QED BY <1>0, <1>1, <1>2, <3>1, BetterBeats
  <2>2. CASE ~(hay.off[u] < windowStart)
    <3>1. Ahead.start \in Nat /\ hay.off[u] \in Nat /\ windowStart \in Nat
      BY <1>3, MatchTyped, Base DEF Typed
    <3>2. Ahead.start < hay.off[u]
      BY <2>2, <3>1
    <3> QED BY <3>2 DEF Beats
  <2> QED BY <2>1, <2>2
<1> QED BY <1>3, <1>4, AnswerBeatsAll DEF BeatsAll

LEMMA SingleStands ==
  ASSUME Typed, Group, Bounds, Seen, phase = "search", asciiOnly,
         NEW window, FirstIn(windowStart, windowEnd, window),
         NEW m, m = Better(Ahead, window), m # NoMatch
  PROVE  IsAnswer(pats, hay, m)
<1>0. /\ pending = NoMatch \/ IsMatch(pending)
      /\ pending # NoMatch => FirstIn(scanAt, NextHigh(scanAt), pending)
  BY PendingIsMatch
<1>1. FirstIn(cursor, spanStart, Region) /\ Ahead = Better(Region, pending)
  BY <1>0, RegionIsFirst
<1>2. (Region = NoMatch \/ IsMatch(Region)) /\ (window = NoMatch \/ IsMatch(window))
  BY <1>1, FirstIsMatch
<1>3. Ahead = NoMatch \/ IsMatch(Ahead)
  BY <1>0, <1>1, <1>2, BetterBeats
<1>4. IsMatch(m)
  BY <1>2, <1>3, BetterBeats
<1>5. ASSUME NEW id \in Ids(pats), NEW u \in 0..hay.n, Occurs(pats, hay, id, u)
      PROVE  Beats(m, id, u)
  <2>0. SUFFICES Beats(Region, id, u) \/ Beats(pending, id, u) \/ Beats(window, id, u)
    <3>1. Beats(Region, id, u) \/ Beats(pending, id, u) => Beats(Ahead, id, u)
      BY <1>0, <1>1, <1>2, BetterBeats
    <3> QED BY <1>2, <1>3, <3>1, BetterBeats
  <2>1. CASE Left(id, u)
    <3>0. /\ cursor <= hay.off[u] /\ windowStart <= hay.off[u] /\ scanAt <= hay.off[u]
          /\ spanStart \in Int /\ windowEnd \in Int /\ NextHigh(scanAt) \in Int
      <4>1. hay.off[u] >= cursor
        BY <1>5 DEF Group, NothingBefore
      <4>2. windowStart <= hay.off[u] /\ scanAt < hay.off[u]
        BY <2>1 DEF Left
      <4>3. hay.off[u] \in Nat /\ cursor \in Nat /\ scanAt \in Nat /\ Bytes(hay) \in Nat
        BY Base DEF Typed
      <4>4. NextHigh(scanAt) \in 0..Bytes(hay)
        BY NextIsHigh DEF Typed
      <4>5. spanStart \in Int /\ windowEnd \in Int
        BY <4>3 DEF Typed
      <4> QED BY <4>1, <4>2, <4>3, <4>4, <4>5
    <3>1. CASE window # NoMatch
      BY <1>5, <3>0, <3>1, SingleBeats
    <3>2. CASE Region # NoMatch
      BY <1>1, <1>5, <3>0, <3>2, SingleBeats
    <3>3. CASE pending # NoMatch
      BY <1>0, <1>5, <3>0, <3>3, SingleBeats
    <3>4. window # NoMatch \/ Region # NoMatch \/ pending # NoMatch
      BY <1>1 DEF Better
    <3> QED BY <3>1, <3>2, <3>3, <3>4
  <2>2. CASE ~Left(id, u)
    BY <1>1, <1>5, <2>2, GroupLeaves
  <2> QED BY <2>1, <2>2
<1> QED BY <1>4, <1>5, AnswerBeatsAll DEF BeatsAll

\* Beaten by a match is what the first match beats.
LEMMA BeatsOn ==
  ASSUME Typed, NEW m, IsMatch(m), NEW id \in Ids(pats), NEW u \in 0..hay.n, Beats(m, id, u),
         NEW other \in Ids(pats), NEW v \in 0..hay.n, Before(u, id, v, other)
  PROVE  Beats(m, other, v)
<1>1. /\ m.start \in Nat /\ m.pattern \in Nat /\ id \in Nat /\ other \in Nat
      /\ hay.off[u] \in Nat /\ hay.off[v] \in Nat
  BY Base, MatchTyped
<1>2. hay.off[u] < hay.off[v] \/ (hay.off[u] = hay.off[v] /\ id <= other)
  BY Base DEF Before
<1> QED BY <1>1, <1>2 DEF Beats

LEMMA SetStands ==
  ASSUME Typed, Group, Bounds, Seen, phase = "search", ~asciiOnly,
         NEW window, FirstIn(windowStart, windowEnd, window),
         NEW m, m = Better(Ahead, window), m # NoMatch,
         ~IsAnswer(pats, hay, m)
  PROVE  PassedOver(m)
<1>0. pending = NoMatch \/ IsMatch(pending)
  BY PendingIsMatch
<1>1. FirstIn(cursor, spanStart, Region) /\ Ahead = Region
  BY <1>0, RegionIsFirst
<1>2. (Region = NoMatch \/ IsMatch(Region)) /\ (window = NoMatch \/ IsMatch(window))
  BY <1>1, FirstIsMatch
<1>3. IsMatch(m)
  BY <1>1, <1>2, BetterBeats
<1> DEFINE first == AnswerIn(0, Bytes(hay))
<1>4. IsAnswer(pats, hay, first)
  <2>1. FirstIn(0, Bytes(hay), first)
    BY AnswerInIsFirst
  <2>2. NothingBefore(0)
    <3>1. \A u \in 0..hay.n : hay.off[u] >= 0
      BY Base
    <3> QED BY <3>1 DEF NothingBefore
  <2> HIDE DEF first
  <2> QED BY <2>1, <2>2, RestAnswers
<1> HIDE DEF first
<1>5. PICK id \in Ids(pats), u \in 0..hay.n :
        /\ Occurs(pats, hay, id, u)
        /\ \A other \in Ids(pats), v \in 0..hay.n :
             Occurs(pats, hay, other, v) => Before(u, id, v, other)
  BY <1>3, <1>4 DEF IsAnswer, IsMatch
<1>6. ~Beats(m, id, u)
  <2>1. Beats(m, id, u) => BeatsAll(m)
    BY <1>3, <1>5, BeatsOn DEF BeatsAll
  <2> QED BY <1>3, <2>1, AnswerBeatsAll
<1>7. Left(id, u)
  <2>1. ~Beats(Region, id, u) /\ ~Beats(window, id, u)
    BY <1>1, <1>2, <1>6, BetterBeats
  <2> QED BY <1>1, <1>5, <2>1, GroupLeaves
<1>8. lastHighEnd <= hay.off[u]
  <2>1. lastHighEnd = scanAt
    BY DEF Seen, NextKnown, NoneFollows
  <2>2. scanAt < hay.off[u] /\ scanAt \in Nat /\ hay.off[u] \in Nat
    BY <1>7, Base DEF Left, Typed
  <2> QED BY <2>1, <2>2
<1>9. hay.off[u] < windowEnd
  <2>1. PICK idm \in Ids(pats), um \in 0..hay.n :
          /\ m = [pattern |-> idm, start |-> hay.off[um]]
          /\ Hit(cursor, spanStart, idm, um) \/ Hit(windowStart, windowEnd, idm, um)
    <3>1. m = Region \/ m = window
      BY <1>1, <1>2, BetterBeats
    <3> QED BY <1>1, <3>1 DEF FirstIn
  <2> DEFINE s == hay.off[um]
             e == hay.off[um + Len(pats[idm])]
  <2>2. s \in Nat /\ e \in Nat /\ s < e
    BY <2>1, Ends DEF Hit
  <2>3. spanStart <= windowEnd
    <3>1. spanStart <= scanAt /\ windowEnd = WindowTo(scanAt) /\ scanAt \in 0..Bytes(hay)
      BY DEF Bounds, Typed
    <3>2. scanAt <= windowEnd
      BY <3>1, WindowBytes
    <3> QED BY <3>1, <3>2, Base DEF Typed
  <2>4. e <= spanStart \/ e <= windowEnd
    BY <2>1 DEF Hit
  <2>5. ~(s < hay.off[u])
    BY <1>3, <1>6, <2>1, MatchTyped DEF Beats
  <2>6. spanStart \in Nat /\ windowEnd \in Nat /\ hay.off[u] \in Nat
    BY Base DEF Typed
  <2> HIDE DEF s, e
  <2> QED BY <2>2, <2>3, <2>4, <2>5, <2>6
<1>10. windowEnd < hay.off[u + Len(pats[id])]
  BY <1>7 DEF Left
<1>11. \E i \in Ids(pats), w \in 0..hay.n :
         m = [pattern |-> i, start |-> hay.off[w]] /\ Occurs(pats, hay, i, w)
  BY <1>3 DEF IsMatch
<1> QED BY <1>5, <1>8, <1>9, <1>10, <1>11 DEF PassedOver

LEMMA GroupAnswerStands ==
  ASSUME Typed, Group, Bounds, Seen, phase = "search", GroupAnswer # NoMatch
  PROVE  IsAnswer(pats, hay, GroupAnswer) \/ PassedOver(GroupAnswer)
<1> DEFINE window == AnswerIn(windowStart, windowEnd)
<1>1. FirstIn(windowStart, windowEnd, window)
  BY AnswerInIsFirst
<1>2. GroupAnswer = IF Ahead # NoMatch /\ Ahead.start < windowStart THEN Ahead
                    ELSE Better(Ahead, window)
  BY DEF GroupAnswer
<1> HIDE DEF window
<1>3. CASE Ahead # NoMatch /\ Ahead.start < windowStart
  BY <1>2, <1>3, RegionStands
<1>4. CASE ~(Ahead # NoMatch /\ Ahead.start < windowStart)
  <2>1. GroupAnswer = Better(Ahead, window)
    BY <1>2, <1>4
  <2> QED BY <1>1, <2>1, SingleStands, SetStands
<1> QED BY <1>3, <1>4

-----------------------------------------------------------------------------
\* The steps.  First what every step that goes on, and every step that
\* returns, has to show.
LEMMA GroupNext ==
  ASSUME UNCHANGED plan,
         NEW c, c = cursor', NEW s, s = spanStart', NEW w, w = windowStart',
         NEW l, l = lastHighEnd', NEW m, m = pending',
         c <= s, NothingBefore(c), OnBoundary(c), OnBoundary(s),
         OnBoundary(WindowFrom(s)), OnBoundary(w), OnBoundary(l),
         asciiOnly /\ phase' # "search" => m = NoMatch,
         ~asciiOnly /\ m # NoMatch => FirstIn(c, s, m)
  PROVE  Group'
<1>0. pats' = pats /\ hay' = hay /\ maxBytes' = maxBytes /\ asciiOnly' = asciiOnly
  BY DEF plan
<1>1. (cursor <= spanStart)'
  OBVIOUS
<1>2. NothingBefore(cursor)'
  BY <1>0 DEF NothingBefore
<1>3. OnBoundary(cursor)' /\ OnBoundary(spanStart)' /\ OnBoundary(windowStart)' /\ OnBoundary(lastHighEnd)'
  BY <1>0 DEF OnBoundary
<1>4. OnBoundary(WindowFrom(spanStart))'
  BY <1>0 DEF OnBoundary, WindowFrom
<1>5. (asciiOnly /\ phase # "search" => pending = NoMatch)'
  BY <1>0
<1>6. (~asciiOnly /\ pending # NoMatch => FirstIn(cursor, spanStart, pending))'
  BY <1>0 DEF FirstIn, Hit, Beats
<1> QED BY <1>1, <1>2, <1>3, <1>4, <1>5, <1>6 DEF Group

LEMMA TypedNext ==
  ASSUME Typed, UNCHANGED plan,
         phase' \in {"admit", "group", "coalesce", "search", "done"},
         cursor' \in 0..Bytes(hay), spanStart' \in 0..Bytes(hay),
         windowStart' \in 0..Bytes(hay), windowEnd' \in 0..Bytes(hay),
         lastHighEnd' \in 0..Bytes(hay), scanAt' \in 0..Bytes(hay),
         nextStart' \in -1..Bytes(hay), gapSearched' \in BOOLEAN
  PROVE  Typed'
BY DEF Typed, plan

LEMMA ReturnKeeps ==
  ASSUME Typed, NEW m, Return(m), IsAnswer(pats, hay, m) \/ PassedOver(m)
  PROVE  IInv'
<1>1. /\ UNCHANGED <<plan, cursor, spanStart, group>> /\ phase' = "done" /\ best' = m
      /\ UNCHANGED <<pats, hay, asciiOnly, lastHighEnd, windowEnd>>
  BY DEF Return, plan, group
<1>2. Typed'
  BY <1>1, TypedNext DEF Typed, group
<1>3. Answered'
  <2>1. IsAnswer(pats, hay, m) => IsAnswer(pats, hay, best)'
    BY <1>1
  <2>2. PassedOver(m) => PassedOver(best)'
    BY <1>1 DEF PassedOver
  <2> QED BY <2>1, <2>2 DEF Answered
<1>4. Fresh' /\ Group' /\ Bounds' /\ Unseen' /\ Seen'
  BY <1>1 DEF Fresh, Group, Bounds, Unseen, Seen
<1> QED BY <1>2, <1>3, <1>4 DEF IInv

\* The rest of the haystack from the cursor on has the answer.
LEMMA FallBackKeeps ==
  ASSUME Typed, NothingBefore(cursor), FallBack
  PROVE  IInv'
<1> DEFINE m == AnswerIn(cursor, Bytes(hay))
<1>1. FirstIn(cursor, Bytes(hay), m)
  BY AnswerInIsFirst
<1>2. Return(m)
  BY DEF FallBack
<1> HIDE DEF m
<1>3. IsAnswer(pats, hay, m)
  BY <1>1, RestAnswers
<1> QED BY <1>2, <1>3, ReturnKeeps

LEMMA InitHolds == ASSUME Init PROVE IInv
<1>1. PICK input \in Inputs : pats \in input.patterns /\ hay \in input.haystacks
  BY DEF Init
<1>2. pats \in PatternSets /\ hay \in Haystacks
  BY <1>1 DEF PatternSets, Haystacks
<1>3. Bytes(hay) \in Nat
  <2>1. IsHaystack(hay)
    BY <1>2, PartitionAssumption DEF IsSpelledHaystack
  <2> QED BY <2>1 DEF IsHaystack, Bytes
<1>5. /\ maxBytes = MaxBytes(pats) /\ asciiOnly = (DOMAIN pats = {0}) /\ phase = "admit"
      /\ cursor = 0 /\ spanStart = 0 /\ windowStart = 0 /\ windowEnd = 0
      /\ lastHighEnd = 0 /\ scanAt = 0 /\ nextStart = -1 /\ gapSearched = FALSE
  BY DEF Init
<1>6. 0 \in 0..Bytes(hay) /\ -1 \in -1..Bytes(hay)
  BY <1>3
<1>4. Typed
  BY <1>2, <1>5, <1>6 DEF Typed
<1> QED BY <1>4 DEF Init, IInv, Fresh, Group, Bounds, Unseen, Seen, Answered

\* A first group, of which the part before the span is known to be free.
LEMMA EnterKeeps ==
  ASSUME IInv, phase = "admit", NEW first, NEW from, EnterAt(first, from),
         first \in 0..Bytes(hay), from \in 0..Bytes(hay), from <= first,
         first = NextHigh(0) \/ first = NextExceptional(0),
         NothingBefore(from)
  PROVE  IInv'
<1>0. /\ UNCHANGED <<plan, group, pending, best>> /\ phase' = "group"
      /\ spanStart' = first /\ cursor' = from
      /\ UNCHANGED <<windowStart, lastHighEnd, windowEnd, scanAt, nextStart, gapSearched>>
  BY DEF EnterAt, group
<1>1. windowStart = 0 /\ lastHighEnd = 0 /\ pending = NoMatch /\ Typed
  BY DEF IInv, Fresh
<1>2. OnBoundary(0) /\ 0 \in 0..Bytes(hay)
  BY <1>1, Base DEF OnBoundary
<1>3. \A b \in Nat : b <= first => OnBoundary(b)
  <2> TAKE b \in Nat
  <2>1. 0 <= b
    OBVIOUS
  <2> QED BY <1>1, <1>2, <2>1, WindowBoundary
<1>4. first \in Nat /\ from \in Nat /\ WindowFrom(first) \in Nat /\ WindowFrom(first) <= first
  BY <1>1, Base, WindowBytes
<1>5. OnBoundary(first) /\ OnBoundary(from) /\ OnBoundary(WindowFrom(first))
  BY <1>3, <1>4
<1>6. Group'
  BY <1>0, <1>1, <1>2, <1>5, GroupNext
<1>7. Typed'
  BY <1>0, <1>1, TypedNext DEF Typed
<1>8. Fresh' /\ Bounds' /\ Unseen' /\ Seen' /\ Answered'
  BY <1>0 DEF Fresh, Bounds, Unseen, Seen, Answered
<1> QED BY <1>6, <1>7, <1>8 DEF IInv

LEMMA ZeroIsStart ==
  ASSUME Typed
  PROVE  NothingBefore(0) /\ 0 \in 0..Bytes(hay)
<1>1. Bytes(hay) \in Nat /\ \A u \in 0..hay.n : hay.off[u] >= 0
  BY Base
<1> QED BY <1>1 DEF NothingBefore

LEMMA AdmitSetKeeps == ASSUME IInv, AdmitSet PROVE IInv'
<1> DEFINE next == NextExceptional(0)
<1>1. phase = "admit" /\ EnterAt(next, 0)
  BY DEF AdmitSet
<1>2. Typed /\ NothingBefore(0) /\ 0 \in 0..Bytes(hay)
  BY ZeroIsStart DEF IInv
<1>3. next \in 0..Bytes(hay) /\ 0 <= next
  BY <1>2, NextIsHigh
<1>4. next = NextExceptional(0)
  OBVIOUS
<1> HIDE DEF next
<1> QED BY <1>1, <1>2, <1>3, <1>4, EnterKeeps

LEMMA AdmitSingleKeeps == ASSUME IInv, AdmitSingle PROVE IInv'
<1>1. Typed /\ NothingBefore(0) /\ 0 \in 0..Bytes(hay) /\ phase = "admit" /\ asciiOnly
  BY ZeroIsStart DEF IInv, AdmitSingle, ProbesSingle
<1> DEFINE next == NextHigh(0)
           m == GapMatch(0)
<1>2. FirstIn(0, next, m) /\ next \in 0..Bytes(hay)
  BY <1>1, AnswerInIsFirst, NextIsHigh DEF GapMatch
<1>3. CASE /\ m # NoMatch \/ GapHigh(0) < 0
           /\ Return(m)
  <2>1. IsAnswer(pats, hay, m)
    BY <1>1, <1>3, GapAnswers
  <2> HIDE DEF m
  <2> QED BY <1>1, <1>3, <2>1, ReturnKeeps
<1>4. CASE /\ m = NoMatch /\ AdmitsSingle
           /\ EnterAt(GapHigh(0), WindowFrom(GapHigh(0)))
  <2>1. GapHigh(0) = next
    BY <1>4 DEF AdmitsSingle, GapHigh
  <2> DEFINE from == WindowFrom(next)
  <2>2. EnterAt(next, from)
    BY <1>4, <2>1
  <2>3. from \in 0..Bytes(hay) /\ from <= next
    BY <1>1, <1>2, WindowBytes
  <2>4. NothingBefore(from)
    BY <1>1, <1>2, <1>4, GapLoses
  <2>5. next = NextHigh(0)
    OBVIOUS
  <2> HIDE DEF next, from
  <2> QED BY <1>1, <1>2, <2>2, <2>3, <2>4, <2>5, EnterKeeps
<1> QED BY <1>3, <1>4 DEF AdmitSingle

LEMMA DeclineKeeps == ASSUME IInv, Decline PROVE IInv'
<1> DEFINE m == AnswerIn(0, Bytes(hay))
<1>1. Typed /\ NothingBefore(0) /\ Return(m)
  BY ZeroIsStart DEF IInv, Decline
<1>2. FirstIn(0, Bytes(hay), m)
  BY <1>1, AnswerInIsFirst
<1> HIDE DEF m
<1>3. IsAnswer(pats, hay, m)
  BY <1>1, <1>2, RestAnswers
<1> QED BY <1>1, <1>3, ReturnKeeps

LEMMA OpenGroupKeeps == ASSUME IInv, OpenGroup PROVE IInv'
<1>0. /\ Typed /\ phase = "group" /\ NothingBefore(cursor) /\ cursor <= spanStart
      /\ OnBoundary(cursor) /\ OnBoundary(spanStart) /\ OnBoundary(WindowFrom(spanStart))
      /\ asciiOnly => pending = NoMatch
      /\ ~asciiOnly /\ pending # NoMatch => FirstIn(cursor, spanStart, pending)
  BY DEF IInv, Group, OpenGroup
<1> DEFINE end == SpanEnd(spanStart)
<1>1. CASE Rejected(spanStart, end) /\ FallBack
  BY <1>0, <1>1, FallBackKeeps
<1>2. CASE /\ windowStart' = WindowFrom(spanStart)
           /\ windowEnd' = WindowTo(end)
           /\ lastHighEnd' = end /\ scanAt' = end
           /\ nextStart' = -1 /\ gapSearched' = FALSE
           /\ phase' = "coalesce"
           /\ UNCHANGED <<plan, cursor, spanStart, pending, best>>
  <2>1. spanStart \in 0..Bytes(hay) /\ Bytes(hay) \in Nat
    BY <1>0, Base DEF Typed
  <2>2. end \in 0..Bytes(hay) /\ spanStart <= end /\ OnBoundary(end)
    BY <1>0, <2>1, SpanBytes
  <2> HIDE DEF end
  <2>3. WindowFrom(spanStart) \in 0..Bytes(hay) /\ WindowTo(end) \in 0..Bytes(hay)
    BY <1>0, <2>1, <2>2, WindowBytes
  <2>4. Typed'
    <3>1. -1 \in -1..Bytes(hay)
      BY <2>1
    <3>2. cursor' \in 0..Bytes(hay) /\ spanStart' \in 0..Bytes(hay)
      BY <1>0, <1>2 DEF Typed
    <3>3. /\ windowStart' \in 0..Bytes(hay) /\ windowEnd' \in 0..Bytes(hay)
          /\ lastHighEnd' \in 0..Bytes(hay) /\ scanAt' \in 0..Bytes(hay)
      BY <1>2, <2>2, <2>3
    <3>4. nextStart' \in -1..Bytes(hay) /\ gapSearched' \in BOOLEAN /\ UNCHANGED plan
      BY <1>2, <3>1
    <3>5. phase' \in {"admit", "group", "coalesce", "search", "done"}
      BY <1>2
    <3> QED BY <1>0, <3>2, <3>3, <3>4, <3>5, TypedNext
  <2>5. Group'
    BY <1>0, <1>2, <2>2, GroupNext
  <2>6. Bounds'
    <3>0. hay' = hay /\ maxBytes' = maxBytes
      BY <1>2 DEF plan
    <3>1. (spanStart <= scanAt)'
      BY <1>2, <2>2
    <3>2. OnBoundary(scanAt)'
      BY <1>2, <2>2, <3>0 DEF OnBoundary
    <3>3. (windowStart = WindowFrom(spanStart))'
      BY <1>2, <3>0 DEF WindowFrom
    <3>4. (windowEnd = WindowTo(scanAt))'
      BY <1>2, <3>0 DEF WindowTo
    <3> QED BY <3>1, <3>2, <3>3, <3>4 DEF Bounds
  <2>7. Fresh' /\ Unseen' /\ Seen' /\ Answered'
    BY <1>2 DEF Fresh, Unseen, Seen, Answered
  <2> QED BY <2>4, <2>5, <2>6, <2>7 DEF IInv
<1> QED BY <1>1, <1>2 DEF OpenGroup

\* What is known while the spans of a group are collected.
LEMMA Coalescing ==
  ASSUME IInv, phase = "coalesce"
  PROVE  /\ Typed /\ Bytes(hay) \in Nat
         /\ cursor \in 0..Bytes(hay) /\ spanStart \in 0..Bytes(hay)
         /\ windowStart \in 0..Bytes(hay) /\ windowEnd \in 0..Bytes(hay)
         /\ scanAt \in 0..Bytes(hay) /\ lastHighEnd = scanAt /\ nextStart = -1
         /\ NothingBefore(cursor) /\ cursor <= spanStart /\ spanStart <= scanAt
         /\ OnBoundary(cursor) /\ OnBoundary(spanStart) /\ OnBoundary(WindowFrom(spanStart))
         /\ OnBoundary(windowStart) /\ OnBoundary(scanAt)
         /\ asciiOnly => pending = NoMatch
         /\ ~asciiOnly /\ pending # NoMatch => FirstIn(cursor, spanStart, pending)
         /\ windowStart = WindowFrom(spanStart) /\ windowEnd = WindowTo(scanAt)
<1>1. Typed
  BY DEF IInv
<1>2. Bytes(hay) \in Nat
  BY <1>1, Base
<1> QED BY <1>1, <1>2 DEF IInv, Typed, Group, Bounds, Unseen

LEMMA NextSpanBytes ==
  ASSUME IInv, NEW at \in 0..Bytes(hay), NextSpan(at)
  PROVE  /\ phase = "coalesce" /\ scanAt <= at
         /\ SpanEnd(at) \in 0..Bytes(hay) /\ at < SpanEnd(at) /\ OnBoundary(SpanEnd(at))
         /\ IF asciiOnly THEN GapMatch(scanAt) = NoMatch /\ at = NextHigh(scanAt) /\ at >= 0
                         ELSE at = NextExceptional(scanAt)
<1>1. phase = "coalesce" /\ Typed /\ scanAt \in 0..Bytes(hay) /\ Bytes(hay) \in Nat
  BY Coalescing DEF NextSpan
<1>2. /\ asciiOnly => GapMatch(scanAt) = NoMatch /\ at = NextHigh(scanAt) /\ at < Bytes(hay)
      /\ ~asciiOnly => at = NextExceptional(scanAt) /\ at < Bytes(hay)
  <2>1. CASE asciiOnly
    <3>1. at = GapHigh(scanAt) /\ at >= 0 /\ GapMatch(scanAt) = NoMatch
      BY <2>1 DEF NextSpan
    <3>2. at = NextHigh(scanAt) /\ NextHigh(scanAt) # Bytes(hay)
      BY <3>1 DEF GapHigh
    <3> QED BY <1>1, <2>1, <3>1, <3>2
  <2>2. CASE ~asciiOnly
    BY <2>2 DEF NextSpan
  <2> QED BY <2>1, <2>2
<1>3. at # Bytes(hay) /\ at >= 0
  BY <1>1, <1>2
<1>4. scanAt <= at /\ \E u \in Units : hay.off[u] = at /\ Exceptional(u)
  BY <1>1, <1>2, <1>3, NextIsHigh
<1>5. SpanEnd(at) \in 0..Bytes(hay) /\ at < SpanEnd(at) /\ OnBoundary(SpanEnd(at))
  BY <1>1, <1>4, SpanBytes
<1> QED BY <1>1, <1>2, <1>3, <1>4, <1>5

LEMMA LastSpanKeeps == ASSUME IInv, LastSpan PROVE IInv'
<1>0. phase = "coalesce" /\ phase' = "search"
      /\ UNCHANGED <<plan, cursor, spanStart, windowStart, windowEnd, scanAt, nextStart, best>>
      /\ UNCHANGED <<pats, hay, maxBytes, asciiOnly>>
  BY DEF LastSpan, plan
<1>1. /\ Typed /\ Bytes(hay) \in Nat
      /\ cursor \in 0..Bytes(hay) /\ spanStart \in 0..Bytes(hay)
      /\ windowStart \in 0..Bytes(hay) /\ windowEnd \in 0..Bytes(hay)
      /\ scanAt \in 0..Bytes(hay) /\ lastHighEnd = scanAt /\ nextStart = -1
      /\ NothingBefore(cursor) /\ cursor <= spanStart /\ spanStart <= scanAt
      /\ OnBoundary(cursor) /\ OnBoundary(spanStart) /\ OnBoundary(WindowFrom(spanStart))
      /\ OnBoundary(windowStart) /\ OnBoundary(scanAt)
      /\ asciiOnly => pending = NoMatch
      /\ ~asciiOnly /\ pending # NoMatch => FirstIn(cursor, spanStart, pending)
      /\ windowStart = WindowFrom(spanStart) /\ windowEnd = WindowTo(scanAt)
  BY <1>0, Coalescing
<1>2. IF asciiOnly
        THEN /\ lastHighEnd' = Bytes(hay) /\ gapSearched' = TRUE /\ pending' = GapMatch(scanAt)
             /\ GapMatch(scanAt) # NoMatch \/ GapHigh(scanAt) < 0
        ELSE /\ lastHighEnd' = scanAt /\ UNCHANGED <<gapSearched, pending>>
             /\ NextExceptional(scanAt) = Bytes(hay)
  <2>1. CASE asciiOnly
    <3>1. /\ lastHighEnd' = Bytes(hay) /\ gapSearched' = TRUE
          /\ pending' = Better(GapMatch(scanAt), pending)
          /\ GapMatch(scanAt) # NoMatch \/ GapHigh(scanAt) < 0
      BY <2>1 DEF LastSpan
    <3>2. pending' = GapMatch(scanAt)
      BY <1>1, <2>1, <3>1 DEF Better
    <3> QED BY <2>1, <3>1, <3>2
  <2>2. CASE ~asciiOnly
    BY <1>1, <2>2 DEF LastSpan
  <2> QED BY <2>1, <2>2
<1>3. lastHighEnd' \in 0..Bytes(hay) /\ gapSearched' \in BOOLEAN /\ OnBoundary(lastHighEnd')
  <2>1. OnBoundary(Bytes(hay)) /\ Bytes(hay) \in 0..Bytes(hay)
    BY <1>1, Base DEF OnBoundary
  <2> QED BY <1>1, <1>2, <2>1 DEF Typed
<1>4. Typed'
  <2>1. nextStart' \in -1..Bytes(hay) /\ phase' \in {"admit", "group", "coalesce", "search", "done"}
    BY <1>0, <1>1 DEF Typed
  <2> QED BY <1>0, <1>1, <1>3, <2>1, TypedNext
<1>5. Group'
  <2> DEFINE l == IF asciiOnly THEN Bytes(hay) ELSE scanAt
             m == IF asciiOnly THEN GapMatch(scanAt) ELSE pending
  <2>1. l = lastHighEnd' /\ m = pending'
    BY <1>2
  <2>2. OnBoundary(l) /\ (~asciiOnly /\ m # NoMatch => FirstIn(cursor, spanStart, m))
    BY <1>1, <1>3, <2>1
  <2> HIDE DEF l, m
  <2>3. cursor = cursor' /\ spanStart = spanStart' /\ windowStart = windowStart' /\ phase' = "search"
    BY <1>0
  <2>4. /\ cursor <= spanStart /\ NothingBefore(cursor) /\ OnBoundary(cursor) /\ OnBoundary(spanStart)
        /\ OnBoundary(WindowFrom(spanStart)) /\ OnBoundary(windowStart)
    BY <1>1
  <2> QED BY <1>0, <2>1, <2>2, <2>3, <2>4, GroupNext
<1>6. Bounds'
  <2>1. OnBoundary(scanAt)'
    BY <1>0, <1>1 DEF OnBoundary
  <2>2. (windowStart = WindowFrom(spanStart))' /\ (windowEnd = WindowTo(scanAt))'
    BY <1>0, <1>1 DEF WindowFrom, WindowTo
  <2> QED BY <1>0, <1>1, <2>1, <2>2 DEF Bounds
<1>7. Seen'
  <2>1. ~(nextStart' >= 0)
    BY <1>0, <1>1
  <2>2. /\ GapMatch(scanAt)' = GapMatch(scanAt)
        /\ GapHigh(scanAt)' = GapHigh(scanAt)
        /\ NextExceptional(scanAt)' = NextExceptional(scanAt)
    BY <1>0 DEF GapMatch, GapHigh, NextExceptional, NextHigh, FirstFrom, AnswerIn, Units,
                Exceptional, High, Before
  <2>3. NoneFollows'
    BY <1>0, <1>2, <2>2 DEF NoneFollows
  <2> QED BY <2>1, <2>3 DEF Seen
<1>8. Fresh' /\ Unseen' /\ Answered'
  BY <1>0 DEF Fresh, Unseen, Answered
<1> QED BY <1>4, <1>5, <1>6, <1>7, <1>8 DEF IInv

LEMMA CoalesceKeeps == ASSUME IInv, Coalesce PROVE IInv'
<1>1. PICK at \in 0..Bytes(hay) :
        /\ NextSpan(at)
        /\ \/ /\ Apart(at)
              /\ nextStart' = at
              /\ phase' = "search"
              /\ UNCHANGED <<windowEnd, lastHighEnd, scanAt>>
           \/ /\ windowEnd' = WindowTo(SpanEnd(at))
              /\ lastHighEnd' = SpanEnd(at) /\ scanAt' = SpanEnd(at)
              /\ UNCHANGED <<nextStart, phase>>
  BY DEF Coalesce
<1>2. /\ gapSearched' = asciiOnly
      /\ UNCHANGED <<plan, cursor, spanStart, windowStart, pending, best>>
      /\ UNCHANGED <<pats, hay, maxBytes, asciiOnly>>
  BY DEF Coalesce, plan
<1> DEFINE end == SpanEnd(at)
<1>3. /\ phase = "coalesce" /\ scanAt <= at
      /\ end \in 0..Bytes(hay) /\ at < end /\ OnBoundary(end)
      /\ IF asciiOnly THEN GapMatch(scanAt) = NoMatch /\ at = NextHigh(scanAt) /\ at >= 0
                      ELSE at = NextExceptional(scanAt)
  BY <1>1, NextSpanBytes
<1>4. /\ Typed /\ Bytes(hay) \in Nat
      /\ cursor \in 0..Bytes(hay) /\ spanStart \in 0..Bytes(hay)
      /\ windowStart \in 0..Bytes(hay) /\ windowEnd \in 0..Bytes(hay)
      /\ scanAt \in 0..Bytes(hay) /\ lastHighEnd = scanAt /\ nextStart = -1
      /\ NothingBefore(cursor) /\ cursor <= spanStart /\ spanStart <= scanAt
      /\ OnBoundary(cursor) /\ OnBoundary(spanStart) /\ OnBoundary(WindowFrom(spanStart))
      /\ OnBoundary(windowStart) /\ OnBoundary(scanAt)
      /\ asciiOnly => pending = NoMatch
      /\ ~asciiOnly /\ pending # NoMatch => FirstIn(cursor, spanStart, pending)
      /\ windowStart = WindowFrom(spanStart) /\ windowEnd = WindowTo(scanAt)
  BY <1>3, Coalescing
<1>5. gapSearched' \in BOOLEAN
  BY <1>2, <1>4 DEF Typed
<1>6. CASE /\ Apart(at) /\ nextStart' = at /\ phase' = "search"
           /\ UNCHANGED <<windowEnd, lastHighEnd, scanAt>>
  <2>1. Typed'
    <3>1. nextStart' \in -1..Bytes(hay) /\ phase' \in {"admit", "group", "coalesce", "search", "done"}
      BY <1>4, <1>6
    <3>2. /\ cursor' \in 0..Bytes(hay) /\ spanStart' \in 0..Bytes(hay)
          /\ windowStart' \in 0..Bytes(hay) /\ windowEnd' \in 0..Bytes(hay)
          /\ lastHighEnd' \in 0..Bytes(hay) /\ scanAt' \in 0..Bytes(hay)
      BY <1>2, <1>4, <1>6
    <3> QED BY <1>2, <1>4, <1>5, <3>1, <3>2, TypedNext
  <2>2. Group'
    <3>1. /\ cursor = cursor' /\ spanStart = spanStart' /\ windowStart = windowStart'
          /\ scanAt = lastHighEnd' /\ pending = pending' /\ phase' = "search"
      BY <1>2, <1>4, <1>6
    <3> QED BY <1>2, <1>4, <3>1, GroupNext
  <2>3. Bounds'
    <3>1. OnBoundary(scanAt)'
      BY <1>2, <1>4, <1>6 DEF OnBoundary
    <3>2. (windowStart = WindowFrom(spanStart))' /\ (windowEnd = WindowTo(scanAt))'
      BY <1>2, <1>4, <1>6 DEF WindowFrom, WindowTo
    <3> QED BY <1>2, <1>4, <1>6, <3>1, <3>2 DEF Bounds
  <2>4. Seen'
    <3>1. /\ GapMatch(scanAt)' = GapMatch(scanAt) /\ NextHigh(scanAt)' = NextHigh(scanAt)
          /\ NextExceptional(scanAt)' = NextExceptional(scanAt)
      BY <1>2, <1>6 DEF GapMatch, NextExceptional, NextHigh, FirstFrom, AnswerIn, Units,
                        Exceptional, High, Before
    <3>2. Apart(nextStart)'
      BY <1>2, <1>6 DEF Apart, WindowFrom
    <3>3. /\ (lastHighEnd = scanAt)' /\ (gapSearched = asciiOnly)'
          /\ asciiOnly' = asciiOnly /\ pending' = pending
      BY <1>2, <1>4, <1>6
    <3>4. NextKnown'
      <4>1. CASE asciiOnly
        BY <1>3, <1>4, <1>6, <3>1, <3>2, <3>3, <4>1 DEF NextKnown
      <4>2. CASE ~asciiOnly
        BY <1>3, <1>6, <3>1, <3>2, <3>3, <4>2 DEF NextKnown
      <4> QED BY <4>1, <4>2
    <3>5. (nextStart >= 0)'
      BY <1>4, <1>6
    <3> QED BY <3>4, <3>5 DEF Seen
  <2>5. Fresh' /\ Unseen' /\ Answered'
    BY <1>6 DEF Fresh, Unseen, Answered
  <2> QED BY <2>1, <2>2, <2>3, <2>4, <2>5 DEF IInv
<1>7. CASE /\ windowEnd' = WindowTo(SpanEnd(at))
           /\ lastHighEnd' = SpanEnd(at) /\ scanAt' = SpanEnd(at)
           /\ UNCHANGED <<nextStart, phase>>
  <2> HIDE DEF end
  <2>0. /\ windowEnd' = WindowTo(end) /\ lastHighEnd' = end /\ scanAt' = end
        /\ phase' = "coalesce" /\ nextStart' = -1
    BY <1>3, <1>4, <1>7 DEF end
  <2>1. Typed'
    <3>1. nextStart' \in -1..Bytes(hay) /\ phase' \in {"admit", "group", "coalesce", "search", "done"}
      BY <1>4, <2>0
    <3>2. /\ cursor' \in 0..Bytes(hay) /\ spanStart' \in 0..Bytes(hay)
          /\ windowStart' \in 0..Bytes(hay)
          /\ lastHighEnd' \in 0..Bytes(hay) /\ scanAt' \in 0..Bytes(hay)
      BY <1>2, <1>3, <1>4, <2>0
    <3>3. windowEnd' \in 0..Bytes(hay)
      BY <1>3, <1>4, <2>0, WindowBytes
    <3> QED BY <1>2, <1>4, <1>5, <3>1, <3>2, <3>3, TypedNext
  <2>2. Group'
    <3>1. /\ cursor = cursor' /\ spanStart = spanStart' /\ windowStart = windowStart'
          /\ end = lastHighEnd' /\ pending = pending' /\ phase' = "coalesce"
      BY <1>2, <2>0
    <3> QED BY <1>2, <1>3, <1>4, <3>1, GroupNext
  <2>3. Bounds'
    <3>1. OnBoundary(scanAt)'
      BY <1>2, <1>3, <2>0 DEF OnBoundary
    <3>2. (windowStart = WindowFrom(spanStart))' /\ (windowEnd = WindowTo(scanAt))'
      BY <1>2, <1>4, <2>0 DEF WindowFrom, WindowTo
    <3>3. spanStart <= end
      BY <1>3, <1>4
    <3> QED BY <1>2, <2>0, <3>1, <3>2, <3>3 DEF Bounds
  <2>4. Fresh' /\ Unseen' /\ Seen' /\ Answered'
    BY <2>0 DEF Fresh, Unseen, Seen, Answered
  <2> QED BY <2>1, <2>2, <2>3, <2>4 DEF IInv
<1> QED BY <1>1, <1>6, <1>7

LEMMA GiveUpKeeps == ASSUME IInv, GiveUp PROVE IInv'
<1>1. phase = "coalesce" /\ FallBack
  BY DEF GiveUp, NextSpan
<1>2. Typed /\ NothingBefore(cursor)
  BY <1>1 DEF IInv, Group
<1> QED BY <1>1, <1>2, FallBackKeeps

LEMMA AnswerGroupKeeps == ASSUME IInv, AnswerGroup PROVE IInv'
<1>1. /\ Typed /\ Group /\ Bounds /\ Seen /\ phase = "search"
      /\ GroupAnswer # NoMatch /\ Return(GroupAnswer)
  BY DEF IInv, AnswerGroup
<1>2. IsAnswer(pats, hay, GroupAnswer) \/ PassedOver(GroupAnswer)
  BY <1>1, GroupAnswerStands
<1> QED BY <1>1, <1>2, ReturnKeeps

LEMMA LastRegionKeeps == ASSUME IInv, LastRegion PROVE IInv'
<1> DEFINE rest == AnswerIn(lastHighEnd, Bytes(hay))
           m == IF lastHighEnd < Bytes(hay) THEN rest ELSE NoMatch
<1>1. /\ Typed /\ Group /\ Bounds /\ Seen /\ phase = "search"
      /\ GroupAnswer = NoMatch /\ ~(nextStart >= 0) /\ Return(m)
  <2>1. nextStart \in Int
    BY Base DEF IInv, Typed
  <2> QED BY <2>1 DEF IInv, LastRegion
<1>2. NothingBefore(scanAt) /\ pending = NoMatch
  BY <1>1, PendingIsMatch, GroupPassed
<1>3. NoneFollows
  BY <1>1 DEF Seen
<1>4. FirstIn(lastHighEnd, Bytes(hay), rest)
  BY <1>1, AnswerInIsFirst
<1>5. Bytes(hay) \in Nat /\ scanAt \in 0..Bytes(hay) /\ lastHighEnd \in 0..Bytes(hay)
  BY <1>1, Base DEF Typed
<1> HIDE DEF rest
<1>6. IsAnswer(pats, hay, m)
  <2>1. CASE asciiOnly
    <3>1. lastHighEnd = Bytes(hay) /\ GapMatch(scanAt) = NoMatch /\ GapHigh(scanAt) < 0
      BY <1>2, <1>3, <2>1 DEF NoneFollows
    <3>2. m = NoMatch
      BY <1>5, <3>1
    <3>3. IsAnswer(pats, hay, GapMatch(scanAt))
      BY <1>1, <1>2, <1>5, <2>1, <3>1, GapAnswers
    <3> QED BY <3>1, <3>2, <3>3
  <2>2. CASE ~asciiOnly
    <3>1. NothingBefore(lastHighEnd)
      BY <1>2, <1>3, <2>2 DEF NoneFollows
    <3>2. CASE lastHighEnd < Bytes(hay)
      BY <1>1, <1>4, <3>1, <3>2, RestAnswers
    <3>3. CASE ~(lastHighEnd < Bytes(hay))
      <4>1. ASSUME NEW id \in Ids(pats), NEW u \in 0..hay.n, Occurs(pats, hay, id, u)
            PROVE  FALSE
        <5> DEFINE s == hay.off[u]
                   e == hay.off[u + Len(pats[id])]
        <5>1. s \in Nat /\ e \in Nat /\ s < e /\ e <= Bytes(hay)
          BY <1>1, <4>1, Ends
        <5>2. s >= lastHighEnd
          BY <3>1, <4>1 DEF NothingBefore
        <5> HIDE DEF s, e
        <5> QED BY <1>5, <3>3, <5>1, <5>2
      <4> QED BY <3>3, <4>1 DEF IsAnswer
    <3> QED BY <3>2, <3>3
  <2> QED BY <2>1, <2>2
<1> HIDE DEF m
<1> QED BY <1>1, <1>6, ReturnKeeps

\* What is known of the part between a group and the next.
LEMMA BetweenGroups ==
  ASSUME IInv, phase = "search", GroupAnswer = NoMatch, nextStart >= 0,
         NEW gap, gap = IF gapSearched THEN NoMatch ELSE AnswerIn(lastHighEnd, nextStart)
  PROVE  /\ Typed /\ Bytes(hay) \in Nat /\ nextStart \in 0..Bytes(hay)
         /\ scanAt \in 0..Bytes(hay) /\ lastHighEnd = scanAt
         /\ NothingBefore(scanAt) /\ FirstIn(scanAt, nextStart, gap)
         /\ asciiOnly => gap = NoMatch
         /\ nextStart = NextHigh(scanAt) \/ nextStart = NextExceptional(scanAt)
         /\ windowEnd < WindowFrom(nextStart) /\ scanAt <= windowEnd /\ windowEnd \in Nat
         /\ WindowFrom(nextStart) \in 0..Bytes(hay) /\ WindowFrom(nextStart) <= nextStart
         /\ OnBoundary(scanAt)
<1>1. Typed /\ Group /\ Bounds /\ Seen /\ Bytes(hay) \in Nat
  BY Base DEF IInv
<1>2. NothingBefore(scanAt) /\ pending = NoMatch
  BY <1>1, PendingIsMatch, GroupPassed
<1>3. /\ Apart(nextStart) /\ lastHighEnd = scanAt /\ gapSearched = asciiOnly
      /\ IF asciiOnly
           THEN GapMatch(scanAt) = NoMatch /\ nextStart = NextHigh(scanAt)
           ELSE nextStart = NextExceptional(scanAt)
  BY <1>1 DEF Seen, NextKnown
<1>4. FirstIn(scanAt, nextStart, gap)
  <2>1. gap = AnswerIn(scanAt, nextStart)
    <3>1. CASE asciiOnly
      BY <1>3, <3>1 DEF GapMatch
    <3>2. CASE ~asciiOnly
      BY <1>3, <3>2
    <3> QED BY <3>1, <3>2
  <2>2. FirstIn(scanAt, nextStart, AnswerIn(scanAt, nextStart))
    BY <1>1, AnswerInIsFirst
  <2> QED BY <2>1, <2>2
<1>5. /\ scanAt \in 0..Bytes(hay) /\ nextStart \in 0..Bytes(hay)
      /\ windowEnd \in 0..Bytes(hay) /\ windowEnd = WindowTo(scanAt) /\ OnBoundary(scanAt)
  BY <1>1 DEF Typed, Bounds
<1>6. scanAt <= windowEnd
  BY <1>1, <1>5, WindowBytes
<1>7. windowEnd < WindowFrom(nextStart)
  <2>1. WindowFrom(nextStart) > windowEnd
    BY <1>3 DEF Apart
  <2> QED BY <2>1
<1>8. WindowFrom(nextStart) \in 0..Bytes(hay) /\ WindowFrom(nextStart) <= nextStart
  BY <1>1, <1>5, WindowBytes
<1> QED BY <1>1, <1>2, <1>3, <1>4, <1>5, <1>6, <1>7, <1>8

LEMMA NextGroupKeeps == ASSUME IInv, NextGroup PROVE IInv'
<1> DEFINE gap == IF gapSearched THEN NoMatch ELSE AnswerIn(lastHighEnd, nextStart)
<1>0. phase = "search" /\ GroupAnswer = NoMatch /\ nextStart >= 0
  BY DEF NextGroup
<1>1. \/ /\ gap # NoMatch /\ gap.start < WindowFrom(nextStart)
         /\ Return(gap)
      \/ /\ gap # NoMatch => gap.start >= WindowFrom(nextStart)
         /\ pending' = gap
         /\ cursor' = WindowFrom(nextStart)
         /\ spanStart' = nextStart
         /\ phase' = "group"
         /\ UNCHANGED <<plan, group, best>>
  BY DEF NextGroup
<1>2. gap = IF gapSearched THEN NoMatch ELSE AnswerIn(lastHighEnd, nextStart)
  OBVIOUS
<1> HIDE DEF gap
<1> DEFINE from == WindowFrom(nextStart)
<1>3. /\ Typed /\ Bytes(hay) \in Nat /\ nextStart \in 0..Bytes(hay)
      /\ scanAt \in 0..Bytes(hay) /\ lastHighEnd = scanAt
      /\ NothingBefore(scanAt) /\ FirstIn(scanAt, nextStart, gap)
      /\ asciiOnly => gap = NoMatch
      /\ nextStart = NextHigh(scanAt) \/ nextStart = NextExceptional(scanAt)
      /\ windowEnd < from /\ scanAt <= windowEnd /\ windowEnd \in Nat
      /\ from \in 0..Bytes(hay) /\ from <= nextStart
      /\ OnBoundary(scanAt)
  BY <1>0, <1>2, BetweenGroups
<1>4. CASE gap # NoMatch /\ gap.start < from /\ Return(gap)
  <2>1. IsMatch(gap)
    BY <1>3, <1>4, FirstIsMatch
  <2>2. ASSUME NEW id \in Ids(pats), NEW u \in 0..hay.n, Occurs(pats, hay, id, u)
        PROVE  Beats(gap, id, u)
    <3> DEFINE s == hay.off[u]
               e == hay.off[u + Len(pats[id])]
    <3>1. s \in Nat /\ e \in Nat /\ e <= s + maxBytes /\ maxBytes \in Nat
      BY <1>3, <2>2, Ends, Base
    <3>2. CASE e <= nextStart
      <4>1. s >= scanAt
        BY <1>3, <2>2 DEF NothingBefore
      <4>2. scanAt <= s
        BY <4>1
      <4> QED BY <1>3, <2>2, <3>2, <4>2 DEF Hit, FirstIn
    <3>3. CASE ~(e <= nextStart)
      <4>1. gap.start \in Nat
        BY <1>3, <2>1, MatchTyped
      <4>2. from # 0 => from + maxBytes = nextStart
        BY <1>3, WindowBytes
      <4>3. gap.start < s
        <5> HIDE DEF s, e, from
        <5> QED BY <1>3, <1>4, <3>1, <3>3, <4>1, <4>2
      <4> QED BY <1>4, <4>3 DEF Beats
    <3> QED BY <3>2, <3>3
  <2>3. IsAnswer(pats, hay, gap)
    BY <1>3, <2>1, <2>2, AnswerBeatsAll DEF BeatsAll
  <2> QED BY <1>3, <1>4, <2>3, ReturnKeeps
<1>5. CASE /\ gap # NoMatch => gap.start >= from
           /\ pending' = gap /\ cursor' = from /\ spanStart' = nextStart /\ phase' = "group"
           /\ UNCHANGED <<plan, group, best>>
  <2>0. UNCHANGED <<windowStart, windowEnd, lastHighEnd, scanAt, nextStart, gapSearched>>
    BY <1>5 DEF group
  <2>1. NothingBefore(from)
    BY <1>3, <1>5, GapLoses
  <2>2. FirstIn(from, nextStart, gap)
    <3>1. \A id \in Ids(pats), u \in 0..hay.n :
            Hit(scanAt, nextStart, id, u) <=> Hit(from, nextStart, id, u)
      <4> TAKE id \in Ids(pats), u \in 0..hay.n
      <4>1. Occurs(pats, hay, id, u) => hay.off[u] >= scanAt /\ hay.off[u] >= from
        BY <1>3, <2>1 DEF NothingBefore
      <4>2. Occurs(pats, hay, id, u) => scanAt <= hay.off[u] /\ from <= hay.off[u]
        BY <4>1
      <4> QED BY <4>2 DEF Hit
    <3> HIDE DEF from
    <3> QED BY <1>3, <3>1 DEF FirstIn
  <2>3. OnBoundary(from) /\ OnBoundary(nextStart)
    <3>1. from \in Nat /\ nextStart \in Nat /\ scanAt <= from /\ scanAt <= nextStart
      <4> HIDE DEF from
      <4> QED BY <1>3
    <3>2. from <= nextStart /\ nextStart <= nextStart
      BY <1>3, <3>1
    <3> HIDE DEF from
    <3> QED BY <1>3, <3>1, <3>2, WindowBoundary
  <2>4. OnBoundary(windowStart) /\ OnBoundary(lastHighEnd)
    BY <1>0 DEF IInv, Group
  <2>5. Group'
    <3>1. /\ from = cursor' /\ nextStart = spanStart' /\ windowStart = windowStart'
          /\ lastHighEnd = lastHighEnd' /\ gap = pending' /\ UNCHANGED plan
      BY <1>5, <2>0
    <3>2. OnBoundary(WindowFrom(nextStart))
      BY <2>3
    <3> HIDE DEF from
    <3> QED BY <1>3, <2>1, <2>2, <2>3, <2>4, <3>1, <3>2, GroupNext
  <2>6. Typed'
    <3>1. cursor' \in 0..Bytes(hay) /\ spanStart' \in 0..Bytes(hay)
      BY <1>3, <1>5
    <3>2. /\ windowStart' \in 0..Bytes(hay) /\ windowEnd' \in 0..Bytes(hay)
          /\ lastHighEnd' \in 0..Bytes(hay) /\ scanAt' \in 0..Bytes(hay)
          /\ nextStart' \in -1..Bytes(hay) /\ gapSearched' \in BOOLEAN
      BY <1>3, <2>0 DEF Typed
    <3>3. phase' \in {"admit", "group", "coalesce", "search", "done"} /\ UNCHANGED plan
      BY <1>5
    <3> QED BY <1>3, <3>1, <3>2, <3>3, TypedNext
  <2>7. Fresh' /\ Bounds' /\ Unseen' /\ Seen' /\ Answered'
    BY <1>5 DEF Fresh, Bounds, Unseen, Seen, Answered
  <2> QED BY <2>5, <2>6, <2>7 DEF IInv
<1> QED BY <1>1, <1>4, <1>5

LEMMA StutterKeeps == ASSUME IInv, UNCHANGED vars PROVE IInv'
<1>0. /\ UNCHANGED <<pats, maxBytes, asciiOnly, hay, phase, cursor, spanStart>>
      /\ UNCHANGED <<windowStart, windowEnd, lastHighEnd, scanAt, nextStart, gapSearched>>
      /\ UNCHANGED <<pending, best, plan>>
  BY DEF vars, plan, group
<1>1. Typed'
  BY <1>0 DEF IInv, Typed
<1>2. Group'
  <2>1. CASE phase \in {"group", "coalesce", "search"}
    <3>1. /\ cursor = cursor' /\ spanStart = spanStart' /\ windowStart = windowStart'
          /\ lastHighEnd = lastHighEnd' /\ pending = pending' /\ phase' = phase
      BY <1>0
    <3>2. /\ cursor <= spanStart /\ NothingBefore(cursor)
          /\ OnBoundary(cursor) /\ OnBoundary(spanStart) /\ OnBoundary(WindowFrom(spanStart))
          /\ OnBoundary(windowStart) /\ OnBoundary(lastHighEnd)
          /\ asciiOnly /\ phase # "search" => pending = NoMatch
          /\ ~asciiOnly /\ pending # NoMatch => FirstIn(cursor, spanStart, pending)
      BY <2>1 DEF IInv, Group
    <3> QED BY <1>0, <3>1, <3>2, GroupNext
  <2>2. CASE phase \notin {"group", "coalesce", "search"}
    BY <1>0, <2>2 DEF Group
  <2> QED BY <2>1, <2>2
<1>3. Bounds'
  BY <1>0 DEF IInv, Bounds, OnBoundary, WindowFrom, WindowTo
<1>4. Fresh' /\ Unseen'
  BY <1>0 DEF IInv, Fresh, Unseen
<1>5. Seen'
  <2>1. /\ GapMatch(scanAt)' = GapMatch(scanAt) /\ NextHigh(scanAt)' = NextHigh(scanAt)
        /\ NextExceptional(scanAt)' = NextExceptional(scanAt)
        /\ GapHigh(scanAt)' = GapHigh(scanAt)
    BY <1>0 DEF GapMatch, GapHigh, NextExceptional, NextHigh, FirstFrom, AnswerIn, Units,
                Exceptional, High, Before
  <2>2. Apart(nextStart)' <=> Apart(nextStart)
    BY <1>0 DEF Apart, WindowFrom
  <2>3. NextKnown' <=> NextKnown
    BY <1>0, <2>1, <2>2 DEF NextKnown
  <2>4. NoneFollows' <=> NoneFollows
    BY <1>0, <2>1 DEF NoneFollows
  <2> QED BY <1>0, <2>3, <2>4 DEF IInv, Seen
<1>6. Answered'
  <2>1. IsAnswer(pats, hay, best)' <=> IsAnswer(pats, hay, best)
    BY <1>0
  <2>2. PassedOver(best)' <=> PassedOver(best)
    BY <1>0 DEF PassedOver
  <2> QED BY <1>0, <2>1, <2>2 DEF IInv, Answered
<1> QED BY <1>1, <1>2, <1>3, <1>4, <1>5, <1>6 DEF IInv

LEMMA StepKeeps == ASSUME IInv, [Next]_vars PROVE IInv'
<1>1. CASE AdmitSet
  BY <1>1, AdmitSetKeeps
<1>2. CASE AdmitSingle
  BY <1>2, AdmitSingleKeeps
<1>3. CASE Decline
  BY <1>3, DeclineKeeps
<1>4. CASE OpenGroup
  BY <1>4, OpenGroupKeeps
<1>5. CASE LastSpan
  BY <1>5, LastSpanKeeps
<1>6. CASE Coalesce
  BY <1>6, CoalesceKeeps
<1>7. CASE GiveUp
  BY <1>7, GiveUpKeeps
<1>8. CASE AnswerGroup
  BY <1>8, AnswerGroupKeeps
<1>9. CASE LastRegion
  BY <1>9, LastRegionKeeps
<1>10. CASE NextGroup
  BY <1>10, NextGroupKeeps
<1>11. CASE Done
  BY <1>11, StutterKeeps DEF Done
<1>12. CASE UNCHANGED vars
  BY <1>12, StutterKeeps
<1> QED BY <1>1, <1>2, <1>3, <1>4, <1>5, <1>6, <1>7, <1>8, <1>9, <1>10, <1>11, <1>12 DEF Next

\* The inductive invariant of findPartitionedASCIIWithStats.
THEOREM Invariance == Spec => []IInv
<1>1. Init => IInv
  BY InitHolds
<1>2. IInv /\ [Next]_vars => IInv'
  BY StepKeeps
<1> QED BY <1>1, <1>2, PTL DEF Spec

-----------------------------------------------------------------------------
(***************************************************************************)
(* No cut falls inside an encoding: the region, the gap and the window are *)
(* cut at unit boundaries.                                                 *)
(***************************************************************************)
THEOREM CutsAreBoundaries == Spec => []CutsBetweenUnits
<1>1. IInv => CutsBetweenUnits
  <2> SUFFICES ASSUME IInv, phase \in {"group", "coalesce", "search"}
               PROVE  /\ OnBoundary(cursor) /\ OnBoundary(spanStart)
                      /\ OnBoundary(windowStart) /\ OnBoundary(lastHighEnd)
                      /\ phase = "search" =>
                           (asciiOnly /\ pending # NoMatch) \/ OnBoundary(windowEnd)
    BY DEF CutsBetweenUnits
  <2>1. /\ OnBoundary(cursor) /\ OnBoundary(spanStart)
        /\ OnBoundary(windowStart) /\ OnBoundary(lastHighEnd)
    BY DEF IInv, Group
  <2>2. ASSUME phase = "search", ~(asciiOnly /\ pending # NoMatch)
        PROVE  OnBoundary(windowEnd)
    <3>0. Typed /\ Seen /\ Bounds /\ Bytes(hay) \in Nat /\ maxBytes \in Nat
      BY Base DEF IInv
    <3>1. /\ scanAt \in 0..Bytes(hay) /\ OnBoundary(scanAt) /\ windowEnd = WindowTo(scanAt)
          /\ nextStart \in -1..Bytes(hay)
      BY <2>2, <3>0 DEF Typed, Bounds
    <3>2. /\ windowEnd \in Nat /\ scanAt <= windowEnd /\ windowEnd <= Bytes(hay)
          /\ windowEnd # Bytes(hay) => windowEnd = scanAt + maxBytes
      BY <3>0, <3>1, WindowBytes
    <3>3. CASE windowEnd = Bytes(hay)
      BY <3>0, <3>3, Base DEF OnBoundary
    <3>4. CASE windowEnd # Bytes(hay) /\ nextStart >= 0
      <4>1. NextKnown /\ nextStart \in 0..Bytes(hay)
        BY <2>2, <3>0, <3>1, <3>4 DEF Seen
      <4>2. nextStart = NextHigh(scanAt) \/ nextStart = NextExceptional(scanAt)
        BY <4>1 DEF NextKnown
      <4>3. WindowFrom(nextStart) > windowEnd
        BY <4>1 DEF NextKnown, Apart
      <4>4. WindowFrom(nextStart) \in 0..Bytes(hay) /\ WindowFrom(nextStart) <= nextStart
        BY <3>0, <4>1, WindowBytes
      <4>5. windowEnd <= nextStart
        BY <3>0, <3>2, <4>1, <4>3, <4>4
      <4> QED BY <3>0, <3>1, <3>2, <4>2, <4>5, WindowBoundary
    <3>5. CASE windowEnd # Bytes(hay) /\ ~(nextStart >= 0)
      <4>1. NoneFollows
        BY <2>2, <3>0, <3>5 DEF Seen
      <4>2. Bytes(hay) = NextHigh(scanAt) \/ Bytes(hay) = NextExceptional(scanAt)
        <5>1. CASE asciiOnly
          <6>1. GapHigh(scanAt) < 0
            BY <2>2, <4>1, <5>1 DEF NoneFollows
          <6>2. Len(pats[0]) \in Nat /\ Len(pats[0]) <= maxBytes
            <7>1. 0 \in Ids(pats)
              BY <3>0, <5>1 DEF Typed, Ids
            <7> QED BY <3>0, <7>1, PatternUnits
          <6>3. ~(Bytes(hay) - scanAt < Len(pats[0]) - 1)
            BY <3>0, <3>1, <3>2, <3>5, <6>2
          <6>4. NextHigh(scanAt) \in 0..Bytes(hay)
            BY <3>0, <3>1, NextIsHigh
          <6>5. NextHigh(scanAt) # Bytes(hay) => GapHigh(scanAt) = NextHigh(scanAt)
            BY <6>3 DEF GapHigh
          <6> QED BY <3>0, <6>1, <6>4, <6>5
        <5>2. CASE ~asciiOnly
          BY <4>1, <5>2 DEF NoneFollows
        <5> QED BY <5>1, <5>2
      <4> QED BY <3>0, <3>1, <3>2, <4>2, WindowBoundary
    <3> QED BY <3>3, <3>4, <3>5
  <2> QED BY <2>1, <2>2
<1> QED BY <1>1, Invariance, PTL

(***************************************************************************)
(* Between groups nothing is lost: no match starts before the cursor, and  *)
(* a pending match is what a search up to the span would answer.           *)
(***************************************************************************)
THEOREM LosesNothing == Spec => []NothingLost
<1>1. IInv => NothingLost
  <2> SUFFICES ASSUME IInv, phase = "group"
               PROVE  /\ NothingBefore(cursor)
                      /\ pending # NoMatch => pending = AnswerIn(cursor, spanStart)
    BY DEF NothingLost, NothingBefore
  <2>1. /\ Typed /\ NothingBefore(cursor)
        /\ pending # NoMatch => FirstIn(cursor, spanStart, pending)
    BY DEF IInv, Group
  <2>2. FirstIn(cursor, spanStart, AnswerIn(cursor, spanStart))
    BY <2>1, AnswerInIsFirst
  <2>3. pending # NoMatch => pending = AnswerIn(cursor, spanStart)
    BY <2>1, <2>2, SameAnswer
  <2> QED BY <2>1, <2>3
<1> QED BY <1>1, Invariance, PTL

(***************************************************************************)
(* What is returned occurs, and nothing is returned only if nothing does.  *)
(***************************************************************************)
THEOREM ReportsAreMatches == Spec => []ReportsMatch
<1>1. IInv => ReportsMatch
  BY DEF IInv, Answered, PassedOver, IsAnswer, ReportsMatch
<1> QED BY <1>1, Invariance, PTL

(***************************************************************************)
(* A single ASCII pattern is found where it first occurs.                  *)
(***************************************************************************)
THEOREM SingleIsFound == Spec => []SingleIsLeftmost
<1>1. IInv => SingleIsLeftmost
  BY DEF IInv, Answered, PassedOver, SingleIsLeftmost, LeftmostMatch
<1> QED BY <1>1, Invariance, PTL

(***************************************************************************)
(* The only match a set's search can pass over is one that starts behind   *)
(* the group's last span and crosses the end of its window.                *)
(***************************************************************************)
THEOREM OnlyTrailing == Spec => []OnlyTrailingIsMissed
<1>1. IInv => OnlyTrailingIsMissed
  <2> SUFFICES ASSUME IInv, phase = "done", ~IsAnswer(pats, hay, best)
               PROVE  OnlyTrailingIsMissed
    BY DEF OnlyTrailingIsMissed
  <2>0. Typed /\ PassedOver(best)
    BY DEF IInv, Answered
  <2>1. PICK id \in Ids(pats), u \in 0..hay.n :
          /\ Occurs(pats, hay, id, u)
          /\ \A other \in Ids(pats), v \in 0..hay.n :
               Occurs(pats, hay, other, v) => Before(u, id, v, other)
          /\ lastHighEnd <= hay.off[u] /\ hay.off[u] < windowEnd
          /\ windowEnd < hay.off[u + Len(pats[id])]
    BY <2>0 DEF PassedOver
  <2> DEFINE m == AnswerIn(0, Bytes(hay))
             first == [pattern |-> id, start |-> hay.off[u]]
  <2>2. FirstIn(0, Bytes(hay), first)
    <3>1. IsMatch(first)
      BY <2>1 DEF IsMatch
    <3>2. \A other \in Ids(pats), v \in 0..hay.n :
            Hit(0, Bytes(hay), other, v) => Beats(first, other, v)
      <4>1. Beats(first, id, u)
        BY <2>0, <3>1, Base, MatchTyped DEF Beats
      <4> HIDE DEF first
      <4> QED BY <2>0, <2>1, <3>1, <4>1, BeatsOn DEF Hit
    <3>3. Hit(0, Bytes(hay), id, u)
      BY <2>0, <2>1, Base, Ends DEF Hit
    <3> QED BY <3>2, <3>3 DEF FirstIn
  <2>3. FirstIn(0, Bytes(hay), m)
    BY <2>0, AnswerInIsFirst
  <2>4. m = first
    <3> HIDE DEF m, first
    <3> QED BY <2>0, <2>2, <2>3, SameAnswer
  <2>5. UnitAt(hay, m.start) = u /\ m.pattern = id /\ m.start = hay.off[u]
    BY <2>0, <2>4, Base, UnitAtOff
  <2> QED BY <2>1, <2>5 DEF OnlyTrailingIsMissed
<1> QED BY <1>1, Invariance, PTL

(***************************************************************************)
(* Each span that joins a group lies behind the one before, and a group's  *)
(* region begins behind the window of the last.                            *)
(***************************************************************************)
THEOREM MovesOn == Spec => SpansMoveOn
<1> DEFINE Forward ==
      /\ phase = "coalesce" /\ phase' = "coalesce" => scanAt' > scanAt
      /\ phase = "search" /\ phase' = "group" =>
           spanStart' > lastHighEnd /\ cursor' > windowEnd
<1>1. IInv /\ [Next]_vars => [Forward]_vars
  <2> SUFFICES ASSUME IInv, Next PROVE Forward
    OBVIOUS
  <2>1. ASSUME phase = "coalesce", phase' = "coalesce" PROVE scanAt' > scanAt
    <3>1. Coalesce
      BY <2>1 DEF Next, AdmitSet, AdmitSingle, Decline, OpenGroup, LastSpan, GiveUp, FallBack,
                  Return, AnswerGroup, LastRegion, NextGroup, Done
    <3>2. PICK at \in 0..Bytes(hay) : NextSpan(at) /\ scanAt' = SpanEnd(at)
      BY <2>1, <3>1 DEF Coalesce
    <3>3. scanAt <= at /\ at < SpanEnd(at) /\ SpanEnd(at) \in 0..Bytes(hay)
      BY <3>2, NextSpanBytes
    <3>4. scanAt \in Nat /\ Bytes(hay) \in Nat
      BY Base DEF IInv, Typed
    <3> QED BY <3>2, <3>3, <3>4
  <2>2. ASSUME phase = "search", phase' = "group"
        PROVE  spanStart' > lastHighEnd /\ cursor' > windowEnd
    <3>1. NextGroup
      BY <2>2 DEF Next, AdmitSet, AdmitSingle, Decline, OpenGroup, LastSpan, Coalesce, NextSpan,
                  GiveUp, FallBack, Return, AnswerGroup, LastRegion, Done
    <3>2. /\ GroupAnswer = NoMatch /\ nextStart >= 0
          /\ cursor' = WindowFrom(nextStart) /\ spanStart' = nextStart
      BY <2>2, <3>1 DEF NextGroup, Return
    <3>3. /\ nextStart \in 0..Bytes(hay) /\ Bytes(hay) \in Nat
          /\ scanAt \in 0..Bytes(hay) /\ lastHighEnd = scanAt
          /\ windowEnd < WindowFrom(nextStart) /\ scanAt <= windowEnd /\ windowEnd \in Nat
          /\ WindowFrom(nextStart) \in 0..Bytes(hay) /\ WindowFrom(nextStart) <= nextStart
      BY <2>2, <3>2, BetweenGroups
    <3> QED BY <3>2, <3>3
  <2> QED BY <2>1, <2>2
<1>2. Spec => [][Forward]_vars
  BY <1>1, Invariance, PTL DEF Spec
<1> QED BY <1>2 DEF SpansMoveOn
=============================================================================
