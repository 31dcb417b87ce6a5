-------------------------- MODULE PlanBuild_proofs --------------------------
(***************************************************************************)
(* What newSearchPlan and finish build is the automaton that the executors *)
(* assume, for any patterns, any letters with their orbits and any limit   *)
(* of the dense table.                                                     *)
(*                                                                         *)
(* The witness of the invariant is path, the tokens on the way to each     *)
(* node.  It grows with the trie and stays as it is while finish links it. *)
(***************************************************************************)
EXTENDS PlanBuild, FoldPlan_proofs, FiniteSetTheorems

EdgeMap == UNION {[toks -> Nat] : toks \in SUBSET Token}
Output == [pattern : Int, units : Nat]
Node == [edges : EdgeMap, failure : Nat, output : Output]

Size == Cardinality(NodeIds)

Phases == {"insert", "enqueue", "link", "fall", "table", "built"}
Searching == phase \in {"enqueue", "link", "fall"}

\* The first k tokens of a pattern.
Prefix(id, k) == [i \in 1..k |-> tokenOf[patterns[id][i]]]

\* How many of its letters are in the trie.
Read(id) == IF id < patternID THEN Len(patterns[id])
            ELSE IF id = patternID THEN at ELSE 0

Done(id) == id \in DOMAIN patterns /\ id < patternID

Typed ==
  /\ patterns \in PatternLists /\ exact \in BOOLEAN
  /\ exact => \A id \in DOMAIN patterns : \A i \in DOMAIN patterns[id] :
                Width[patterns[id][i]] = 1
  /\ tokenOf \in [Letters -> Nat] /\ nextToken \in Token
  /\ \A x \in Letters : tokenOf[x] < nextToken
  /\ TokensAreOrbits
  /\ phase \in Phases
  /\ patternID \in Nat /\ 0..(patternID - 1) \subseteq DOMAIN patterns
  /\ at \in Nat /\ bytes \in Nat /\ maxUnits \in Nat /\ maxBytes \in Nat
  /\ patternID \in DOMAIN patterns => at <= Len(patterns[patternID])
  /\ patternID \notin DOMAIN patterns => at = 0
  /\ phase # "insert" => patternID \notin DOMAIN patterns

\* The limits cover every pattern that has been read.
Bounds(id, k, most) ==
  \A text \in [1..k -> Letters] :
    (\A i \in 1..k : text[i] \in Members(patterns[id][i])) => Spelled(text) <= most

Limits ==
  /\ \A id \in DOMAIN patterns : Done(id) =>
       Len(patterns[id]) <= maxUnits /\ Bounds(id, Len(patterns[id]), maxBytes)
  /\ maxUnits = 0 \/ \E id \in DOMAIN patterns : Done(id) /\ Len(patterns[id]) = maxUnits
  /\ Bounds(patternID, at, bytes)
  /\ \/ empty = -1 /\ \A id \in DOMAIN patterns : Done(id) => patterns[id] # <<>>
     \/ /\ Done(empty) /\ patterns[empty] = <<>>
        /\ \A id \in DOMAIN patterns : Done(id) /\ patterns[id] = <<>> => empty <= id

\* A tree, with the way to each node; each node was made after its parent.
IsTrie(path) ==
  /\ Size \in Token /\ NodeIds = 0..(Size - 1)
  /\ nodes \in [NodeIds -> Node]
  /\ path \in [NodeIds -> Seq(Token)] /\ path[0] = <<>>
  /\ \A n, m \in NodeIds : path[n] = path[m] => n = m
  /\ \A n \in NodeIds : \A tok \in Edges(n) :
       LET m == nodes[n].edges[tok] IN
       /\ m \in NodeIds /\ n < m /\ tok < nextToken
       /\ path[m] = Append(path[n], tok)
  /\ \A m \in NodeIds \ {0} : \E n \in NodeIds : \E tok \in Edges(n) :
       nodes[n].edges[tok] = m

\* Its nodes are the prefixes of what has been read.
HoldsPrefixes(path) ==
  /\ \A id \in DOMAIN patterns : \A k \in 1..Read(id) :
       /\ tokenOf[patterns[id][k]] # 0
       /\ \E n \in NodeIds : path[n] = Prefix(id, k)
  /\ \A n \in NodeIds \ {0} : \E id \in DOMAIN patterns : \E k \in 1..Read(id) :
       path[n] = Prefix(id, k)
  /\ state \in NodeIds
  /\ patternID \in DOMAIN patterns => path[state] = Prefix(patternID, at)
  /\ patternID \notin DOMAIN patterns => state = 0

\* The pattern is done, and its path leads to the node.
Leads(path, id, n) ==
  Done(id) /\ patterns[id] # <<>> /\ path[n] = Prefix(id, Len(patterns[id]))

\* The node's output before it is linked: the lowest pattern that leads to it.
IsOwn(path, n, out) ==
  \/ out = NoOutput /\ \A id \in DOMAIN patterns : ~Leads(path, id, n)
  \/ \E id \in DOMAIN patterns :
       /\ out = [pattern |-> id, units |-> Len(patterns[id])]
       /\ Leads(path, id, n)
       /\ \A other \in DOMAIN patterns : Leads(path, other, n) => id <= other

\* The queue with the root before it.
Q(i) == IF i = 0 THEN 0 ELSE queue[i]
Queued(n) == \E i \in 0..Len(queue) : Q(i) = n

\* The tokens of the present node whose children are not queued yet.
Open == IF phase = "fall" THEN todo \cup {token} ELSE todo

IsSuffix(path, n, m) == EndsWith(path[n], path[m]) /\ Len(path[m]) < Len(path[n])

\* m is the longest node that is a proper suffix of n.
IsLink(path, n, m) ==
  /\ m \in NodeIds /\ IsSuffix(path, n, m)
  /\ \A s \in NodeIds : IsSuffix(path, n, s) => Len(path[s]) <= Len(path[m])

BreadthFirst(path) ==
  /\ queue \in Seq(NodeIds \ {0})
  /\ head \in 0..Len(queue)
  /\ \A i, j \in 0..Len(queue) : Q(i) = Q(j) => i = j
  /\ \A i, j \in 0..Len(queue) : i <= j => Len(path[Q(i)]) <= Len(path[Q(j)])

\* The children before the present node's open ones are queued, and no others.
FrontierAt(path, open) ==
  /\ \A i \in 0..Len(queue) : Len(path[Q(i)]) <= Len(path[Q(head)]) + 1
  /\ \A i \in 0..Len(queue) : \A tok \in Edges(Q(i)) :
       Queued(nodes[Q(i)].edges[tok]) <=> i < head \/ (i = head /\ tok \notin open)
  /\ \A j \in 1..Len(queue) : \E i \in 0..head : \E tok \in Edges(Q(i)) :
       nodes[Q(i)].edges[tok] = Q(j)

Frontier(path) ==
  /\ dense = NoTable
  /\ todo \subseteq Edges(Q(head))
  /\ phase = "enqueue" => head = 0
  /\ phase # "enqueue" => head > 0
  /\ phase = "fall" => token \in Edges(Q(head)) \ todo
  /\ FrontierAt(path, Open)

Links(path) ==
  /\ \A n \in NodeIds \ {0} : Queued(n) =>
       IsLink(path, n, nodes[n].failure) /\ Queued(nodes[n].failure)
  /\ \A n \in NodeIds : Queued(n) => IsOutput(TokenPats, path[n], nodes[n].output)
  /\ \A n \in NodeIds : ~Queued(n) =>
       nodes[n].failure = 0 /\ IsOwn(path, n, nodes[n].output)

\* The walk along the failure links: no edge for the token was passed over.
Falls(path) ==
  /\ failure \in NodeIds /\ Queued(failure) /\ IsSuffix(path, Q(head), failure)
  /\ \A s \in NodeIds : IsSuffix(path, Q(head), s) /\ token \in Edges(s) =>
       Len(path[s]) <= Len(path[failure])

\* A row of the table holds what advance returns.
IsRow(path, n) ==
  \A tok \in 1..(nextToken - 1) :
    /\ dense[n][tok] \in NodeIds
    /\ IsAdvance(TokenPats, path[n], tok, path[dense[n][tok]])

Fresh(path) ==
  /\ \A n \in NodeIds : nodes[n].failure = 0 /\ IsOwn(path, n, nodes[n].output)
  /\ queue = <<>> /\ head = 0 /\ todo = {} /\ dense = NoTable

Holds(path) ==
  /\ IsTrie(path)
  /\ HoldsPrefixes(path)
  /\ phase = "insert" => Fresh(path)
  /\ phase # "insert" => BreadthFirst(path) /\ Links(path)
  /\ Searching => Frontier(path)
  /\ phase = "fall" => Falls(path)
  /\ phase \in {"table", "built"} => \A n \in NodeIds : Queued(n)
  /\ phase = "table" =>
       /\ DOMAIN dense = {Q(i) : i \in 0..head}
       /\ \A i \in 0..head : IsRow(path, Q(i))
  /\ phase = "built" /\ dense # NoTable => \A n \in NodeIds : IsRow(path, n)

IInv == Typed /\ Limits /\ \E path : Holds(path)
-----------------------------------------------------------------------------
\* The walk of runeToken around an orbit.
IsWalk(r, f) ==
  f = [k \in 0..Cardinality(Letters) |-> IF k = 0 THEN r ELSE SimpleFold[f[k - 1]]]

LEMMA LettersCount == Cardinality(Letters) \in Nat
BY BuildAssumption, FS_CardinalityType

LEMMA OrbitWalk ==
  ASSUME NEW r \in Letters
  PROVE  \E w \in [0..Cardinality(Letters) -> Letters] :
           /\ w[0] = r
           /\ \A k \in 1..Cardinality(Letters) : w[k] = SimpleFold[w[k - 1]]
           /\ Orbit(r) = {w[k] : k \in 0..Cardinality(Letters)}
<1> DEFINE C == Cardinality(Letters)
           round == [p \in (1..C) \X Letters |-> SimpleFold[p[2]]]
<1>1. C \in Nat
  BY LettersCount
<1>2. \A k \in 1..C, x \in Letters : round[<<k, x>>] = SimpleFold[x]
  OBVIOUS
<1>3. round \in [(1..C) \X Letters -> Letters]
  BY BuildAssumption
<1> HIDE DEF round
<1>4. PICK f : IsIteration(Letters, r, round, C, f)
  BY <1>1, <1>3, RunExists
<1> HIDE DEF C
<1>5. f \in [0..C -> Letters] /\ f[0] = r
  BY <1>4 DEF IsIteration
<1>6. ASSUME NEW k \in 1..C PROVE f[k] = SimpleFold[f[k - 1]]
  <2>1. k - 1 \in 0..C
    BY <1>1
  <2> QED BY <1>2, <1>4, <1>5, <2>1 DEF IsIteration
<1>7. IsWalk(r, f)
  <2>1. \A k \in 0..C : f[k] = IF k = 0 THEN r ELSE SimpleFold[f[k - 1]]
    BY <1>1, <1>5, <1>6
  <2>2. f = [k \in 0..C |-> f[k]]
    BY <1>5
  <2> QED BY <2>1, <2>2 DEF IsWalk, C
<1> DEFINE w == CHOOSE g : IsWalk(r, g)
<1>8. IsWalk(r, w)
  BY <1>7
<1>9. Orbit(r) = Range(w)
  BY DEF Orbit, IsWalk
<1> HIDE DEF w
<1>10. w = [k \in 0..C |-> IF k = 0 THEN r ELSE SimpleFold[w[k - 1]]]
  BY <1>8 DEF IsWalk, C
<1>11. \A k \in 0..C : w[k] = f[k]
  <2> DEFINE Wrong == {k \in 0..C : w[k] # f[k]}
  <2> SUFFICES ASSUME Wrong # {} PROVE FALSE
    OBVIOUS
  <2>1. PICK k \in Wrong : \A j \in Wrong : k <= j
    <3>1. Wrong \in SUBSET Nat
      BY <1>1
    <3> HIDE DEF Wrong
    <3> QED BY <3>1, Least
  <2>2. k \in 0..C /\ w[k] # f[k]
    OBVIOUS
  <2>3. k # 0
    BY <1>5, <1>10, <2>2
  <2>4. k - 1 \in 0..C /\ k \in 1..C /\ ~(k <= k - 1)
    BY <1>1, <2>2, <2>3
  <2>5. w[k - 1] = f[k - 1]
    BY <2>1, <2>4
  <2>6. w[k] = SimpleFold[w[k - 1]]
    BY <1>10, <2>2, <2>3
  <2> QED BY <1>6, <2>2, <2>4, <2>5, <2>6
<1>12. Orbit(r) = {f[k] : k \in 0..C}
  <2>1. DOMAIN w = 0..C
    BY <1>10
  <2> QED BY <1>9, <1>11, <2>1 DEF Range
<1> QED BY <1>5, <1>6, <1>12 DEF C

\* A set of letters that folding does not lead out of.
IsClosed(S) == \A x \in S : SimpleFold[x] \in S

\* It holds the whole orbit of each of its letters.
LEMMA ClosedHoldsOrbit ==
  ASSUME NEW r \in Letters, NEW S, r \in S, IsClosed(S)
  PROVE  Orbit(r) \subseteq S
<1> DEFINE C == Cardinality(Letters)
<1>1. C \in Nat
  BY LettersCount
<1>2. PICK w \in [0..C -> Letters] :
         /\ w[0] = r
         /\ \A k \in 1..C : w[k] = SimpleFold[w[k - 1]]
         /\ Orbit(r) = {w[k] : k \in 0..C}
  BY OrbitWalk
<1> HIDE DEF C
<1>3. \A k \in 0..C : w[k] \in S
  <2> DEFINE Out == {k \in 0..C : w[k] \notin S}
  <2> SUFFICES ASSUME Out # {} PROVE FALSE
    OBVIOUS
  <2>1. PICK k \in Out : \A j \in Out : k <= j
    <3>1. Out \in SUBSET Nat
      BY <1>1
    <3> HIDE DEF Out
    <3> QED BY <3>1, Least
  <2>2. k \in 0..C /\ w[k] \notin S
    OBVIOUS
  <2>3. k # 0
    BY <1>2, <2>2
  <2>4. k - 1 \in 0..C /\ k \in 1..C /\ ~(k <= k - 1)
    BY <1>1, <2>2, <2>3
  <2>5. w[k - 1] \in S
    BY <2>1, <2>4
  <2> QED BY <1>2, <2>2, <2>4, <2>5 DEF IsClosed
<1> QED BY <1>2, <1>3

\* A walk comes back to where it began: folding permutes finitely many letters.
LEMMA WalkReturns ==
  ASSUME NEW r \in Letters
  PROVE  \E p \in 1..Cardinality(Letters) : \E w \in [0..p -> Letters] :
           /\ w[0] = r /\ w[p] = r
           /\ \A k \in 1..p : w[k] = SimpleFold[w[k - 1]]
           /\ Orbit(r) = {w[k] : k \in 0..(p - 1)}
<1> DEFINE C == Cardinality(Letters)
<1>1. C \in Nat
  BY LettersCount
<1>2. PICK w \in [0..C -> Letters] :
         /\ w[0] = r
         /\ \A k \in 1..C : w[k] = SimpleFold[w[k - 1]]
         /\ Orbit(r) = {w[k] : k \in 0..C}
  BY OrbitWalk
<1>3. IsFiniteSet(Letters) /\ IsFiniteSet(0..C) /\ Cardinality(Letters) < Cardinality(0..C)
  <2> HIDE DEF C
  <2>1. IsFiniteSet(0..C) /\ Cardinality(0..C) = IF 0 > C THEN 0 ELSE C - 0 + 1
    BY <1>1, FS_Interval
  <2>2. C < Cardinality(0..C)
    BY <1>1, <2>1
  <2> QED BY <2>1, <2>2, BuildAssumption DEF C
<1>4. \E i, j \in 0..C : i # j /\ w[i] = w[j]
  BY <1>3, FS_PigeonHole
<1> HIDE DEF C
<1> DEFINE Gaps == {i \in 0..C : \E j \in 0..C : i < j /\ w[i] = w[j]}
<1>5. PICK i \in Gaps : \A g \in Gaps : i <= g
  <2>1. Gaps # {}
    <3>1. PICK i \in 0..C, j \in 0..C : i # j /\ w[i] = w[j]
      BY <1>4
    <3>2. i < j \/ j < i
      BY <1>1, <3>1
    <3> QED BY <3>1, <3>2
  <2>2. Gaps \in SUBSET Nat
    BY <1>1
  <2> HIDE DEF Gaps
  <2> QED BY <2>1, <2>2, Least
<1>6. PICK p \in 0..C : i < p /\ w[i] = w[p]
  OBVIOUS
<1>7. i \in 0..C /\ p \in Nat
  BY <1>1
<1>8. i = 0
  <2> SUFFICES ASSUME i # 0 PROVE FALSE
    OBVIOUS
  <2>1. i - 1 \in 0..C /\ p - 1 \in 0..C /\ i \in 1..C /\ p \in 1..C
        /\ i - 1 < p - 1 /\ ~(i <= i - 1)
    BY <1>1, <1>6, <1>7
  <2>2. SimpleFold[w[i - 1]] = SimpleFold[w[p - 1]]
    BY <1>2, <1>6, <2>1
  <2>3. w[i - 1] \in Letters /\ w[p - 1] \in Letters
    BY <1>2, <2>1
  <2>4. w[i - 1] = w[p - 1]
    BY <2>2, <2>3, BuildAssumption
  <2>5. i - 1 \in Gaps
    BY <2>1, <2>4
  <2> HIDE DEF Gaps
  <2> QED BY <1>5, <2>1, <2>5
<1> HIDE DEF Gaps
<1>9. p \in 1..C /\ w[p] = r
  BY <1>1, <1>2, <1>6, <1>8
<1> DEFINE v == [k \in 0..p |-> w[k]]
<1>10. /\ v \in [0..p -> Letters] /\ v[0] = r /\ v[p] = r
       /\ \A k \in 0..p : v[k] = w[k]
  BY <1>1, <1>2, <1>9
<1>11. \A k \in 1..p : v[k] = SimpleFold[v[k - 1]]
  <2> HIDE DEF v
  <2> SUFFICES ASSUME NEW k \in 1..p PROVE v[k] = SimpleFold[v[k - 1]]
    OBVIOUS
  <2>1. k \in 1..C /\ k \in 0..p /\ k - 1 \in 0..p
    BY <1>1, <1>9
  <2> QED BY <1>2, <1>10, <2>1
<1> HIDE DEF v
<1>12. Orbit(r) = {v[k] : k \in 0..(p - 1)}
  <2> DEFINE S == {v[k] : k \in 0..(p - 1)}
  <2>1. r \in S
    <3>1. 0 \in 0..(p - 1)
      BY <1>9, <1>1
    <3> QED BY <1>10, <3>1
  <2>2. ASSUME NEW k \in 0..(p - 1) PROVE SimpleFold[v[k]] \in S
    <3>1. k + 1 \in 1..p /\ (k + 1) - 1 = k
      BY <1>1, <1>9
    <3>2. SimpleFold[v[k]] = v[k + 1]
      BY <1>11, <3>1
    <3>3. CASE k + 1 = p
      BY <1>10, <2>1, <3>2, <3>3
    <3>4. CASE k + 1 # p
      <4>1. k + 1 \in 0..(p - 1)
        BY <1>1, <1>9, <3>4
      <4> QED BY <3>2, <4>1
    <3> QED BY <3>3, <3>4
  <2>3. IsClosed(S)
    BY <2>2 DEF IsClosed
  <2>4. S \subseteq Orbit(r)
    <3>1. ASSUME NEW k \in 0..(p - 1) PROVE v[k] \in Orbit(r)
      <4>1. k \in 0..p /\ k \in 0..C
        BY <1>1, <1>9
      <4> QED BY <1>2, <1>10, <4>1
    <3> QED BY <3>1
  <2> HIDE DEF S
  <2>5. Orbit(r) \subseteq S
    BY <2>1, <2>3, ClosedHoldsOrbit
  <2>6. Orbit(r) = S
    BY <2>4, <2>5
  <2> QED BY <2>6 DEF S
<1> QED BY <1>9, <1>10, <1>11, <1>12 DEF C

LEMMA OrbitClosed ==
  ASSUME NEW r \in Letters
  PROVE  Orbit(r) \subseteq Letters /\ r \in Orbit(r) /\ IsClosed(Orbit(r))
<1>1. PICK p \in 1..Cardinality(Letters) : \E w \in [0..p -> Letters] :
         /\ w[0] = r /\ w[p] = r
         /\ \A k \in 1..p : w[k] = SimpleFold[w[k - 1]]
         /\ Orbit(r) = {w[k] : k \in 0..(p - 1)}
  BY WalkReturns
<1>2. PICK w \in [0..p -> Letters] :
         /\ w[0] = r /\ w[p] = r
         /\ \A k \in 1..p : w[k] = SimpleFold[w[k - 1]]
         /\ Orbit(r) = {w[k] : k \in 0..(p - 1)}
  BY <1>1
<1>3. p \in Nat /\ p >= 1
  BY LettersCount
<1>4. r \in Orbit(r)
  <2>1. 0 \in 0..(p - 1)
    BY <1>3
  <2> QED BY <1>2, <2>1
<1>5. ASSUME NEW k \in 0..(p - 1) PROVE w[k] \in Letters /\ SimpleFold[w[k]] \in Orbit(r)
  <2>1. k \in 0..p /\ k + 1 \in 1..p /\ (k + 1) - 1 = k
    BY <1>3
  <2>2. SimpleFold[w[k]] = w[k + 1] /\ w[k] \in Letters
    BY <1>2, <2>1
  <2>3. CASE k + 1 = p
    BY <1>2, <1>4, <2>2, <2>3
  <2>4. CASE k + 1 # p
    <3>1. k + 1 \in 0..(p - 1)
      BY <1>3, <2>4
    <3> QED BY <1>2, <2>2, <3>1
  <2> QED BY <2>2, <2>3, <2>4
<1> QED BY <1>2, <1>4, <1>5 DEF IsClosed

\* Orbits are the same from each of their letters.
LEMMA OrbitBack ==
  ASSUME NEW r \in Letters, NEW x \in Orbit(r)
  PROVE  Orbit(x) = Orbit(r)
<1>1. PICK p \in 1..Cardinality(Letters) : \E w \in [0..p -> Letters] :
         /\ w[0] = r /\ w[p] = r
         /\ \A k \in 1..p : w[k] = SimpleFold[w[k - 1]]
         /\ Orbit(r) = {w[k] : k \in 0..(p - 1)}
  BY WalkReturns
<1>2. PICK w \in [0..p -> Letters] :
         /\ w[0] = r /\ w[p] = r
         /\ \A k \in 1..p : w[k] = SimpleFold[w[k - 1]]
         /\ Orbit(r) = {w[k] : k \in 0..(p - 1)}
  BY <1>1
<1>3. p \in Nat /\ p >= 1
  BY LettersCount
<1>4. PICK i \in 0..(p - 1) : x = w[i]
  BY <1>2
<1>5. x \in Letters /\ IsClosed(Orbit(x)) /\ x \in Orbit(x)
  BY OrbitClosed
<1>6. Orbit(x) \subseteq Orbit(r)
  BY <1>5, OrbitClosed, ClosedHoldsOrbit
<1>7. \A k \in i..p : w[k] \in Orbit(x)
  <2> DEFINE Out == {k \in i..p : w[k] \notin Orbit(x)}
  <2> SUFFICES ASSUME Out # {} PROVE FALSE
    OBVIOUS
  <2>1. PICK k \in Out : \A j \in Out : k <= j
    <3>1. Out \in SUBSET Nat
      BY <1>3
    <3> HIDE DEF Out
    <3> QED BY <3>1, Least
  <2>2. k \in i..p /\ w[k] \notin Orbit(x)
    OBVIOUS
  <2>3. k # i
    BY <1>4, <1>5, <2>2
  <2>4. k - 1 \in i..p /\ k \in 1..p /\ ~(k <= k - 1)
    BY <1>3, <2>2, <2>3
  <2>5. w[k - 1] \in Orbit(x)
    BY <2>1, <2>4
  <2> QED BY <1>2, <1>5, <2>2, <2>4, <2>5 DEF IsClosed
<1>8. r \in Orbit(x)
  <2>1. p \in i..p
    BY <1>3
  <2> QED BY <1>2, <1>7, <2>1
<1>9. Orbit(r) \subseteq Orbit(x)
  BY <1>5, <1>8, ClosedHoldsOrbit
<1> QED BY <1>6, <1>9

\* What a letter stands for is what any of its members stands for.
LEMMA MembersAreClasses ==
  ASSUME NEW r \in Letters
  PROVE  /\ r \in Members(r) /\ Members(r) \subseteq Letters
         /\ \A x \in Members(r) : Members(x) = Members(r)
BY OrbitClosed, OrbitBack DEF Members

-----------------------------------------------------------------------------
\* The sum that Spelled takes, round by round.
IsSum(text, f) ==
  f = [i \in 0..Len(text) |-> IF i = 0 THEN 0 ELSE f[i - 1] + Width[text[i]]]

LEMMA SpelledIs ==
  ASSUME NEW n \in Nat, NEW text \in [1..n -> Letters],
         NEW f \in [0..n -> Nat], f[0] = 0,
         \A i \in 1..n : f[i] = f[i - 1] + Width[text[i]]
  PROVE  Spelled(text) = f[n]
<1>1. Len(text) = n
  OBVIOUS
<1>2. IsSum(text, f)
  <2>1. \A i \in 0..n : f[i] = IF i = 0 THEN 0 ELSE f[i - 1] + Width[text[i]]
    OBVIOUS
  <2>2. f = [i \in 0..n |-> f[i]]
    OBVIOUS
  <2> QED BY <1>1, <2>1, <2>2 DEF IsSum
<1> DEFINE w == CHOOSE g : IsSum(text, g)
<1>3. IsSum(text, w)
  BY <1>2
<1>4. Spelled(text) = w[n]
  BY <1>1 DEF Spelled, IsSum
<1> HIDE DEF w
<1>5. \A k \in 0..n : w[k] = f[k]
  <2> DEFINE Wrong == {k \in 0..n : w[k] # f[k]}
  <2> SUFFICES ASSUME Wrong # {} PROVE FALSE
    OBVIOUS
  <2>1. PICK k \in Wrong : \A j \in Wrong : k <= j
    <3>1. Wrong \in SUBSET Nat
      OBVIOUS
    <3> HIDE DEF Wrong
    <3> QED BY <3>1, Least
  <2>2. k \in 0..n /\ w[k] # f[k]
    OBVIOUS
  <2> HIDE DEF Wrong
  <2>3. k # 0
    BY <1>1, <1>3, <2>2 DEF IsSum
  <2>4. k - 1 \in 0..n /\ k \in 1..n /\ ~(k <= k - 1)
    BY <2>2, <2>3
  <2>5. w[k - 1] = f[k - 1]
    BY <2>1, <2>4 DEF Wrong
  <2>6. w[k] = w[k - 1] + Width[text[k]]
    BY <1>1, <1>3, <2>2, <2>3 DEF IsSum
  <2> QED BY <2>2, <2>4, <2>5, <2>6
<1> QED BY <1>4, <1>5

LEMMA SumExists ==
  ASSUME NEW n \in Nat, NEW text \in [1..n -> Letters]
  PROVE  \E f \in [0..n -> Nat] :
           f[0] = 0 /\ \A i \in 1..n : f[i] = f[i - 1] + Width[text[i]]
<1> DEFINE round == [p \in (1..n) \X Nat |-> p[2] + Width[text[p[1]]]]
<1>1. ASSUME NEW p \in (1..n) \X Nat PROVE p[2] + Width[text[p[1]]] \in Nat
  <2>1. p[1] \in 1..n /\ p[2] \in Nat
    BY <1>1
  <2>2. Width[text[p[1]]] \in Nat
    BY <2>1, BuildAssumption
  <2> QED BY <2>1, <2>2
<1>2. round \in [(1..n) \X Nat -> Nat]
  BY <1>1
<1>3. \A k \in 1..n, x \in Nat : round[<<k, x>>] = x + Width[text[k]]
  OBVIOUS
<1> HIDE DEF round
<1>4. PICK f : IsIteration(Nat, 0, round, n, f)
  BY <1>2, RunExists
<1>5. ASSUME NEW i \in 1..n PROVE f[i] = f[i - 1] + Width[text[i]]
  <2>1. i - 1 \in 0..n
    OBVIOUS
  <2> QED BY <1>3, <1>4, <2>1 DEF IsIteration
<1> QED BY <1>4, <1>5 DEF IsIteration

LEMMA SpelledEmpty ==
  ASSUME NEW text \in [1..0 -> Letters]
  PROVE  Spelled(text) = 0
<1> DEFINE f == [i \in 0..0 |-> 0]
<1>1. f \in [0..0 -> Nat] /\ f[0] = 0 /\ \A i \in 1..0 : f[i] = f[i - 1] + Width[text[i]]
  OBVIOUS
<1> HIDE DEF f
<1> QED BY <1>1, SpelledIs

\* A text is one letter wider than what comes before its last letter.
LEMMA SpelledStep ==
  ASSUME NEW n \in Nat, NEW text \in [1..(n + 1) -> Letters]
  PROVE  LET short == [i \in 1..n |-> text[i]] IN
         /\ short \in [1..n -> Letters] /\ Spelled(short) \in Nat
         /\ Spelled(text) = Spelled(short) + Width[text[n + 1]]
<1> DEFINE short == [i \in 1..n |-> text[i]]
<1>0. PICK m \in Nat : m = n + 1
  OBVIOUS
<1>1. PICK f \in [0..m -> Nat] : f[0] = 0 /\ \A i \in 1..m : f[i] = f[i - 1] + Width[text[i]]
  <2>1. text \in [1..m -> Letters]
    BY <1>0
  <2> QED BY <2>1, SumExists
<1>2. Spelled(text) = f[n + 1] /\ f[n + 1] = f[n] + Width[text[n + 1]]
  <2>1. Spelled(text) = f[m]
    <3>1. text \in [1..m -> Letters]
      BY <1>0
    <3> QED BY <1>1, <3>1, SpelledIs
  <2>2. n + 1 \in 1..(n + 1) /\ (n + 1) - 1 = n
    OBVIOUS
  <2> QED BY <1>0, <1>1, <2>1, <2>2
<1>3. short \in [1..n -> Letters] /\ \A i \in 1..n : short[i] = text[i]
  OBVIOUS
<1> DEFINE g == [i \in 0..n |-> f[i]]
<1>4. g \in [0..n -> Nat] /\ g[0] = 0 /\ \A i \in 0..n : g[i] = f[i]
  BY <1>0, <1>1
<1> HIDE DEF short, g
<1>5. ASSUME NEW i \in 1..n PROVE g[i] = g[i - 1] + Width[short[i]]
  <2>1. i \in 0..n /\ i - 1 \in 0..n /\ i \in 1..(n + 1)
    OBVIOUS
  <2> QED BY <1>0, <1>1, <1>3, <1>4, <2>1
<1>6. Spelled(short) = g[n]
  BY <1>3, <1>4, <1>5, SpelledIs
<1>7. n \in 0..n
  OBVIOUS
<1>8. Spelled(short) = f[n] /\ f[n] \in Nat
  BY <1>0, <1>1, <1>4, <1>6, <1>7
<1> QED BY <1>2, <1>3, <1>8 DEF short

\* maxFoldRuneWidth is as wide as the widest member.
LEMMA OrbitHasWidest ==
  ASSUME NEW r \in Letters
  PROVE  \E x \in Orbit(r) : \A y \in Orbit(r) : Width[y] <= Width[x]
<1>1. PICK p \in 1..Cardinality(Letters) : \E w \in [0..p -> Letters] :
         /\ w[0] = r /\ w[p] = r
         /\ \A k \in 1..p : w[k] = SimpleFold[w[k - 1]]
         /\ Orbit(r) = {w[k] : k \in 0..(p - 1)}
  BY WalkReturns
<1>2. PICK w \in [0..p -> Letters] :
         /\ w[0] = r /\ w[p] = r
         /\ \A k \in 1..p : w[k] = SimpleFold[w[k - 1]]
         /\ Orbit(r) = {w[k] : k \in 0..(p - 1)}
  BY <1>1
<1>3. p \in Nat /\ p >= 1
  BY LettersCount
<1>4. \A k \in 0..(p - 1) : Width[w[k]] \in Nat
  <2> SUFFICES ASSUME NEW k \in 0..(p - 1) PROVE Width[w[k]] \in Nat
    OBVIOUS
  <2>1. k \in 0..p
    BY <1>3
  <2> QED BY <1>2, <2>1, BuildAssumption
<1> DEFINE Widest(j) == \E k \in 0..j : \A i \in 0..j : Width[w[i]] <= Width[w[k]]
           Without == {j \in 0..(p - 1) : ~Widest(j)}
<1>5. Widest(p - 1)
  <2> SUFFICES ASSUME ~Widest(p - 1) PROVE FALSE
    OBVIOUS
  <2>1. PICK j \in Without : \A i \in Without : j <= i
    <3>1. p - 1 \in 0..(p - 1)
      BY <1>3
    <3>2. p - 1 \in Without
      <4> HIDE DEF Widest
      <4> QED BY <3>1
    <3>3. Without \in SUBSET Nat
      BY <1>3
    <3> HIDE DEF Without
    <3> QED BY <3>2, <3>3, Least
  <2>2. j \in 0..(p - 1) /\ ~Widest(j)
    OBVIOUS
  <2> HIDE DEF Without
  <2>3. j # 0
    <3>1. \A i \in 0..0 : i = 0
      OBVIOUS
    <3>2. 0 \in 0..0 /\ 0 \in 0..(p - 1)
      BY <1>3
    <3>3. Width[w[0]] <= Width[w[0]]
      BY <1>4, <3>2
    <3>4. Widest(0)
      BY <3>1, <3>2, <3>3
    <3> HIDE DEF Widest
    <3> QED BY <2>2, <3>4
  <2>4. j - 1 \in 0..(p - 1) /\ ~(j <= j - 1)
    BY <1>3, <2>2, <2>3
  <2>5. Widest(j - 1)
    BY <2>1, <2>4 DEF Without
  <2>6. PICK k \in 0..(j - 1) : \A i \in 0..(j - 1) : Width[w[i]] <= Width[w[k]]
    BY <2>5
  <2>7. k \in 0..j /\ k \in 0..(p - 1) /\ j \in 0..j
    BY <2>2, <2>6
  <2>8. \A i \in 0..j : i = j \/ i \in 0..(j - 1)
    BY <2>2
  <2>9. \A i \in 0..j : Width[w[i]] \in Nat
    <3>1. \A i \in 0..j : i \in 0..(p - 1)
      BY <1>3, <2>2
    <3> HIDE DEF Widest
    <3> QED BY <1>4, <3>1
  <2>10. CASE Width[w[j]] <= Width[w[k]]
    BY <2>2, <2>6, <2>7, <2>8, <2>10
  <2>11. CASE ~(Width[w[j]] <= Width[w[k]])
    <3>1. ASSUME NEW i \in 0..j PROVE Width[w[i]] <= Width[w[j]]
      <4>1. Width[w[i]] \in Nat /\ Width[w[j]] \in Nat /\ Width[w[k]] \in Nat
        BY <2>7, <2>9
      <4>2. CASE i = j
        BY <4>1, <4>2
      <4>3. CASE i # j
        <5>1. Width[w[i]] <= Width[w[k]]
          BY <2>6, <2>8, <4>3
        <5> HIDE DEF Widest
        <5> QED BY <2>11, <4>1, <5>1
      <4> QED BY <4>2, <4>3
    <3> QED BY <2>2, <2>7, <3>1
  <2> QED BY <2>10, <2>11
<1> QED BY <1>2, <1>5

LEMMA UnitBytesBound ==
  ASSUME NEW r \in Letters, exact \in BOOLEAN, exact => Width[r] = 1
  PROVE  /\ UnitBytes(r) \in Nat
         /\ \A x \in Members(r) : Width[x] <= UnitBytes(r)
<1>1. CASE exact
  BY <1>1 DEF UnitBytes, Members
<1>2. CASE ~exact
  <2> DEFINE S == {Width[x] : x \in Orbit(r)}
  <2>1. PICK x \in Orbit(r) : \A y \in Orbit(r) : Width[y] <= Width[x]
    BY OrbitHasWidest
  <2>2. \A y \in Orbit(r) : Width[y] \in Nat
    BY OrbitClosed, BuildAssumption
  <2>3. \E m \in S : \A y \in S : m >= y
    BY <2>1, <2>2
  <2>4. Max(S) \in S /\ \A y \in S : Max(S) >= y
    <3> HIDE DEF S
    <3> QED BY <2>3 DEF Max
  <2>5. UnitBytes(r) = Max(S) /\ Members(r) = Orbit(r)
    BY <1>2 DEF UnitBytes, Members
  <2>6. \A y \in Orbit(r) : Width[y] \in S
    OBVIOUS
  <2>7. S \subseteq Nat
    BY <2>2
  <2> HIDE DEF S
  <2>8. Max(S) \in Nat
    BY <2>4, <2>7
  <2> QED BY <2>2, <2>4, <2>5, <2>6, <2>8
<1> QED BY <1>1, <1>2

-----------------------------------------------------------------------------
LEMMA WithIs ==
  ASSUME NEW f, NEW x, NEW y
  PROVE  /\ DOMAIN With(f, x, y) = DOMAIN f \cup {x}
         /\ With(f, x, y)[x] = y
         /\ \A z \in DOMAIN f : z # x => With(f, x, y)[z] = f[z]
BY DEF With

LEMMA EdgeMapTyped ==
  ASSUME NEW f \in EdgeMap
  PROVE  DOMAIN f \subseteq Token /\ \A t \in DOMAIN f : f[t] \in Nat
BY DEF EdgeMap

LEMMA EdgeMapWith ==
  ASSUME NEW f \in EdgeMap, NEW x \in Token, NEW y \in Nat
  PROVE  With(f, x, y) \in EdgeMap
<1>1. With(f, x, y) \in [DOMAIN f \cup {x} -> Nat]
  BY EdgeMapTyped DEF With
<1>2. DOMAIN f \cup {x} \in SUBSET Token
  BY EdgeMapTyped
<1> QED BY <1>1, <1>2 DEF EdgeMap

\* The patterns are a slice of strings.
LEMMA PatternsTyped ==
  ASSUME Typed
  PROVE  /\ \A id \in DOMAIN patterns :
              /\ id \in Nat /\ patterns[id] \in Seq(Letters) /\ Len(patterns[id]) \in Nat
              /\ DOMAIN patterns[id] = 1..Len(patterns[id])
              /\ \A k \in 1..Len(patterns[id]) : patterns[id][k] \in Letters
              /\ patternID \notin DOMAIN patterns => id < patternID
              /\ patternID <= id => patternID \in DOMAIN patterns
<1>1. /\ patterns \in [DOMAIN patterns -> Seq(Letters)]
      /\ IsFiniteSet(DOMAIN patterns)
      /\ DOMAIN patterns = 0..(Cardinality(DOMAIN patterns) - 1)
  BY BuildAssumption DEF Typed
<1>2. Cardinality(DOMAIN patterns) \in Nat
  BY <1>1, FS_CardinalityType
<1>3. patternID \in Nat /\ 0..(patternID - 1) \subseteq DOMAIN patterns
  BY DEF Typed
<1>4. ASSUME NEW id \in DOMAIN patterns
      PROVE  id \in Nat /\ (patternID <= id => patternID \in DOMAIN patterns)
  <2>1. PICK c \in Nat : DOMAIN patterns = 0..(c - 1)
    BY <1>1, <1>2
  <2> QED BY <1>3, <2>1
<1>5. ASSUME NEW id \in DOMAIN patterns
      PROVE  patterns[id] \in Seq(Letters)
  BY <1>1
<1>6. \A s \in Seq(Letters) : Len(s) \in Nat /\ DOMAIN s = 1..Len(s)
                              /\ \A k \in 1..Len(s) : s[k] \in Letters
  OBVIOUS
<1> QED BY <1>3, <1>4, <1>5, <1>6

LEMMA NodeTyped ==
  ASSUME NEW path, IsTrie(path), NEW n \in NodeIds
  PROVE  /\ n \in Nat /\ nodes[n] \in Node
         /\ nodes[n].failure \in Nat /\ nodes[n].output \in Output
         /\ nodes[n].edges \in EdgeMap /\ Edges(n) \subseteq Token
         /\ path[n] \in Seq(Token) /\ Len(path[n]) \in Nat
         /\ 0 \in NodeIds
<1>1. nodes[n] \in Node /\ path[n] \in Seq(Token) /\ NodeIds = 0..(Size - 1) /\ Size \in Token
  BY DEF IsTrie
<1>2. n \in Nat /\ 0 \in NodeIds
  BY <1>1 DEF Token
<1>3. nodes[n].failure \in Nat /\ nodes[n].output \in Output /\ nodes[n].edges \in EdgeMap
  BY <1>1 DEF Node
<1>4. Edges(n) \subseteq Token
  BY <1>3, EdgeMapTyped DEF Edges
<1> QED BY <1>1, <1>2, <1>3, <1>4

\* What was appended to what is seen from the result.
Stem(c) == [i \in 1..(Len(c) - 1) |-> c[i]]

LEMMA AppendParts ==
  ASSUME NEW c, NEW s \in Seq(Token), NEW a \in Token, c = Append(s, a)
  PROVE  /\ s = Stem(c) /\ a = c[Len(c)]
         /\ c \in Seq(Token) /\ Len(c) = Len(s) + 1
BY DEF Stem

LEMMA EdgeIs ==
  ASSUME NEW path, IsTrie(path), NEW n \in NodeIds, NEW t \in Edges(n)
  PROVE  /\ nodes[n].edges[t] \in NodeIds /\ n < nodes[n].edges[t] /\ t < nextToken
         /\ path[nodes[n].edges[t]] = Append(path[n], t)
BY DEF IsTrie

\* Where the path leads on, there is an edge.
LEMMA EdgeOfPath ==
  ASSUME NEW path, IsTrie(path), NEW n \in NodeIds, NEW m \in NodeIds, NEW t \in Token,
         path[m] = Append(path[n], t)
  PROVE  t \in Edges(n) /\ nodes[n].edges[t] = m
<1>1. path[n] \in Seq(Token) /\ 0 \in NodeIds
  BY NodeTyped
<1>2. m # 0
  <2>1. path[0] = <<>>
    BY DEF IsTrie
  <2> QED BY <1>1, <2>1
<1>3. \E p \in NodeIds : \E u \in Edges(p) : nodes[p].edges[u] = m
  BY <1>2 DEF IsTrie
<1> PICK p \in NodeIds : \E u \in Edges(p) : nodes[p].edges[u] = m
  BY <1>3
<1> PICK u \in Edges(p) : nodes[p].edges[u] = m
  OBVIOUS
<1>4. path[m] = Append(path[p], u) /\ path[p] \in Seq(Token) /\ u \in Token
  <2>1. path[m] = Append(path[p], u)
    BY DEF IsTrie
  <2> QED BY <2>1, NodeTyped
<1>5. path[p] = path[n] /\ u = t
  <2>1. path[p] = Stem(path[m]) /\ u = path[m][Len(path[m])]
    BY <1>4, AppendParts
  <2>2. path[n] = Stem(path[m]) /\ t = path[m][Len(path[m])]
    BY <1>1, AppendParts
  <2> QED BY <2>1, <2>2
<1>6. p = n
  BY <1>5 DEF IsTrie
<1> QED BY <1>5, <1>6

\* A child's path is its parent's and a token; a child is nobody else's.
LEMMA ChildIs ==
  ASSUME NEW path, IsTrie(path), NEW n \in NodeIds, NEW t \in Edges(n)
  PROVE  LET m == nodes[n].edges[t] IN
         /\ m \in NodeIds \ {0} /\ n < m /\ t \in Token /\ t < nextToken
         /\ path[m] = Append(path[n], t) /\ Len(path[m]) = Len(path[n]) + 1
         /\ \A p \in NodeIds : \A u \in Edges(p) : nodes[p].edges[u] = m => p = n /\ u = t
<1> DEFINE m == nodes[n].edges[t]
<1>1. m \in NodeIds /\ n < m /\ t < nextToken /\ path[m] = Append(path[n], t)
  BY EdgeIs
<1>2. n \in Nat /\ t \in Token /\ path[n] \in Seq(Token)
  BY NodeTyped
<1>3. m # 0 /\ Len(path[m]) = Len(path[n]) + 1
  BY <1>1, <1>2, NodeTyped
<1>4. ASSUME NEW p \in NodeIds, NEW u \in Edges(p), nodes[p].edges[u] = m
      PROVE  p = n /\ u = t
  <2>1. path[m] = Append(path[p], u) /\ path[p] \in Seq(Token) /\ u \in Token
    <3>1. path[nodes[p].edges[u]] = Append(path[p], u)
      BY EdgeIs
    <3> QED BY <1>4, <3>1, NodeTyped
  <2>2. path[p] = path[n] /\ u = t
    <3>1. path[p] = Stem(path[m]) /\ u = path[m][Len(path[m])]
      BY <2>1, AppendParts
    <3>2. path[n] = Stem(path[m]) /\ t = path[m][Len(path[m])]
      BY <1>1, <1>2, AppendParts
    <3> QED BY <3>1, <3>2
  <2> QED BY <2>2 DEF IsTrie
<1> QED BY <1>1, <1>2, <1>3, <1>4

\* Every node but the root has a parent, with a path one token shorter.
LEMMA ParentIs ==
  ASSUME NEW path, IsTrie(path), NEW m \in NodeIds, m # 0
  PROVE  \E n \in NodeIds : \E t \in Edges(n) :
           /\ nodes[n].edges[t] = m /\ n < m /\ t \in Token
           /\ path[m] = Append(path[n], t) /\ Len(path[m]) = Len(path[n]) + 1
<1>1. \E n \in NodeIds : \E t \in Edges(n) : nodes[n].edges[t] = m
  BY DEF IsTrie
<1> QED BY <1>1, ChildIs

LEMMA PrefixTyped ==
  ASSUME Typed, NEW id \in DOMAIN patterns, NEW k \in Nat, k <= Len(patterns[id]),
         \A i \in 1..k : tokenOf[patterns[id][i]] # 0
  PROVE  /\ Prefix(id, k) \in Seq(Token) /\ Len(Prefix(id, k)) = k
         /\ \A i \in 1..k : Prefix(id, k)[i] = tokenOf[patterns[id][i]]
<1>1. \A i \in 1..k : tokenOf[patterns[id][i]] \in Token
  <2> SUFFICES ASSUME NEW i \in 1..k PROVE tokenOf[patterns[id][i]] \in Token
    OBVIOUS
  <2>1. i \in 1..Len(patterns[id])
    BY PatternsTyped
  <2>2. patterns[id][i] \in Letters
    BY <2>1, PatternsTyped
  <2>3. tokenOf[patterns[id][i]] \in Nat
    BY <2>2 DEF Typed
  <2> QED BY <2>3 DEF Token
<1>2. Prefix(id, k) \in [1..k -> Token]
  BY <1>1 DEF Prefix
<1> QED BY <1>2 DEF Prefix

-----------------------------------------------------------------------------
\* patternToken: letters that have a token keep it, the next one names an orbit.
LEMMA InsertTokens ==
  ASSUME Typed, InsertUnit
  PROVE  LET r == Pattern[at + 1] IN
         /\ r \in Letters /\ at + 1 \in 1..Len(Pattern)
         /\ tokenOf' \in [Letters -> Nat] /\ nextToken' \in Token
         /\ nextToken <= nextToken'
         /\ \A x \in Letters : tokenOf'[x] < nextToken'
         /\ \A x \in Letters : tokenOf[x] # 0 => tokenOf'[x] = tokenOf[x]
         /\ TokensAreOrbits'
         /\ tokenOf'[r] \in Token
         /\ tokenOf'[r] = IF tokenOf[r] # 0 THEN tokenOf[r] ELSE nextToken
<1> DEFINE r == Pattern[at + 1]
<1>1. /\ tokenOf \in [Letters -> Nat] /\ nextToken \in Token
      /\ \A x \in Letters : tokenOf[x] < nextToken
      /\ TokensAreOrbits
      /\ at \in Nat
  BY DEF Typed
<1>2. patternID \in DOMAIN patterns /\ at < Len(Pattern) /\ exact' = exact
  BY DEF InsertUnit, args
<1>3. r \in Letters /\ at + 1 \in 1..Len(Pattern)
  BY <1>1, <1>2, PatternsTyped DEF Pattern
<1>4. \A x \in Letters : Members(x)' = Members(x)
  BY <1>2 DEF Members
<1>5. CASE tokenOf[r] # 0
  <2>1. tokenOf' = tokenOf /\ nextToken' = nextToken
    BY <1>5 DEF InsertUnit
  <2>2. TokensAreOrbits'
    BY <1>1, <1>4, <2>1 DEF TokensAreOrbits
  <2>3. tokenOf[r] \in Token
    BY <1>1, <1>3, <1>5 DEF Token
  <2> QED BY <1>1, <1>3, <1>5, <2>1, <2>2, <2>3 DEF Token
<1>6. CASE tokenOf[r] = 0
  <2>1. /\ nextToken' = nextToken + 1
        /\ tokenOf' = [x \in Letters |-> IF x \in Members(r) THEN nextToken ELSE tokenOf[x]]
    BY <1>6 DEF InsertUnit
  <2>2. /\ r \in Members(r) /\ Members(r) \subseteq Letters
        /\ \A x \in Letters : x \in Members(x) /\ Members(x) \subseteq Letters
        /\ \A x, y \in Letters : y \in Members(x) => Members(y) = Members(x)
    BY <1>3, MembersAreClasses
  <2>3. \A x \in Members(r) : tokenOf[x] = 0
    <3> SUFFICES ASSUME NEW x \in Members(r), tokenOf[x] # 0 PROVE FALSE
      OBVIOUS
    <3>1. x \in Letters /\ Members(x) = Members(r)
      BY <1>3, <2>2
    <3>2. tokenOf[r] = tokenOf[x]
      BY <1>1, <1>3, <2>2, <3>1 DEF TokensAreOrbits
    <3> QED BY <1>6, <3>2
  <2> HIDE DEF r
  <2>4. \A x \in Letters : tokenOf'[x] = IF x \in Members(r) THEN nextToken ELSE tokenOf[x]
    BY <2>1
  <2>5. tokenOf' \in [Letters -> Nat]
    BY <1>1, <2>1 DEF Token
  <2>6. \A x \in Letters : tokenOf[x] # 0 => tokenOf'[x] = tokenOf[x]
    BY <2>3, <2>4
  <2>7. nextToken' \in Token /\ nextToken <= nextToken' /\ nextToken < nextToken'
    BY <1>1, <2>1 DEF Token
  <2>8. \A x \in Letters : tokenOf'[x] < nextToken'
    BY <1>1, <2>1, <2>4 DEF Token
  <2>9. TokensAreOrbits'
    <3> SUFFICES ASSUME NEW x \in Letters, NEW y \in Letters, tokenOf'[x] # 0
                 PROVE  tokenOf'[y] = tokenOf'[x] <=> y \in Members(x)
      BY <1>4 DEF TokensAreOrbits
    <3>1. tokenOf[x] # nextToken /\ tokenOf[y] # nextToken
      BY <1>1 DEF Token
    <3>2. CASE x \in Members(r)
      <4>1. Members(x) = Members(r) /\ tokenOf'[x] = nextToken
        BY <1>3, <2>2, <2>4, <3>2 DEF r
      <4> QED BY <2>4, <3>1, <4>1
    <3>3. CASE x \notin Members(r)
      <4>1. tokenOf'[x] = tokenOf[x] /\ tokenOf[x] # 0
        BY <2>4, <3>3
      <4>2. y \in Members(x) => y \notin Members(r)
        BY <1>3, <2>2, <3>3 DEF r
      <4>3. tokenOf[y] = tokenOf[x] <=> y \in Members(x)
        BY <1>1, <4>1 DEF TokensAreOrbits
      <4>4. CASE y \in Members(r)
        BY <2>4, <3>1, <4>1, <4>2, <4>4
      <4>5. CASE y \notin Members(r)
        BY <2>4, <4>1, <4>3, <4>5
      <4> QED BY <4>4, <4>5
    <3> QED BY <3>2, <3>3
  <2>10. tokenOf'[r] = nextToken
    BY <1>3, <2>2, <2>4 DEF r
  <2> QED BY <1>1, <1>3, <1>6, <2>5, <2>6, <2>7, <2>8, <2>9, <2>10 DEF r
<1> QED BY <1>5, <1>6

\* The edge that is followed, or made.
LEMMA InsertEdge ==
  ASSUME Typed, InsertUnit
  PROVE  LET tok == tokenOf'[Pattern[at + 1]] IN
         \/ /\ tok \in Edges(state) /\ state' = nodes[state].edges[tok]
            /\ nodes' = nodes
         \/ /\ tok \notin Edges(state) /\ state' = Size
            /\ nodes' = With([nodes EXCEPT ![state].edges = With(@, tok, Size)],
                             Size, NewNode)
<1> DEFINE r == Pattern[at + 1]
           tok == IF tokenOf[r] # 0 THEN tokenOf[r] ELSE nextToken
<1>1. tokenOf'[r] = tok
  BY InsertTokens
<1>2. \/ /\ tok \in Edges(state) /\ state' = nodes[state].edges[tok]
         /\ nodes' = nodes
      \/ /\ tok \notin Edges(state) /\ state' = Cardinality(NodeIds)
         /\ nodes' = With([nodes EXCEPT ![state].edges = With(@, tok, state')],
                          state', NewNode)
  BY DEF InsertUnit
<1> QED BY <1>1, <1>2 DEF Size

\* The trie with a new child c of p.
Grown(p, tok, c) == With([nodes EXCEPT ![p].edges = With(@, tok, c)], c, NewNode)

\* A new node is the last, and the only one with its path.
LEMMA TrieGrows ==
  ASSUME NEW path, IsTrie(path), NEW p \in NodeIds,
         NEW tok \in Token, tok \notin Edges(p), tok < nextToken',
         nextToken \in Nat, nextToken' \in Nat, nextToken <= nextToken',
         NEW c, c = Size,
         nodes' = Grown(p, tok, c),
         NEW q, q = With(path, c, Append(path[p], tok))
  PROVE  /\ IsTrie(q)'
         /\ c \notin NodeIds /\ NodeIds' = NodeIds \cup {c}
         /\ \A n \in NodeIds : /\ q[n] = path[n]
                               /\ nodes'[n].output = nodes[n].output
                               /\ nodes'[n].failure = nodes[n].failure
         /\ q[c] = Append(path[p], tok) /\ nodes'[c] = NewNode
<1>1. /\ c \in Nat \ {0} /\ NodeIds = 0..(c - 1) /\ nodes \in [NodeIds -> Node]
      /\ path \in [NodeIds -> Seq(Token)] /\ path[0] = <<>>
  BY DEF IsTrie, Token
<1>2. c \notin NodeIds /\ NodeIds \cup {c} = 0..c
  BY <1>1
<1> DEFINE old == [nodes EXCEPT ![p].edges = With(@, tok, c)]
<1>3. /\ DOMAIN old = NodeIds
      /\ \A n \in NodeIds : n # p => old[n] = nodes[n]
      /\ old[p] = [nodes[p] EXCEPT !.edges = With(nodes[p].edges, tok, c)]
  BY <1>1
<1>4. /\ old[p].edges = With(nodes[p].edges, tok, c)
      /\ old[p].output = nodes[p].output /\ old[p].failure = nodes[p].failure
      /\ old[p] \in Node
  <2>1. nodes[p] \in Node /\ nodes[p].edges \in EdgeMap
    BY NodeTyped
  <2>2. With(nodes[p].edges, tok, c) \in EdgeMap
    BY <1>1, <2>1, EdgeMapWith
  <2> QED BY <1>3, <2>1, <2>2 DEF Node
<1> HIDE DEF old
<1>5. /\ NodeIds' = NodeIds \cup {c}
      /\ nodes'[c] = NewNode
      /\ \A n \in NodeIds : nodes'[n] = old[n]
  <2>1. nodes' = With(old, c, NewNode)
    BY DEF old, Grown
  <2>2. NodeIds' = DOMAIN With(old, c, NewNode)
    BY <2>1 DEF NodeIds
  <2>3. NodeIds' = DOMAIN old \cup {c}
    BY <2>2 DEF With
  <2>4. \A n \in DOMAIN old \cup {c} : nodes'[n] = IF n = c THEN NewNode ELSE old[n]
    BY <2>1 DEF With
  <2> QED BY <1>2, <1>3, <2>3, <2>4
<1>6. NewNode \in Node
  <2>1. <<>> \in EdgeMap
    <3>1. <<>> \in [{} -> Nat] /\ {} \in SUBSET Token
      OBVIOUS
    <3> QED BY <3>1 DEF EdgeMap
  <2> QED BY <2>1 DEF NewNode, Node, Output, NoOutput
<1>7. nodes' \in [NodeIds' -> Node]
  <2>1. \A n \in NodeIds' : nodes'[n] \in Node
    BY <1>1, <1>3, <1>4, <1>5, <1>6
  <2>2. nodes' = [n \in NodeIds' |-> nodes'[n]]
    BY <1>5 DEF With, Grown, NodeIds
  <2> QED BY <2>1, <2>2
<1>8. Size' = c + 1 /\ NodeIds' = 0..c
  <2>1. NodeIds' = 0..c
    BY <1>2, <1>5
  <2>2. Cardinality(0..c) = c + 1
    <3>1. c \in Nat
      BY <1>1
    <3> QED BY <3>1, FS_Interval
  <2> QED BY <2>1, <2>2 DEF Size
<1>9. \A n \in NodeIds : q[n] = path[n]
  <2>1. DOMAIN path = NodeIds
    BY <1>1
  <2>2. \A n \in DOMAIN path \cup {c} : q[n] = IF n = c THEN Append(path[p], tok) ELSE path[n]
    BY DEF With
  <2> QED BY <1>2, <2>1, <2>2
<1>10. q[c] = Append(path[p], tok) /\ DOMAIN q = NodeIds'
  <2>1. DOMAIN path = NodeIds
    BY <1>1
  <2>2. /\ DOMAIN q = DOMAIN path \cup {c}
        /\ q[c] = Append(path[p], tok)
    BY DEF With
  <2> QED BY <1>5, <2>1, <2>2
<1>11. q[c] \in Seq(Token)
  BY <1>1, <1>10
<1>12. q \in [NodeIds' -> Seq(Token)] /\ q[0] = <<>>
  <2>1. \A n \in NodeIds' : q[n] \in Seq(Token)
    BY <1>1, <1>5, <1>9, <1>11
  <2>2. q = [n \in NodeIds' |-> q[n]]
    BY <1>10 DEF With
  <2>3. 0 \in NodeIds
    BY <1>1
  <2> QED BY <1>1, <1>9, <2>1, <2>2, <2>3
<1>13. \A n \in NodeIds : q[n] # q[c]
  <2> SUFFICES ASSUME NEW n \in NodeIds, path[n] = Append(path[p], tok) PROVE FALSE
    BY <1>9, <1>10
  <2> QED BY EdgeOfPath
<1>14. \A n, m \in NodeIds' : q[n] = q[m] => n = m
  <2>1. \A n, m \in NodeIds : path[n] = path[m] => n = m
    BY DEF IsTrie
  <2> QED BY <1>5, <1>9, <1>13, <2>1
<1>15. /\ \A n \in NodeIds : n # p => nodes'[n].edges = nodes[n].edges
       /\ nodes'[p].edges = With(nodes[p].edges, tok, c)
       /\ nodes'[c].edges = <<>>
  <2>1. nodes'[c].edges = <<>>
    BY <1>5 DEF NewNode
  <2>2. nodes'[p] = old[p]
    BY <1>5
  <2>3. nodes'[p].edges = With(nodes[p].edges, tok, c)
    BY <1>4, <2>2
  <2>4. ASSUME NEW n \in NodeIds, n # p PROVE nodes'[n].edges = nodes[n].edges
    BY <1>3, <1>5, <2>4
  <2> QED BY <2>1, <2>3, <2>4
<1>16. /\ \A n \in NodeIds : n # p => Edges(n)' = Edges(n)
       /\ Edges(p)' = Edges(p) \cup {tok}
       /\ Edges(c)' = {}
       /\ nodes'[p].edges[tok] = c
       /\ \A t \in Edges(p) : nodes'[p].edges[t] = nodes[p].edges[t]
  <2> DEFINE e == nodes[p].edges
  <2>1. nodes'[p].edges = With(e, tok, c)
    BY <1>15
  <2>2. tok \notin DOMAIN e
    BY DEF Edges
  <2>3. DOMAIN With(e, tok, c) = DOMAIN e \cup {tok} /\ With(e, tok, c)[tok] = c
        /\ \A t \in DOMAIN e : With(e, tok, c)[t] = e[t]
    BY <2>2 DEF With
  <2>4. /\ Edges(p)' = Edges(p) \cup {tok}
        /\ nodes'[p].edges[tok] = c
        /\ \A t \in Edges(p) : nodes'[p].edges[t] = nodes[p].edges[t]
    BY <2>1, <2>3 DEF Edges
  <2>5. \A n \in NodeIds : n # p => Edges(n)' = Edges(n)
    BY <1>15 DEF Edges
  <2>6. DOMAIN <<>> = {}
    OBVIOUS
  <2>7. Edges(c)' = {}
    BY <1>15, <2>6 DEF Edges
  <2> QED BY <2>4, <2>5, <2>7
<1>17. ASSUME NEW n \in NodeIds', NEW t \in Edges(n)'
       PROVE  \/ n \in NodeIds /\ t \in Edges(n) /\ nodes'[n].edges[t] = nodes[n].edges[t]
              \/ n = p /\ t = tok /\ nodes'[n].edges[t] = c
  BY <1>5, <1>15, <1>16
<1>18. ASSUME NEW n \in NodeIds', NEW t \in Edges(n)'
       PROVE  LET m == nodes'[n].edges[t] IN
              m \in NodeIds' /\ n < m /\ t < nextToken' /\ q[m] = Append(q[n], t)
  <2>1. CASE n \in NodeIds /\ t \in Edges(n) /\ nodes'[n].edges[t] = nodes[n].edges[t]
    <3>1. /\ nodes[n].edges[t] \in NodeIds /\ n < nodes[n].edges[t] /\ t < nextToken
          /\ path[nodes[n].edges[t]] = Append(path[n], t)
      BY <2>1, EdgeIs
    <3>2. t \in Nat
      BY <2>1, NodeTyped DEF Token
    <3>3. q[n] = path[n] /\ q[nodes[n].edges[t]] = path[nodes[n].edges[t]]
      BY <1>9, <2>1, <3>1
    <3>4. t < nextToken'
      BY <3>1, <3>2
    <3>5. nodes[n].edges[t] \in NodeIds'
      BY <1>5, <3>1
    <3> QED BY <2>1, <3>1, <3>3, <3>4, <3>5
  <2>2. CASE n = p /\ t = tok /\ nodes'[n].edges[t] = c
    <3>1. n < c /\ c \in NodeIds'
      BY <1>1, <1>5, <2>2
    <3> QED BY <1>9, <1>10, <2>2, <3>1
  <2> QED BY <1>17, <2>1, <2>2
<1>19. ASSUME NEW m \in NodeIds' \ {0}
       PROVE  \E n \in NodeIds' : \E t \in Edges(n)' : nodes'[n].edges[t] = m
  <2>1. CASE m \in NodeIds
    <3>1. PICK n \in NodeIds : \E t \in Edges(n) : nodes[n].edges[t] = m
      BY <2>1 DEF IsTrie
    <3>2. PICK t \in Edges(n) : nodes[n].edges[t] = m
      BY <3>1
    <3>3. t \in Edges(n)' /\ nodes'[n].edges[t] = m /\ n \in NodeIds'
      BY <1>5, <1>15, <1>16, <3>2
    <3> QED BY <3>3
  <2>2. CASE m = c
    BY <1>5, <1>16, <2>2
  <2> QED BY <1>5, <2>1, <2>2
<1>20. IsTrie(q)'
  <2>1. Size' \in Token /\ NodeIds' = 0..(Size' - 1)
    BY <1>1, <1>8 DEF Token
  <2> QED BY <1>7, <1>12, <1>14, <1>18, <1>19, <2>1 DEF IsTrie
<1>21. \A n \in NodeIds : /\ nodes'[n].output = nodes[n].output
                          /\ nodes'[n].failure = nodes[n].failure
  BY <1>3, <1>4, <1>5
<1> QED BY <1>2, <1>5, <1>9, <1>10, <1>20, <1>21

-----------------------------------------------------------------------------
LEMMA ReadTyped ==
  ASSUME Typed, NEW id \in DOMAIN patterns
  PROVE  Read(id) \in 0..Len(patterns[id])
<1>1. id \in Nat /\ Len(patterns[id]) \in Nat
  BY PatternsTyped
<1>2. at \in Nat /\ patternID \in Nat /\ (patternID \in DOMAIN patterns => at <= Len(patterns[patternID]))
  BY DEF Typed
<1> QED BY <1>1, <1>2 DEF Read

\* What has been read keeps its tokens.
LEMMA PrefixKept ==
  ASSUME Typed, NEW path, HoldsPrefixes(path), UNCHANGED patterns,
         \A x \in Letters : tokenOf[x] # 0 => tokenOf'[x] = tokenOf[x],
         NEW id \in DOMAIN patterns, NEW k \in 0..Read(id)
  PROVE  Prefix(id, k)' = Prefix(id, k)
<1>1. ASSUME NEW i \in 1..k
      PROVE  tokenOf'[patterns[id][i]] = tokenOf[patterns[id][i]]
  <2>1. i \in 1..Read(id) /\ i \in 1..Len(patterns[id])
    BY ReadTyped, PatternsTyped
  <2>2. tokenOf[patterns[id][i]] # 0
    BY <2>1 DEF HoldsPrefixes
  <2>3. patterns[id][i] \in Letters
    BY <2>1, PatternsTyped
  <2> QED BY <2>2, <2>3
<1> QED BY <1>1 DEF Prefix

LEMMA PrefixNext ==
  ASSUME Typed, NEW path, HoldsPrefixes(path), InsertUnit,
         NEW id, id = patternID, NEW k, k = at
  PROVE  /\ Prefix(id, k + 1)' = Append(Prefix(id, k), tokenOf'[patterns[id][k + 1]])
         /\ k + 1 \in 1..Len(patterns[id]) /\ id \in DOMAIN patterns /\ Read(id) = k
         /\ patterns[id][k + 1] \in Letters /\ tokenOf'[patterns[id][k + 1]] \in Token
<1>1. /\ id \in DOMAIN patterns /\ k < Len(patterns[id]) /\ k \in Nat /\ id \in Nat
      /\ patterns' = patterns /\ patterns[id] = Pattern
  BY DEF InsertUnit, Pattern, args, Typed
<1>2. Read(id) = k
  BY <1>1 DEF Read
<1>3. patterns[id][k + 1] \in Letters /\ tokenOf'[patterns[id][k + 1]] \in Token
      /\ k + 1 \in 1..Len(patterns[id])
  BY <1>1, InsertTokens
<1>4. Prefix(id, k)' = Prefix(id, k)
  <2>1. \A x \in Letters : tokenOf[x] # 0 => tokenOf'[x] = tokenOf[x]
    BY InsertTokens
  <2> QED BY <1>1, <1>2, <2>1, PrefixKept
<1>5. Prefix(id, k)' = [i \in 1..k |-> tokenOf'[patterns[id][i]]]
  BY <1>1 DEF Prefix
<1>6. Prefix(id, k + 1)' = [i \in 1..(k + 1) |-> tokenOf'[patterns[id][i]]]
  BY <1>1 DEF Prefix
<1>7. [i \in 1..(k + 1) |-> tokenOf'[patterns[id][i]]]
        = Append([i \in 1..k |-> tokenOf'[patterns[id][i]]], tokenOf'[patterns[id][k + 1]])
  BY <1>1
<1> QED BY <1>1, <1>2, <1>3, <1>4, <1>5, <1>6, <1>7

\* The trie after a unit: the same, or with one node more; state has moved on.
LEMMA InsertTrie ==
  ASSUME Typed, NEW path, IsTrie(path), HoldsPrefixes(path), InsertUnit
  PROVE  \E q, c :
           /\ IsTrie(q)' /\ c = state' /\ NodeIds' = NodeIds \cup {c}
           /\ q[c] = Append(path[state], tokenOf'[Pattern[at + 1]])
           /\ \A n \in NodeIds : /\ q[n] = path[n]
                                 /\ nodes'[n].output = nodes[n].output
                                 /\ nodes'[n].failure = nodes[n].failure
           /\ c \notin NodeIds => nodes'[c] = NewNode
<1>1. PICK tok : tok = tokenOf'[Pattern[at + 1]]
  OBVIOUS
<1>2. /\ tok \in Token /\ tok < nextToken' /\ nextToken <= nextToken'
      /\ nextToken \in Nat /\ nextToken' \in Nat
  BY <1>1, InsertTokens DEF Typed, Token
<1>3. PICK p : p = state
  OBVIOUS
<1>4. p \in NodeIds
  BY <1>3 DEF HoldsPrefixes
<1>5. CASE tok \in Edges(p) /\ state' = nodes[p].edges[tok] /\ nodes' = nodes
  <2>1. PICK c : c = nodes[p].edges[tok]
    OBVIOUS
  <2>2. c \in NodeIds /\ path[c] = Append(path[p], tok)
    BY <1>4, <1>5, <2>1, EdgeIs
  <2>3. NodeIds' = NodeIds /\ (\A n : Edges(n)' = Edges(n)) /\ Size' = Size
    BY <1>5 DEF NodeIds, Edges, Size
  <2>4. IsTrie(path)'
    <3>1. \A n \in NodeIds : \A t \in Edges(n) : t < nextToken'
      <4> SUFFICES ASSUME NEW n \in NodeIds, NEW t \in Edges(n) PROVE t < nextToken'
        OBVIOUS
      <4>1. t < nextToken /\ t \in Nat
        BY EdgeIs, NodeTyped DEF Token
      <4> QED BY <1>2, <4>1
    <3> QED BY <1>5, <2>3, <3>1 DEF IsTrie
  <2>5. NodeIds' = NodeIds \cup {c}
    BY <2>2, <2>3
  <2> QED BY <1>1, <1>3, <1>5, <2>1, <2>2, <2>4, <2>5
<1>6. CASE /\ tok \notin Edges(p) /\ state' = Size
           /\ nodes' = With([nodes EXCEPT ![p].edges = With(@, tok, Size)], Size, NewNode)
  <2>1. PICK c : c = Size
    OBVIOUS
  <2>2. PICK q : q = With(path, c, Append(path[p], tok))
    OBVIOUS
  <2>3. nodes' = Grown(p, tok, c)
    BY <1>6, <2>1 DEF Grown
  <2>4. /\ IsTrie(q)'
        /\ c \notin NodeIds /\ NodeIds' = NodeIds \cup {c}
        /\ \A n \in NodeIds : /\ q[n] = path[n]
                              /\ nodes'[n].output = nodes[n].output
                              /\ nodes'[n].failure = nodes[n].failure
        /\ q[c] = Append(path[p], tok) /\ nodes'[c] = NewNode
    <3>1. tok \notin Edges(p)
      BY <1>6
    <3> QED BY <1>2, <1>4, <2>1, <2>2, <2>3, <3>1, TrieGrows
  <2> QED BY <1>1, <1>3, <1>6, <2>1, <2>4
<1>7. \/ tok \in Edges(p) /\ state' = nodes[p].edges[tok] /\ nodes' = nodes
      \/ /\ tok \notin Edges(p) /\ state' = Size
         /\ nodes' = With([nodes EXCEPT ![p].edges = With(@, tok, Size)], Size, NewNode)
  BY <1>1, <1>3, InsertEdge
<1> QED BY <1>5, <1>6, <1>7

LEMMA InsertUnitTyped ==
  ASSUME Typed, InsertUnit
  PROVE  Typed'
<1>1. /\ patterns' = patterns /\ exact' = exact /\ phase' = phase /\ patternID' = patternID
      /\ phase = "insert" /\ patternID \in DOMAIN patterns /\ at' = at + 1
      /\ maxUnits' = maxUnits /\ maxBytes' = maxBytes
      /\ at < Len(Pattern) /\ bytes' = bytes + UnitBytes(Pattern[at + 1])
  BY DEF InsertUnit, args
<1>2. Pattern = patterns[patternID] /\ Len(Pattern) \in Nat /\ at \in Nat /\ bytes \in Nat
  BY <1>1, PatternsTyped DEF Pattern, Typed
<1>3. at' \in Nat /\ at' <= Len(patterns[patternID])
  BY <1>1, <1>2
<1>4. bytes' \in Nat
  <2>1. at + 1 \in 1..Len(Pattern) /\ Pattern[at + 1] \in Letters
    BY InsertTokens
  <2>2. exact => Width[Pattern[at + 1]] = 1
    BY <1>1, <1>2, <2>1, PatternsTyped DEF Typed
  <2>3. exact \in BOOLEAN
    BY DEF Typed
  <2>4. UnitBytes(Pattern[at + 1]) \in Nat
    BY <2>1, <2>2, <2>3, UnitBytesBound
  <2> QED BY <1>1, <1>2, <2>4
<1>5. /\ tokenOf' \in [Letters -> Nat] /\ nextToken' \in Token
      /\ \A x \in Letters : tokenOf'[x] < nextToken'
      /\ TokensAreOrbits'
  BY InsertTokens
<1> QED BY <1>1, <1>3, <1>4, <1>5 DEF Typed

\* A text of a pattern's first letters is no wider than what was added up.
LEMMA BoundsNext ==
  ASSUME Typed, NEW id \in DOMAIN patterns, NEW k \in Nat, k + 1 \in 1..Len(patterns[id]),
         NEW most \in Nat, Bounds(id, k, most)
  PROVE  Bounds(id, k + 1, most + UnitBytes(patterns[id][k + 1]))
<1> DEFINE r == patterns[id][k + 1]
<1>1. r \in Letters /\ exact \in BOOLEAN /\ (exact => Width[r] = 1)
  BY PatternsTyped DEF Typed
<1>2. UnitBytes(r) \in Nat /\ \A x \in Members(r) : Width[x] <= UnitBytes(r)
  BY <1>1, UnitBytesBound
<1> HIDE DEF r
<1> SUFFICES ASSUME NEW text \in [1..(k + 1) -> Letters],
                    \A i \in 1..(k + 1) : text[i] \in Members(patterns[id][i])
             PROVE  Spelled(text) <= most + UnitBytes(r)
  BY DEF Bounds, r
<1> DEFINE short == [i \in 1..k |-> text[i]]
<1>3. /\ short \in [1..k -> Letters] /\ Spelled(short) \in Nat
      /\ Spelled(text) = Spelled(short) + Width[text[k + 1]]
  BY SpelledStep
<1>4. \A i \in 1..k : short[i] \in Members(patterns[id][i])
  OBVIOUS
<1> HIDE DEF short
<1>5. Spelled(short) <= most
  BY <1>3, <1>4 DEF Bounds
<1>6. text[k + 1] \in Members(r) /\ text[k + 1] \in Letters
  BY DEF r
<1>7. Width[text[k + 1]] <= UnitBytes(r) /\ Width[text[k + 1]] \in Nat
  BY <1>2, <1>6, BuildAssumption
<1> QED BY <1>2, <1>3, <1>5, <1>7

LEMMA InsertUnitLimits ==
  ASSUME Typed, Limits, InsertUnit
  PROVE  Limits'
<1>1. /\ patterns' = patterns /\ exact' = exact /\ patternID' = patternID
      /\ maxUnits' = maxUnits /\ maxBytes' = maxBytes /\ empty' = empty
      /\ patternID \in DOMAIN patterns /\ at \in Nat /\ bytes \in Nat
      /\ at' = at + 1 /\ bytes' = bytes + UnitBytes(patterns[patternID][at + 1])
  BY DEF InsertUnit, args, Pattern, Typed
<1>2. \A id, k, most : Bounds(id, k, most)' = Bounds(id, k, most)
  BY <1>1 DEF Bounds, Members
<1>3. \A id : Done(id)' = Done(id)
  BY <1>1 DEF Done
<1>4. at + 1 \in 1..Len(patterns[patternID])
  BY InsertTokens DEF Pattern
<1>5. Bounds(patternID, at + 1, bytes + UnitBytes(patterns[patternID][at + 1]))
  BY <1>1, <1>4, BoundsNext DEF Limits
<1>6. Bounds(patternID, at, bytes)'
  BY <1>1, <1>5 DEF Bounds, Members
<1>7. \A id : Bounds(id, Len(patterns[id]), maxBytes)' = Bounds(id, Len(patterns[id]), maxBytes)
  BY <1>1 DEF Bounds, Members
<1> QED BY <1>1, <1>3, <1>6, <1>7 DEF Limits, Done

LEMMA InsertUnitPrefixes ==
  ASSUME Typed, NEW path, IsTrie(path), HoldsPrefixes(path), InsertUnit,
         NEW q, NEW c, c = state', NodeIds' = NodeIds \cup {c},
         q[c] = Append(path[state], tokenOf'[Pattern[at + 1]]),
         \A n \in NodeIds : q[n] = path[n]
  PROVE  HoldsPrefixes(q)'
<1>1. PICK id, k : id = patternID /\ k = at
  OBVIOUS
<1>2. /\ Prefix(id, k + 1)' = Append(Prefix(id, k), tokenOf'[patterns[id][k + 1]])
      /\ k + 1 \in 1..Len(patterns[id]) /\ id \in DOMAIN patterns /\ Read(id) = k
      /\ tokenOf'[patterns[id][k + 1]] \in Token
  BY <1>1, PrefixNext
<1>3. /\ patterns' = patterns /\ patternID' = id /\ at' = k + 1 /\ k \in Nat /\ id \in Nat
      /\ Pattern = patterns[id]
  BY <1>1 DEF InsertUnit, args, Typed, Pattern
<1>4. q[c] = Prefix(id, k + 1)'
  BY <1>1, <1>2, <1>3 DEF HoldsPrefixes
<1>5. \A j \in DOMAIN patterns : Read(j) \in Nat
  BY ReadTyped, PatternsTyped
<1>6. \A j \in DOMAIN patterns : Read(j)' = IF j = id THEN k + 1 ELSE Read(j)
  BY <1>1, <1>3 DEF Read
<1>7. \A x \in Letters : tokenOf[x] # 0 => tokenOf'[x] = tokenOf[x]
  BY InsertTokens
<1>8. ASSUME NEW j \in DOMAIN patterns, NEW i \in 1..Read(j)
      PROVE  /\ tokenOf'[patterns[j][i]] # 0 /\ Prefix(j, i)' = Prefix(j, i)
             /\ \E n \in NodeIds : q[n] = Prefix(j, i)'
  <2>1. tokenOf[patterns[j][i]] # 0 /\ \E n \in NodeIds : path[n] = Prefix(j, i)
    BY DEF HoldsPrefixes
  <2>2. Prefix(j, i)' = Prefix(j, i)
    BY <1>3, <1>5, <1>7, PrefixKept
  <2>3. patterns[j][i] \in Letters
    BY ReadTyped, PatternsTyped
  <2> QED BY <1>7, <2>1, <2>2, <2>3
<1>9. ASSUME NEW j \in DOMAIN patterns, NEW i \in 1..Read(j)'
      PROVE  tokenOf'[patterns[j][i]] # 0 /\ \E n \in NodeIds' : q[n] = Prefix(j, i)'
  <2>1. CASE i \in 1..Read(j)
    BY <1>8, <2>1
  <2>2. CASE i \notin 1..Read(j)
    <3>1. j = id /\ i = k + 1
      BY <1>2, <1>3, <1>5, <1>6, <2>2
    <3>2. tokenOf'[patterns[j][i]] # 0
      BY <1>2, <3>1 DEF Token
    <3> QED BY <1>4, <3>1, <3>2
  <2> QED BY <2>1, <2>2
<1>10. ASSUME NEW n \in NodeIds' \ {0}
       PROVE  \E j \in DOMAIN patterns : \E i \in 1..Read(j)' : q[n] = Prefix(j, i)'
  <2>1. CASE n \in NodeIds
    <3>1. PICK j \in DOMAIN patterns : \E i \in 1..Read(j) : path[n] = Prefix(j, i)
      BY <2>1 DEF HoldsPrefixes
    <3>2. PICK i \in 1..Read(j) : path[n] = Prefix(j, i)
      BY <3>1
    <3>3. i \in 1..Read(j)'
      BY <1>2, <1>3, <1>5, <1>6
    <3>4. Prefix(j, i)' = Prefix(j, i)
      BY <1>8
    <3> QED BY <2>1, <3>2, <3>3, <3>4
  <2>2. CASE n = c
    <3>1. k + 1 \in 1..Read(id)'
      BY <1>2, <1>3, <1>6
    <3> QED BY <1>2, <1>4, <2>2, <3>1
  <2> QED BY <2>1, <2>2
<1>11. q[state'] = Prefix(id, k + 1)' /\ state' \in NodeIds'
  BY <1>4
<1>12. Prefix(patternID, at)' = Prefix(id, k + 1)'
  BY <1>3 DEF Prefix
<1> QED BY <1>2, <1>3, <1>9, <1>10, <1>11, <1>12 DEF HoldsPrefixes

LEMMA InsertUnitFresh ==
  ASSUME Typed, NEW path, IsTrie(path), HoldsPrefixes(path), Fresh(path), InsertUnit,
         NEW q, NEW c, c = state', NodeIds' = NodeIds \cup {c}, IsTrie(q)',
         \A n \in NodeIds : /\ q[n] = path[n]
                            /\ nodes'[n].output = nodes[n].output
                            /\ nodes'[n].failure = nodes[n].failure,
         c \notin NodeIds => nodes'[c] = NewNode
  PROVE  Fresh(q)'
<1>1. patterns' = patterns /\ patternID' = patternID
  BY DEF InsertUnit, args
<1>2. \A id : Done(id)' = Done(id)
  BY <1>1 DEF Done
<1>3. ASSUME NEW id \in DOMAIN patterns, Done(id), patterns[id] # <<>>
      PROVE  /\ Prefix(id, Len(patterns[id]))' = Prefix(id, Len(patterns[id]))
             /\ \E n \in NodeIds : path[n] = Prefix(id, Len(patterns[id]))
  <2>1. Read(id) = Len(patterns[id]) /\ Len(patterns[id]) \in Nat /\ Len(patterns[id]) # 0
    BY <1>3, PatternsTyped DEF Done, Read
  <2>2. \A x \in Letters : tokenOf[x] # 0 => tokenOf'[x] = tokenOf[x]
    BY InsertTokens
  <2>3. PICK k : k = Read(id)
    OBVIOUS
  <2>4. Prefix(id, k)' = Prefix(id, k)
    BY <1>1, <2>1, <2>2, <2>3, PrefixKept
  <2>5. Prefix(id, Len(patterns[id]))' = Prefix(id, k)'
    BY <1>1, <2>1, <2>3 DEF Prefix
  <2>6. k \in 1..Read(id)
    BY <2>1, <2>3
  <2>7. \E n \in NodeIds : path[n] = Prefix(id, k)
    BY <2>6 DEF HoldsPrefixes
  <2> QED BY <2>1, <2>3, <2>4, <2>5, <2>7
<1>4. ASSUME NEW id \in DOMAIN patterns, NEW n \in NodeIds
      PROVE  Leads(q, id, n)' = Leads(path, id, n)
  BY <1>1, <1>2, <1>3 DEF Leads
<1>5. ASSUME NEW n \in NodeIds
      PROVE  nodes'[n].failure = 0 /\ IsOwn(q, n, nodes[n].output)'
  <2>1. nodes[n].failure = 0 /\ IsOwn(path, n, nodes[n].output)
    BY DEF Fresh
  <2> QED BY <1>1, <1>4, <2>1 DEF IsOwn
<1>6. ASSUME c \notin NodeIds
      PROVE  nodes'[c].failure = 0 /\ IsOwn(q, c, nodes[c].output)'
  <2>1. nodes'[c].failure = 0 /\ nodes'[c].output = NoOutput
    BY <1>6 DEF NewNode
  <2>2. ASSUME NEW id \in DOMAIN patterns, Leads(q, id, c)' PROVE FALSE
    <3>1. Done(id) /\ patterns[id] # <<>> /\ q[c] = Prefix(id, Len(patterns[id]))'
      BY <1>1, <1>2, <2>2 DEF Leads
    <3>2. PICK n \in NodeIds : q[n] = q[c]
      BY <1>3, <3>1
    <3>3. n = c
      BY <3>2 DEF IsTrie
    <3> QED BY <1>6, <3>3
  <2> QED BY <1>1, <2>1, <2>2 DEF IsOwn
<1>7. UNCHANGED <<queue, head, todo, dense>>
  BY DEF InsertUnit, linking
<1> QED BY <1>5, <1>6, <1>7 DEF Fresh

LEMMA InsertUnitKeeps ==
  ASSUME IInv, InsertUnit
  PROVE  IInv'
<1>1. Typed /\ Limits
  BY DEF IInv
<1>2. PICK path : Holds(path)
  BY DEF IInv
<1>3. phase = "insert" /\ phase' = "insert"
  BY DEF InsertUnit
<1>4. IsTrie(path) /\ HoldsPrefixes(path) /\ Fresh(path)
  BY <1>2, <1>3 DEF Holds
<1>5. PICK q, c :
         /\ IsTrie(q)' /\ c = state' /\ NodeIds' = NodeIds \cup {c}
         /\ q[c] = Append(path[state], tokenOf'[Pattern[at + 1]])
         /\ \A n \in NodeIds : /\ q[n] = path[n]
                               /\ nodes'[n].output = nodes[n].output
                               /\ nodes'[n].failure = nodes[n].failure
         /\ c \notin NodeIds => nodes'[c] = NewNode
  BY <1>1, <1>4, InsertTrie
<1>6. HoldsPrefixes(q)'
  BY <1>1, <1>4, <1>5, InsertUnitPrefixes
<1>7. Fresh(q)'
  BY <1>1, <1>4, <1>5, InsertUnitFresh
<1>8. Holds(q)'
  BY <1>3, <1>5, <1>6, <1>7 DEF Holds, Searching
<1>9. Typed' /\ Limits'
  BY <1>1, InsertUnitTyped, InsertUnitLimits
<1> QED BY <1>8, <1>9 DEF IInv

-----------------------------------------------------------------------------
\* From one pattern to the next: what both kinds of patterns have in common.
LEMMA NextPatternTyped ==
  ASSUME Typed, phase = "insert", phase' = phase, patternID \in DOMAIN patterns,
         UNCHANGED <<patterns, exact, tokenOf, nextToken>>, patternID' = patternID + 1, at' = 0,
         bytes' \in Nat, maxUnits' \in Nat, maxBytes' \in Nat
  PROVE  Typed'
<1>1. patternID' \in Nat /\ 0..(patternID' - 1) \subseteq DOMAIN patterns
  <2>1. patternID \in Nat /\ 0..(patternID - 1) \subseteq DOMAIN patterns
    BY DEF Typed
  <2> QED BY <2>1
<1>2. TokensAreOrbits'
  <2>1. \A x : Members(x)' = Members(x)
    BY DEF Members
  <2> QED BY <2>1 DEF Typed, TokensAreOrbits
<1>3. patternID' \in DOMAIN patterns => at' <= Len(patterns[patternID'])
  BY PatternsTyped
<1> QED BY <1>1, <1>2, <1>3 DEF Typed

LEMMA NextPatternPrefixes ==
  ASSUME Typed, NEW path, IsTrie(path), HoldsPrefixes(path),
         UNCHANGED <<patterns, tokenOf>>, NodeIds' = NodeIds,
         patternID \in DOMAIN patterns, at = Len(patterns[patternID]),
         patternID' = patternID + 1, at' = 0, state' = 0
  PROVE  HoldsPrefixes(path)'
<1>1. \A id, k : Prefix(id, k)' = Prefix(id, k)
  BY DEF Prefix
<1>2. patternID \in Nat
  BY DEF Typed
<1>3. \A id \in DOMAIN patterns : Read(id)' = Read(id)
  <2> SUFFICES ASSUME NEW id \in DOMAIN patterns PROVE Read(id)' = Read(id)
    OBVIOUS
  <2>1. id \in Nat
    BY PatternsTyped
  <2> QED BY <1>2, <2>1 DEF Read
<1>4. 0 \in NodeIds /\ path[0] = <<>>
  <2>1. path[0] = <<>>
    BY DEF IsTrie
  <2>2. 0 \in NodeIds
    BY DEF IsTrie, Token
  <2> QED BY <2>1, <2>2
<1>5. Prefix(patternID, at)' = <<>>
  BY DEF Prefix
<1> QED BY <1>1, <1>3, <1>4, <1>5 DEF HoldsPrefixes

LEMMA BoundsNothing ==
  ASSUME NEW id, NEW most \in Nat
  PROVE  Bounds(id, 0, most)
<1> SUFFICES ASSUME NEW text \in [1..0 -> Letters] PROVE Spelled(text) <= most
  BY DEF Bounds
<1>1. Spelled(text) = 0
  BY SpelledEmpty
<1> QED BY <1>1

LEMMA InsertEmptyKeeps ==
  ASSUME IInv, InsertEmpty
  PROVE  IInv'
<1>1. Typed /\ Limits
  BY DEF IInv
<1>2. PICK path : Holds(path)
  BY DEF IInv
<1>3. /\ phase = "insert" /\ phase' = "insert" /\ patternID \in DOMAIN patterns
      /\ patterns[patternID] = <<>> /\ patternID' = patternID + 1
      /\ empty' = IF empty < 0 \/ patternID < empty THEN patternID ELSE empty
      /\ UNCHANGED <<patterns, exact, tokenOf, nextToken, maxUnits, maxBytes, nodes, dense,
                     at, state, bytes, queue, head, todo, token, failure>>
  BY DEF InsertEmpty, args, linking, Pattern
<1>4. IsTrie(path) /\ HoldsPrefixes(path) /\ Fresh(path)
  BY <1>2, <1>3 DEF Holds
<1>5. at = 0 /\ Len(patterns[patternID]) = 0 /\ patternID \in Nat
  BY <1>1, <1>3 DEF Typed
<1>6. state = 0
  <2>1. path[state] = <<>> /\ state \in NodeIds
    BY <1>3, <1>4, <1>5 DEF HoldsPrefixes, Prefix
  <2>2. path[0] = <<>> /\ 0 \in NodeIds
    BY <1>4, NodeTyped, <2>1 DEF IsTrie
  <2> QED BY <1>4, <2>1, <2>2 DEF IsTrie
<1>7. Typed'
  BY <1>1, <1>3, <1>5, NextPatternTyped DEF Typed
<1>8. IsTrie(path)' /\ NodeIds' = NodeIds
  BY <1>3, <1>4 DEF IsTrie, NodeIds, Edges, Size
<1>9. HoldsPrefixes(path)'
  BY <1>1, <1>3, <1>4, <1>5, <1>6, <1>8, NextPatternPrefixes
<1>10. \A id \in DOMAIN patterns : Done(id)' <=> Done(id) \/ id = patternID
  <2> SUFFICES ASSUME NEW id \in DOMAIN patterns PROVE Done(id)' <=> Done(id) \/ id = patternID
    OBVIOUS
  <2>1. id \in Nat
    BY <1>1, PatternsTyped
  <2> QED BY <1>3, <1>5, <2>1 DEF Done
<1>11. Limits'
  <2>1. maxUnits \in Nat /\ maxBytes \in Nat /\ bytes \in Nat
    BY <1>1 DEF Typed
  <2>2. \A id, k : Bounds(id, k, maxBytes)' = Bounds(id, k, maxBytes)
    BY <1>3 DEF Bounds, Members
  <2>3. \A id \in DOMAIN patterns : Done(id)' =>
           Len(patterns[id]) <= maxUnits /\ Bounds(id, Len(patterns[id]), maxBytes)
    BY <1>1, <1>5, <1>10, <2>1, BoundsNothing DEF Limits
  <2>4. \A id : Bounds(id, Len(patterns[id]), maxBytes)' = Bounds(id, Len(patterns[id]), maxBytes)
    BY <1>3 DEF Bounds, Members
  <2>5. Bounds(patternID, at, bytes)'
    <3>1. PICK id : id = patternID'
      OBVIOUS
    <3>2. Bounds(id, 0, bytes)
      BY <2>1, BoundsNothing
    <3> QED BY <1>3, <1>5, <3>1, <3>2 DEF Bounds, Members
  <2>6. maxUnits = 0 \/ \E id \in DOMAIN patterns : Done(id)' /\ Len(patterns[id]) = maxUnits
    BY <1>1, <1>10 DEF Limits
  <2>7. /\ Done(empty)' /\ patterns[empty'] = <<>>
        /\ \A id \in DOMAIN patterns : Done(id)' /\ patterns[id] = <<>> => empty' <= id
    <3>1. CASE empty = -1 /\ \A id \in DOMAIN patterns : Done(id) => patterns[id] # <<>>
      <4>1. empty' = patternID
        BY <1>3, <3>1
      <4>2. Done(empty)'
        BY <1>3, <1>5, <4>1 DEF Done
      <4> QED BY <1>3, <1>5, <1>10, <3>1, <4>1, <4>2
    <3>2. CASE /\ Done(empty) /\ patterns[empty] = <<>>
               /\ \A id \in DOMAIN patterns : Done(id) /\ patterns[id] = <<>> => empty <= id
      <4>1. empty \in DOMAIN patterns /\ empty \in Nat /\ empty < patternID
        BY <1>1, <3>2, PatternsTyped DEF Done
      <4>2. empty' = empty
        BY <1>3, <1>5, <4>1
      <4>3. Done(empty)'
        BY <1>3, <1>5, <4>1, <4>2 DEF Done
      <4> QED BY <1>3, <1>5, <1>10, <3>2, <4>1, <4>2, <4>3
    <3> QED BY <1>1, <3>1, <3>2 DEF Limits
  <2> QED BY <1>3, <2>3, <2>4, <2>5, <2>6, <2>7 DEF Limits
<1>12. Fresh(path)'
  <2>1. ASSUME NEW id \in DOMAIN patterns, NEW n \in NodeIds
        PROVE  Leads(path, id, n)' = Leads(path, id, n)
    BY <1>3, <1>10 DEF Leads, Prefix
  <2>2. ASSUME NEW n \in NodeIds
        PROVE  nodes[n].failure = 0 /\ IsOwn(path, n, nodes[n].output)'
    <3>1. nodes[n].failure = 0 /\ IsOwn(path, n, nodes[n].output)
      BY <1>4 DEF Fresh
    <3> QED BY <1>3, <2>1, <3>1 DEF IsOwn
  <2>3. queue = <<>> /\ head = 0 /\ todo = {} /\ dense = NoTable
    BY <1>4 DEF Fresh
  <2> QED BY <1>3, <1>8, <2>2, <2>3 DEF Fresh
<1>13. Holds(path)'
  BY <1>3, <1>8, <1>9, <1>12 DEF Holds, Searching
<1> QED BY <1>7, <1>11, <1>13 DEF IInv

\* Links and outputs are not part of the tree.
LEMMA SameTree ==
  ASSUME NEW path, IsTrie(path), nodes' \in [NodeIds -> Node], UNCHANGED nextToken,
         \A n \in NodeIds : nodes'[n].edges = nodes[n].edges
  PROVE  IsTrie(path)' /\ NodeIds' = NodeIds /\ \A n \in NodeIds : Edges(n)' = Edges(n)
<1>1. NodeIds' = NodeIds
  BY DEF NodeIds
<1>2. \A n \in NodeIds : Edges(n)' = Edges(n)
  BY DEF Edges
<1>3. Size' = Size
  BY <1>1 DEF Size
<1> QED BY <1>1, <1>2, <1>3 DEF IsTrie

LEMMA BoundsMore ==
  ASSUME NEW id, NEW k \in Nat, NEW most \in Nat, NEW more \in Nat, most <= more,
         Bounds(id, k, most), \A text \in [1..k -> Letters] : Spelled(text) \in Nat
  PROVE  Bounds(id, k, more)
BY DEF Bounds

LEMMA SpelledTyped ==
  ASSUME NEW k \in Nat, NEW text \in [1..k -> Letters]
  PROVE  Spelled(text) \in Nat
<1>1. PICK f \in [0..k -> Nat] : f[0] = 0 /\ \A i \in 1..k : f[i] = f[i - 1] + Width[text[i]]
  BY SumExists
<1>2. Spelled(text) = f[k]
  BY <1>1, SpelledIs
<1> QED BY <1>2

LEMMA EndPatternLimits ==
  ASSUME Typed, Limits, EndPattern
  PROVE  Limits' /\ maxUnits' \in Nat /\ maxBytes' \in Nat
<1>1. /\ patternID \in DOMAIN patterns /\ at > 0 /\ at = Len(patterns[patternID])
      /\ maxUnits' = (IF at > maxUnits THEN at ELSE maxUnits)
      /\ maxBytes' = (IF bytes > maxBytes THEN bytes ELSE maxBytes)
      /\ patternID' = patternID + 1 /\ at' = 0 /\ bytes' = 0
      /\ UNCHANGED <<patterns, exact, empty>>
  BY DEF EndPattern, args, Pattern
<1>2. at \in Nat /\ bytes \in Nat /\ maxUnits \in Nat /\ maxBytes \in Nat /\ patternID \in Nat
  BY DEF Typed
<1>3. /\ maxUnits' \in Nat /\ maxUnits <= maxUnits' /\ at <= maxUnits'
      /\ maxBytes' \in Nat /\ maxBytes <= maxBytes' /\ bytes <= maxBytes'
  BY <1>1, <1>2
<1>4. PICK units, most : units = maxUnits' /\ most = maxBytes'
  OBVIOUS
<1>5. \A id, k : Bounds(id, k, most)' = Bounds(id, k, most)
  BY <1>1 DEF Bounds, Members
<1>6. \A id \in DOMAIN patterns : Done(id)' <=> Done(id) \/ id = patternID
  <2> SUFFICES ASSUME NEW id \in DOMAIN patterns PROVE Done(id)' <=> Done(id) \/ id = patternID
    OBVIOUS
  <2>1. id \in Nat
    BY PatternsTyped
  <2> QED BY <1>1, <1>2, <2>1 DEF Done
<1>7. ASSUME NEW id \in DOMAIN patterns, Done(id) \/ id = patternID
      PROVE  Len(patterns[id]) <= units /\ Bounds(id, Len(patterns[id]), most)
  <2>1. Len(patterns[id]) \in Nat
    BY PatternsTyped
  <2>2. \A text \in [1..Len(patterns[id]) -> Letters] : Spelled(text) \in Nat
    BY <2>1, SpelledTyped
  <2>3. CASE Done(id)
    <3>1. Len(patterns[id]) <= maxUnits /\ Bounds(id, Len(patterns[id]), maxBytes)
      BY <2>3 DEF Limits
    <3>2. Len(patterns[id]) <= units
      BY <1>2, <1>3, <1>4, <2>1, <3>1
    <3> QED BY <1>2, <1>3, <1>4, <2>1, <2>2, <3>1, <3>2, BoundsMore
  <2>4. CASE id = patternID
    <3>1. Bounds(id, Len(patterns[id]), bytes)
      BY <1>1, <2>4 DEF Limits
    <3> QED BY <1>1, <1>2, <1>3, <1>4, <2>1, <2>2, <2>4, <3>1, BoundsMore
  <2> QED BY <1>7, <2>3, <2>4
<1>8. \A id : Bounds(id, Len(patterns[id]), maxBytes)' = Bounds(id, Len(patterns[id]), most)
  BY <1>1, <1>4 DEF Bounds, Members
<1>9. units = 0 \/ \E id \in DOMAIN patterns : Done(id)' /\ Len(patterns[id]) = units
  <2>1. CASE at > maxUnits
    BY <1>1, <1>4, <1>6, <2>1
  <2>2. CASE ~(at > maxUnits)
    BY <1>1, <1>4, <1>6, <2>2 DEF Limits
  <2> QED BY <2>1, <2>2
<1>10. Bounds(patternID, at, bytes)'
  <2>1. PICK id : id = patternID'
    OBVIOUS
  <2>2. Bounds(id, 0, 0)
    BY BoundsNothing
  <2> QED BY <1>1, <2>1, <2>2 DEF Bounds, Members
<1>11. patterns[patternID] # <<>>
  BY <1>1
<1>12. \/ empty = -1 /\ \A id \in DOMAIN patterns : Done(id)' => patterns[id] # <<>>
       \/ /\ Done(empty)' /\ patterns[empty] = <<>>
          /\ \A id \in DOMAIN patterns : Done(id)' /\ patterns[id] = <<>> => empty <= id
  <2>1. CASE empty = -1 /\ \A id \in DOMAIN patterns : Done(id) => patterns[id] # <<>>
    BY <1>6, <1>11, <2>1
  <2>2. CASE /\ Done(empty) /\ patterns[empty] = <<>>
             /\ \A id \in DOMAIN patterns : Done(id) /\ patterns[id] = <<>> => empty <= id
    <3>1. Done(empty)'
      <4>1. empty \in DOMAIN patterns /\ empty < patternID /\ empty \in Nat
        BY <2>2, PatternsTyped DEF Done
      <4> QED BY <1>1, <1>2, <4>1 DEF Done
    <3> QED BY <1>6, <1>11, <2>2, <3>1
  <2> QED BY <2>1, <2>2 DEF Limits
<1>13. \A id \in DOMAIN patterns : Done(id)' =>
         Len(patterns[id]) <= maxUnits' /\ Bounds(id, Len(patterns[id]), maxBytes)'
  BY <1>4, <1>6, <1>7, <1>8
<1> QED BY <1>1, <1>3, <1>4, <1>9, <1>10, <1>12, <1>13 DEF Limits

\* preferOutput leaves the lowest of the patterns that lead to a node.
LEMMA EndPatternOwns ==
  ASSUME Typed, NEW path, IsTrie(path), HoldsPrefixes(path), Fresh(path), EndPattern,
         NEW n \in NodeIds
  PROVE  /\ IsOwn(path, n, nodes[n].output)'
         /\ nodes'[n].failure = 0 /\ nodes'[n] \in Node /\ nodes'[n].edges = nodes[n].edges
<1> DEFINE terminal == [pattern |-> patternID, units |-> at]
<1>1. /\ patternID \in DOMAIN patterns /\ at > 0 /\ at = Len(patterns[patternID])
      /\ patternID' = patternID + 1
      /\ UNCHANGED <<patterns, tokenOf>>
      /\ nodes' = IF PreferOutput(terminal, nodes[state].output)
                    THEN [nodes EXCEPT ![state].output = terminal]
                    ELSE nodes
  BY DEF EndPattern, args, Pattern
<1>2. patternID \in Nat /\ at \in Nat /\ terminal \in Output
  BY DEF Typed, Output
<1>3. /\ state \in NodeIds /\ nodes[n] \in Node /\ nodes[state] \in Node
      /\ nodes \in [NodeIds -> Node]
  BY DEF IsTrie, HoldsPrefixes
<1>4. path[state] = Prefix(patternID, Len(patterns[patternID])) /\ patterns[patternID] # <<>>
  BY <1>1 DEF HoldsPrefixes
<1>5. nodes[n].failure = 0 /\ IsOwn(path, n, nodes[n].output)
  BY DEF Fresh
<1>6. \A id \in DOMAIN patterns : Done(id)' <=> Done(id) \/ id = patternID
  <2> SUFFICES ASSUME NEW id \in DOMAIN patterns PROVE Done(id)' <=> Done(id) \/ id = patternID
    OBVIOUS
  <2>1. id \in Nat
    BY PatternsTyped
  <2> QED BY <1>1, <1>2, <2>1 DEF Done
<1>7. \A id \in DOMAIN patterns :
        Leads(path, id, n)' <=> Leads(path, id, n) \/ (id = patternID /\ n = state)
  <2> SUFFICES ASSUME NEW id \in DOMAIN patterns
               PROVE  Leads(path, id, n)' <=> Leads(path, id, n) \/ (id = patternID /\ n = state)
    OBVIOUS
  <2>1. Leads(path, id, n)' <=> /\ Done(id) \/ id = patternID
                                /\ patterns[id] # <<>>
                                /\ path[n] = Prefix(id, Len(patterns[id]))
    BY <1>1, <1>6 DEF Leads, Prefix
  <2>2. path[n] = path[state] <=> n = state
    BY <1>3 DEF IsTrie
  <2> QED BY <1>4, <2>1, <2>2 DEF Leads
<1> HIDE DEF terminal
<1>8. CASE n # state
  <2>1. nodes'[n] = nodes[n]
    BY <1>1, <1>3, <1>8
  <2>2. \A id \in DOMAIN patterns : Leads(path, id, n)' <=> Leads(path, id, n)
    BY <1>7, <1>8
  <2>3. IsOwn(path, n, nodes[n].output)'
    BY <1>1, <1>5, <2>1, <2>2 DEF IsOwn
  <2> QED BY <1>3, <1>5, <2>1, <2>3
<1>9. CASE n = state
  <2>1. CASE nodes[n].output = NoOutput /\ \A id \in DOMAIN patterns : ~Leads(path, id, n)
    <3>1. PreferOutput(terminal, nodes[state].output)
      BY <1>2, <1>9, <2>1 DEF PreferOutput, terminal, NoOutput
    <3>2. nodes'[n] = [nodes[n] EXCEPT !.output = terminal]
      BY <1>1, <1>3, <1>9, <3>1
    <3>3. /\ nodes'[n].output = terminal /\ nodes'[n].failure = nodes[n].failure
          /\ nodes'[n].edges = nodes[n].edges /\ nodes'[n] \in Node
      BY <1>2, <1>3, <3>2 DEF Node
    <3>4. PICK id \in DOMAIN patterns : id = patternID
      BY <1>1
    <3>5. /\ nodes'[n].output = [pattern |-> id, units |-> Len(patterns[id])]
          /\ Leads(path, id, n)'
          /\ \A other \in DOMAIN patterns : Leads(path, other, n)' => id <= other
      BY <1>1, <1>2, <1>7, <1>9, <2>1, <3>3, <3>4 DEF terminal
    <3>6. IsOwn(path, n, nodes[n].output)'
      BY <1>1, <3>5 DEF IsOwn
    <3> QED BY <1>5, <3>3, <3>6
  <2>2. ASSUME NEW id \in DOMAIN patterns,
               nodes[n].output = [pattern |-> id, units |-> Len(patterns[id])],
               Leads(path, id, n),
               \A other \in DOMAIN patterns : Leads(path, other, n) => id <= other
        PROVE  /\ IsOwn(path, n, nodes[n].output)'
               /\ nodes'[n] = nodes[n]
    <3>1. id \in Nat /\ id < patternID /\ Len(patterns[id]) \in Nat
      BY <2>2, PatternsTyped DEF Leads, Done
    <3>2. Len(path[n]) = at
      <4>1. Prefix(patternID, at) = path[n]
        BY <1>1, <1>4, <1>9
      <4>2. Len(Prefix(patternID, at)) = at
        BY <1>2 DEF Prefix
      <4> QED BY <4>1, <4>2
    <3>3. Len(path[n]) = Len(patterns[id])
      <4>1. PICK k \in Nat : k = Len(patterns[id])
        BY <3>1
      <4>2. Len(Prefix(id, k)) = k
        BY DEF Prefix
      <4> QED BY <2>2, <4>1, <4>2 DEF Leads
    <3>4. ~PreferOutput(terminal, nodes[state].output)
      BY <1>2, <1>9, <2>2, <3>1, <3>2, <3>3 DEF PreferOutput, terminal
    <3>5. nodes' = nodes
      BY <1>1, <3>4
    <3>6. /\ Leads(path, id, n)'
          /\ \A other \in DOMAIN patterns : Leads(path, other, n)' => id <= other
      BY <1>2, <1>7, <2>2, <3>1
    <3>7. IsOwn(path, n, nodes[n].output)'
      BY <1>1, <2>2, <3>5, <3>6 DEF IsOwn
    <3> QED BY <3>5, <3>7
  <2> QED BY <1>3, <1>5, <2>1, <2>2 DEF IsOwn
<1> QED BY <1>8, <1>9

LEMMA EndPatternKeeps ==
  ASSUME IInv, EndPattern
  PROVE  IInv'
<1>1. Typed /\ Limits
  BY DEF IInv
<1>2. PICK path : Holds(path)
  BY DEF IInv
<1>3. /\ phase = "insert" /\ phase' = "insert" /\ patternID \in DOMAIN patterns
      /\ at = Len(patterns[patternID])
      /\ patternID' = patternID + 1 /\ at' = 0 /\ state' = 0 /\ bytes' = 0
      /\ UNCHANGED <<patterns, exact, tokenOf, nextToken, dense, queue, head, todo>>
  BY DEF EndPattern, args, linking, Pattern
<1>4. IsTrie(path) /\ HoldsPrefixes(path) /\ Fresh(path)
  BY <1>2, <1>3 DEF Holds
<1>5. Limits' /\ maxUnits' \in Nat /\ maxBytes' \in Nat
  BY <1>1, EndPatternLimits
<1>6. Typed'
  BY <1>1, <1>3, <1>5, NextPatternTyped
<1>7. \A n \in NodeIds : /\ IsOwn(path, n, nodes[n].output)' /\ nodes'[n].failure = 0
                         /\ nodes'[n] \in Node /\ nodes'[n].edges = nodes[n].edges
  BY <1>1, <1>4, EndPatternOwns
<1>8. nodes' \in [NodeIds -> Node]
  <2>1. nodes \in [NodeIds -> Node]
    BY <1>4 DEF IsTrie
  <2>2. nodes' = [n \in NodeIds |-> nodes'[n]]
    BY <2>1 DEF EndPattern
  <2> QED BY <1>7, <2>2
<1>9. IsTrie(path)' /\ NodeIds' = NodeIds
  BY <1>3, <1>4, <1>7, <1>8, SameTree
<1>10. HoldsPrefixes(path)'
  BY <1>1, <1>3, <1>4, <1>9, NextPatternPrefixes
<1>11. Fresh(path)'
  <2>1. queue = <<>> /\ head = 0 /\ todo = {} /\ dense = NoTable
    BY <1>4 DEF Fresh
  <2> QED BY <1>3, <1>7, <1>9, <2>1 DEF Fresh
<1>12. Holds(path)'
  BY <1>3, <1>9, <1>10, <1>11 DEF Holds, Searching
<1> QED BY <1>5, <1>6, <1>12 DEF IInv

-----------------------------------------------------------------------------
(***************************************************************************)
(* What ends with what.  Of two sequences that end a third one, the        *)
(* shorter ends the longer.                                                *)
(***************************************************************************)
LEMMA EndsTrans ==
  ASSUME NEW a \in Seq(Token), NEW b \in Seq(Token), NEW c \in Seq(Token),
         EndsWith(a, b), EndsWith(b, c)
  PROVE  EndsWith(a, c)
<1>1. Len(a) \in Nat /\ Len(b) \in Nat /\ Len(c) \in Nat /\ Len(c) <= Len(b) /\ Len(b) <= Len(a)
  BY DEF EndsWith
<1>2. ASSUME NEW i \in 1..Len(c) PROVE c[i] = a[Len(a) - Len(c) + i]
  <2> DEFINE j == Len(b) - Len(c) + i
  <2>1. j \in 1..Len(b)
    BY <1>1
  <2>2. c[i] = b[j] /\ b[j] = a[Len(a) - Len(b) + j]
    BY <2>1 DEF EndsWith
  <2>3. Len(a) - Len(b) + j = Len(a) - Len(c) + i
    BY <1>1, <2>1
  <2> QED BY <2>2, <2>3
<1> QED BY <1>1, <1>2 DEF EndsWith

LEMMA EndsShorter ==
  ASSUME NEW a \in Seq(Token), NEW b \in Seq(Token), NEW c \in Seq(Token),
         EndsWith(a, b), EndsWith(a, c), Len(c) <= Len(b)
  PROVE  EndsWith(b, c)
<1>1. Len(a) \in Nat /\ Len(b) \in Nat /\ Len(c) \in Nat /\ Len(b) <= Len(a)
  BY DEF EndsWith
<1>2. ASSUME NEW i \in 1..Len(c) PROVE c[i] = b[Len(b) - Len(c) + i]
  <2> DEFINE j == Len(b) - Len(c) + i
  <2>1. j \in 1..Len(b)
    BY <1>1
  <2>2. c[i] = a[Len(a) - Len(c) + i] /\ b[j] = a[Len(a) - Len(b) + j]
    BY DEF EndsWith
  <2>3. Len(a) - Len(b) + j = Len(a) - Len(c) + i
    BY <1>1, <2>1
  <2> QED BY <2>1, <2>2, <2>3
<1> QED BY <1>2 DEF EndsWith

LEMMA EndsSame ==
  ASSUME NEW a \in Seq(Token), NEW b \in Seq(Token), NEW c \in Seq(Token),
         EndsWith(a, b), EndsWith(a, c), Len(b) = Len(c)
  PROVE  b = c
<1>1. \A i \in 1..Len(b) : b[i] = c[i]
  BY DEF EndsWith
<1> QED BY <1>1

LEMMA EndsSelf ==
  ASSUME NEW a \in Seq(Token), NEW c \in Seq(Token)
  PROVE  EndsWith(a, a) /\ EndsWith(a, <<>>) /\ (EndsWith(a, c) /\ Len(c) = Len(a) => c = a)
<1>1. EndsWith(a, a) /\ EndsWith(a, <<>>)
  BY DEF EndsWith
<1> QED BY <1>1, EndsSame

\* The last token is shared, and the rest ends the rest.
LEMMA EndsAppend ==
  ASSUME NEW a \in Seq(Token), NEW b \in Seq(Token), NEW t \in Token, NEW u \in Token
  PROVE  EndsWith(Append(a, t), Append(b, u)) <=> t = u /\ EndsWith(a, b)
<1> DEFINE at1 == Append(a, t)
           bu == Append(b, u)
<1>1. /\ Len(a) \in Nat /\ Len(b) \in Nat
      /\ Len(at1) = Len(a) + 1 /\ Len(bu) = Len(b) + 1
      /\ \A i \in 1..Len(a) : at1[i] = a[i]
      /\ \A i \in 1..Len(b) : bu[i] = b[i]
      /\ at1[Len(a) + 1] = t /\ bu[Len(b) + 1] = u
  OBVIOUS
<1> HIDE DEF at1, bu
<1>2. ASSUME EndsWith(at1, bu) PROVE t = u /\ EndsWith(a, b)
  <2>1. Len(b) <= Len(a)
    BY <1>1, <1>2 DEF EndsWith
  <2>2. \A i \in 1..(Len(b) + 1) : bu[i] = at1[Len(a) + 1 - (Len(b) + 1) + i]
    BY <1>1, <1>2 DEF EndsWith
  <2>3. t = u
    <3>1. Len(b) + 1 \in 1..(Len(b) + 1)
      BY <1>1
    <3>2. Len(a) + 1 - (Len(b) + 1) + (Len(b) + 1) = Len(a) + 1
      BY <1>1
    <3> QED BY <1>1, <2>2, <3>1, <3>2
  <2>4. ASSUME NEW i \in 1..Len(b) PROVE b[i] = a[Len(a) - Len(b) + i]
    <3>1. i \in 1..(Len(b) + 1) /\ Len(a) + 1 - (Len(b) + 1) + i = Len(a) - Len(b) + i
          /\ Len(a) - Len(b) + i \in 1..Len(a)
      BY <1>1, <2>1
    <3> QED BY <1>1, <2>2, <3>1
  <2> QED BY <2>1, <2>3, <2>4 DEF EndsWith
<1>3. ASSUME t = u, EndsWith(a, b) PROVE EndsWith(at1, bu)
  <2>1. Len(b) <= Len(a)
    BY <1>3 DEF EndsWith
  <2>2. ASSUME NEW i \in 1..Len(bu) PROVE bu[i] = at1[Len(at1) - Len(bu) + i]
    <3>1. CASE i = Len(b) + 1
      <4>1. Len(at1) - Len(bu) + i = Len(a) + 1
        BY <1>1, <3>1
      <4> QED BY <1>1, <1>3, <3>1, <4>1
    <3>2. CASE i # Len(b) + 1
      <4>1. i \in 1..Len(b) /\ Len(at1) - Len(bu) + i = Len(a) - Len(b) + i
            /\ Len(a) - Len(b) + i \in 1..Len(a)
        BY <1>1, <2>1, <3>2
      <4>2. b[i] = a[Len(a) - Len(b) + i]
        BY <1>3, <4>1 DEF EndsWith
      <4> QED BY <1>1, <4>1, <4>2
    <3> QED BY <3>1, <3>2
  <2> QED BY <1>1, <2>1, <2>2 DEF EndsWith
<1> QED BY <1>2, <1>3 DEF at1, bu

-----------------------------------------------------------------------------
(***************************************************************************)
(* The trie when every pattern has been read: its nodes are the prefixes.  *)
(***************************************************************************)
LEMMA AllDone ==
  ASSUME Typed, patternID \notin DOMAIN patterns, NEW id \in DOMAIN patterns
  PROVE  Done(id) /\ Read(id) = Len(patterns[id])
<1>1. id \in Nat /\ id < patternID
  BY PatternsTyped
<1> QED BY <1>1 DEF Done, Read

Whole(path) ==
  /\ IsPatternSet(TokenPats)
  /\ Nodes(TokenPats) = {path[n] : n \in NodeIds}
  /\ \A id \in DOMAIN patterns :
       /\ id \in Nat /\ Len(patterns[id]) \in Nat
       /\ TokenPats[id] \in Seq(Token) /\ Len(TokenPats[id]) = Len(patterns[id])
       /\ \E n \in NodeIds : path[n] = TokenPats[id]
       /\ \A n : Leads(path, id, n) <=> TokenPats[id] # <<>> /\ path[n] = TokenPats[id]
  /\ Ids(TokenPats) = DOMAIN patterns

LEMMA TrieIsWhole ==
  ASSUME Typed, patternID \notin DOMAIN patterns, NEW path, IsTrie(path), HoldsPrefixes(path)
  PROVE  Whole(path)
<1>1. \A id \in DOMAIN patterns : Done(id) /\ Read(id) = Len(patterns[id])
  BY AllDone
<1>2. ASSUME NEW id \in DOMAIN patterns
      PROVE  /\ id \in Nat /\ Len(patterns[id]) \in Nat
             /\ TokenPats[id] = Prefix(id, Len(patterns[id]))
             /\ TokenPats[id] \in Seq(Token) /\ Len(TokenPats[id]) = Len(patterns[id])
             /\ \A k \in 1..Len(patterns[id]) : SubSeq(TokenPats[id], 1, k) = Prefix(id, k)
  <2>1. id \in Nat /\ Len(patterns[id]) \in Nat /\ DOMAIN patterns[id] = 1..Len(patterns[id])
    BY PatternsTyped
  <2>2. \A i \in 1..Len(patterns[id]) : tokenOf[patterns[id][i]] # 0
    BY <1>1 DEF HoldsPrefixes
  <2>3. TokenPats[id] = Prefix(id, Len(patterns[id]))
    BY <2>1 DEF TokenPats, Prefix
  <2>4. TokenPats[id] \in Seq(Token) /\ Len(TokenPats[id]) = Len(patterns[id])
    BY <2>1, <2>2, <2>3, PrefixTyped
  <2>5. ASSUME NEW k \in 1..Len(patterns[id]) PROVE SubSeq(TokenPats[id], 1, k) = Prefix(id, k)
    <3>1. \A i \in 1..k : TokenPats[id][i] = tokenOf[patterns[id][i]]
      BY <2>1, <2>3 DEF Prefix
    <3>2. SubSeq(TokenPats[id], 1, k) = [i \in 1..k |-> TokenPats[id][i]]
      BY <2>1, <2>4
    <3> QED BY <3>1, <3>2 DEF Prefix
  <2> QED BY <2>1, <2>3, <2>4, <2>5
<1>3. Ids(TokenPats) = DOMAIN patterns
  BY DEF Ids, TokenPats
<1>4. IsPatternSet(TokenPats)
  <2>1. \A id \in DOMAIN patterns : TokenPats[id] \in Seq(Token) /\ id \in Nat
    BY <1>2
  <2>2. DOMAIN TokenPats = DOMAIN patterns /\ TokenPats = [id \in DOMAIN TokenPats |-> TokenPats[id]]
    BY DEF TokenPats
  <2> QED BY <2>1, <2>2 DEF IsPatternSet
<1>5. path[0] = <<>> /\ 0 \in NodeIds
  BY DEF IsTrie, Token
<1>6. Nodes(TokenPats) = {path[n] : n \in NodeIds}
  <2>1. ASSUME NEW s \in Nodes(TokenPats) PROVE \E n \in NodeIds : s = path[n]
    <3>1. CASE s = <<>>
      BY <1>5, <3>1
    <3>2. CASE \E id \in DOMAIN patterns : \E k \in 1..Len(TokenPats[id]) :
                 s = SubSeq(TokenPats[id], 1, k)
      <4> PICK id \in DOMAIN patterns : \E k \in 1..Len(TokenPats[id]) :
                 s = SubSeq(TokenPats[id], 1, k)
        BY <3>2
      <4> PICK k \in 1..Len(TokenPats[id]) : s = SubSeq(TokenPats[id], 1, k)
        OBVIOUS
      <4>1. k \in 1..Read(id) /\ s = Prefix(id, k)
        BY <1>1, <1>2
      <4> QED BY <4>1 DEF HoldsPrefixes
    <3> QED BY <1>3, <2>1, <3>1, <3>2 DEF Nodes
  <2>2. ASSUME NEW n \in NodeIds PROVE path[n] \in Nodes(TokenPats)
    <3>1. CASE n = 0
      BY <1>5, <3>1 DEF Nodes
    <3>2. CASE n # 0
      <4> PICK id \in DOMAIN patterns : \E k \in 1..Read(id) : path[n] = Prefix(id, k)
        BY <3>2 DEF HoldsPrefixes
      <4> PICK k \in 1..Read(id) : path[n] = Prefix(id, k)
        OBVIOUS
      <4>1. k \in 1..Len(TokenPats[id]) /\ path[n] = SubSeq(TokenPats[id], 1, k)
        BY <1>1, <1>2
      <4> QED BY <1>3, <4>1 DEF Nodes
    <3> QED BY <3>1, <3>2
  <2> QED BY <2>1, <2>2
<1>7. ASSUME NEW id \in DOMAIN patterns
      PROVE  \E n \in NodeIds : path[n] = TokenPats[id]
  <2>1. CASE Len(patterns[id]) = 0
    <3>1. TokenPats[id] = <<>>
      BY <1>2, <2>1
    <3> QED BY <1>5, <3>1
  <2>2. CASE Len(patterns[id]) # 0
    <3>1. Len(patterns[id]) \in 1..Read(id)
      BY <1>1, <1>2, <2>2
    <3>2. TokenPats[id] = Prefix(id, Len(patterns[id]))
      BY <1>2
    <3> QED BY <3>1, <3>2 DEF HoldsPrefixes
  <2> QED BY <2>1, <2>2
<1>8. ASSUME NEW id \in DOMAIN patterns, NEW n
      PROVE  Leads(path, id, n) <=> TokenPats[id] # <<>> /\ path[n] = TokenPats[id]
  <2>1. patterns[id] = <<>> <=> TokenPats[id] = <<>>
    <3>1. patterns[id] \in Seq(Letters)
      BY PatternsTyped
    <3> QED BY <1>2, <3>1
  <2> QED BY <1>1, <1>2, <2>1 DEF Leads
<1> QED BY <1>2, <1>3, <1>4, <1>6, <1>7, <1>8 DEF Whole

-----------------------------------------------------------------------------
\* A suffix of a child is a child, by the same token, of a suffix of its parent.
LEMMA SuffixParent ==
  ASSUME NEW path, IsTrie(path), NEW n \in NodeIds, NEW tok \in Token,
         NEW s \in NodeIds, s # 0, EndsWith(Append(path[n], tok), path[s])
  PROVE  \E p \in NodeIds :
           /\ tok \in Edges(p) /\ nodes[p].edges[tok] = s
           /\ path[s] = Append(path[p], tok) /\ Len(path[s]) = Len(path[p]) + 1
           /\ EndsWith(path[n], path[p])
<1>1. PICK p \in NodeIds : \E t \in Edges(p) :
         /\ nodes[p].edges[t] = s /\ t \in Token
         /\ path[s] = Append(path[p], t) /\ Len(path[s]) = Len(path[p]) + 1
  BY ParentIs
<1>2. PICK t \in Edges(p) :
         /\ nodes[p].edges[t] = s /\ t \in Token
         /\ path[s] = Append(path[p], t) /\ Len(path[s]) = Len(path[p]) + 1
  BY <1>1
<1>3. path[n] \in Seq(Token) /\ path[p] \in Seq(Token)
  BY NodeTyped
<1>4. t = tok /\ EndsWith(path[n], path[p])
  BY <1>2, <1>3, EndsAppend
<1> QED BY <1>2, <1>4

\* Where the walk along the links stops is the link of the child.
LEMMA LinkTarget ==
  ASSUME NEW path, IsTrie(path), NEW n \in NodeIds, NEW tok \in Edges(n),
         NEW f \in NodeIds, IsSuffix(path, n, f),
         \A s \in NodeIds : IsSuffix(path, n, s) /\ tok \in Edges(s) => Len(path[s]) <= Len(path[f]),
         f = 0 \/ tok \in Edges(f),
         NEW target, target = IF tok \in Edges(f) THEN nodes[f].edges[tok] ELSE 0
  PROVE  IsLink(path, nodes[n].edges[tok], target)
<1> DEFINE c == nodes[n].edges[tok]
<1>1. /\ c \in NodeIds /\ tok \in Token
      /\ path[c] = Append(path[n], tok) /\ Len(path[c]) = Len(path[n]) + 1
  BY ChildIs
<1> HIDE DEF c
<1>2. /\ path[n] \in Seq(Token) /\ path[f] \in Seq(Token) /\ path[c] \in Seq(Token)
      /\ Len(path[n]) \in Nat /\ Len(path[f]) \in Nat
      /\ path[0] = <<>> /\ 0 \in NodeIds
  <2>1. path[0] = <<>>
    BY DEF IsTrie
  <2> QED BY <1>1, <2>1, NodeTyped
<1>3. EndsWith(path[n], path[f]) /\ Len(path[f]) < Len(path[n])
  BY DEF IsSuffix
<1>4. target \in NodeIds /\ IsSuffix(path, c, target)
  <2>1. CASE tok \in Edges(f)
    <3>1. /\ target \in NodeIds /\ path[target] = Append(path[f], tok)
          /\ Len(path[target]) = Len(path[f]) + 1
      BY <2>1, ChildIs
    <3>2. EndsWith(path[c], path[target])
      BY <1>1, <1>2, <1>3, <3>1, EndsAppend
    <3> QED BY <1>1, <1>2, <1>3, <3>1, <3>2 DEF IsSuffix
  <2>2. CASE tok \notin Edges(f)
    <3>1. target = 0
      BY <2>2
    <3>2. EndsWith(path[c], path[0]) /\ Len(path[0]) = 0
      BY <1>2, EndsSelf
    <3> QED BY <1>1, <1>2, <3>1, <3>2 DEF IsSuffix
  <2> QED BY <2>1, <2>2
<1>5. ASSUME NEW s \in NodeIds, IsSuffix(path, c, s) PROVE Len(path[s]) <= Len(path[target])
  <2>1. Len(path[s]) \in Nat /\ Len(path[target]) \in Nat
    BY <1>4, NodeTyped
  <2>2. CASE s = 0
    BY <1>2, <2>1, <2>2
  <2>3. CASE s # 0
    <3>1. PICK p \in NodeIds :
             /\ tok \in Edges(p) /\ Len(path[s]) = Len(path[p]) + 1
             /\ EndsWith(path[n], path[p])
      BY <1>1, <1>5, <2>3, SuffixParent DEF IsSuffix
    <3>2. Len(path[p]) \in Nat /\ path[p] \in Seq(Token)
      BY NodeTyped
    <3>3. IsSuffix(path, n, p)
      BY <1>1, <1>2, <1>5, <3>1, <3>2 DEF IsSuffix
    <3>4. Len(path[p]) <= Len(path[f])
      BY <3>1, <3>3
    <3>5. CASE tok \in Edges(f)
      <4>1. Len(path[target]) = Len(path[f]) + 1
        BY <3>5, ChildIs
      <4> QED BY <1>2, <3>1, <3>2, <3>4, <4>1
    <3>6. CASE tok \notin Edges(f)
      <4>1. f = 0 /\ Len(path[p]) = 0
        BY <1>2, <3>2, <3>4, <3>6
      <4>2. path[p] = path[0]
        BY <1>2, <3>2, <4>1
      <4>3. p = 0
        BY <1>2, <4>2 DEF IsTrie
      <4> QED BY <3>1, <3>6, <4>1, <4>3
    <3> QED BY <3>5, <3>6
  <2> QED BY <2>2, <2>3
<1> QED BY <1>4, <1>5 DEF IsLink, c

LEMMA RootChildLink ==
  ASSUME NEW path, IsTrie(path), NEW tok \in Edges(0)
  PROVE  IsLink(path, nodes[0].edges[tok], 0)
<1> DEFINE c == nodes[0].edges[tok]
<1>1. path[0] = <<>> /\ 0 \in NodeIds
  BY DEF IsTrie, Token
<1>2. c \in NodeIds /\ Len(path[c]) = 1 /\ path[c] \in Seq(Token)
  <2>1. c \in NodeIds /\ Len(path[c]) = Len(path[0]) + 1
    BY <1>1, ChildIs
  <2> QED BY <1>1, <2>1, NodeTyped
<1> HIDE DEF c
<1>3. EndsWith(path[c], path[0]) /\ Len(path[0]) = 0
  BY <1>1, <1>2, EndsSelf
<1>4. ASSUME NEW s \in NodeIds, IsSuffix(path, c, s) PROVE Len(path[s]) <= Len(path[0])
  <2>1. Len(path[s]) \in Nat /\ Len(path[s]) < 1
    BY <1>2, <1>4, NodeTyped DEF IsSuffix
  <2> QED BY <1>3, <2>1
<1> QED BY <1>1, <1>2, <1>3, <1>4 DEF IsLink, IsSuffix, c

\* Nothing non-empty ends at the root.
LEMMA RootOutput ==
  ASSUME NEW path, IsTrie(path), Whole(path), IsOwn(path, 0, nodes[0].output)
  PROVE  IsOutput(TokenPats, path[0], nodes[0].output) /\ nodes[0].output = NoOutput
<1>1. path[0] = <<>>
  BY DEF IsTrie
<1>2. \A id \in DOMAIN patterns : ~Leads(path, id, 0)
  BY <1>1 DEF Whole
<1>3. nodes[0].output = NoOutput
  BY <1>2 DEF IsOwn
<1>4. ASSUME NEW id \in Ids(TokenPats) PROVE ~EndsHere(TokenPats, path[0], id)
  <2>1. TokenPats[id] \in Seq(Token)
    BY DEF Whole
  <2> QED BY <1>1, <2>1 DEF EndsHere, EndsWith
<1> QED BY <1>3, <1>4 DEF IsOutput

\* A pattern ends at a node if it leads there, or if it ends at the node's link.
LEMMA EndsByLink ==
  ASSUME NEW path, IsTrie(path), Whole(path), NEW c \in NodeIds, NEW m, IsLink(path, c, m),
         NEW id \in DOMAIN patterns
  PROVE  /\ EndsHere(TokenPats, path[c], id)
              <=> Leads(path, id, c) \/ EndsHere(TokenPats, path[m], id)
         /\ Leads(path, id, c) => Len(patterns[id]) = Len(path[c])
         /\ EndsHere(TokenPats, path[m], id) => Len(patterns[id]) < Len(path[c])
<1> DEFINE p == TokenPats[id]
<1>1. /\ m \in NodeIds /\ EndsWith(path[c], path[m]) /\ Len(path[m]) < Len(path[c])
      /\ \A s \in NodeIds : IsSuffix(path, c, s) => Len(path[s]) <= Len(path[m])
  BY DEF IsLink, IsSuffix
<1>2. /\ path[c] \in Seq(Token) /\ path[m] \in Seq(Token)
      /\ Len(path[c]) \in Nat /\ Len(path[m]) \in Nat
  BY <1>1, NodeTyped
<1>3. /\ p \in Seq(Token) /\ Len(p) = Len(patterns[id]) /\ Len(p) \in Nat
      /\ \E n \in NodeIds : path[n] = p
      /\ Leads(path, id, c) <=> p # <<>> /\ path[c] = p
  BY DEF Whole
<1>4. PICK x \in NodeIds : path[x] = p
  BY <1>3
<1>5. EndsHere(TokenPats, path[c], id) <=> p # <<>> /\ EndsWith(path[c], p)
  BY DEF EndsHere
<1>6. EndsHere(TokenPats, path[m], id) <=> p # <<>> /\ EndsWith(path[m], p)
  BY DEF EndsHere
<1> HIDE DEF p
<1>7. ASSUME EndsHere(TokenPats, path[c], id)
      PROVE  Leads(path, id, c) \/ EndsHere(TokenPats, path[m], id)
  <2>1. EndsWith(path[c], p) /\ Len(p) <= Len(path[c]) /\ p # <<>>
    BY <1>5, <1>7 DEF EndsWith
  <2>2. CASE Len(p) = Len(path[c])
    BY <1>2, <1>3, <2>1, <2>2, EndsSelf
  <2>3. CASE Len(p) # Len(path[c])
    <3>1. IsSuffix(path, c, x)
      BY <1>2, <1>3, <1>4, <2>1, <2>3 DEF IsSuffix
    <3>2. Len(p) <= Len(path[m])
      BY <1>1, <1>4, <3>1
    <3>3. EndsWith(path[m], p)
      BY <1>1, <1>2, <1>3, <2>1, <3>2, EndsShorter
    <3> QED BY <1>6, <2>1, <3>3
  <2> QED BY <2>2, <2>3
<1>8. ASSUME Leads(path, id, c) PROVE EndsHere(TokenPats, path[c], id)
  BY <1>2, <1>3, <1>5, <1>8, EndsSelf
<1>9. ASSUME EndsHere(TokenPats, path[m], id)
      PROVE  EndsHere(TokenPats, path[c], id) /\ Len(patterns[id]) < Len(path[c])
  <2>1. p # <<>> /\ EndsWith(path[m], p) /\ Len(p) <= Len(path[m])
    BY <1>6, <1>9 DEF EndsWith
  <2>2. EndsWith(path[c], p)
    BY <1>1, <1>2, <1>3, <2>1, EndsTrans
  <2> QED BY <1>1, <1>2, <1>3, <1>5, <2>1, <2>2
<1> QED BY <1>3, <1>7, <1>8, <1>9

\* One terminal is enough: the node's own if it has one, or else its link's.
LEMMA OutputByLink ==
  ASSUME NEW path, IsTrie(path), Whole(path), NEW c \in NodeIds, NEW m, IsLink(path, c, m),
         NEW own, IsOwn(path, c, own), NEW inherited, IsOutput(TokenPats, path[m], inherited)
  PROVE  IsOutput(TokenPats, path[c], IF PreferOutput(inherited, own) THEN inherited ELSE own)
<1> DEFINE Here(id) == EndsHere(TokenPats, path[c], id)
           There(id) == EndsHere(TokenPats, path[m], id)
           best == IF PreferOutput(inherited, own) THEN inherited ELSE own
<1>1. ASSUME NEW id \in DOMAIN patterns
      PROVE  /\ Here(id) <=> Leads(path, id, c) \/ There(id)
             /\ Leads(path, id, c) => Len(patterns[id]) = Len(path[c])
             /\ There(id) => Len(patterns[id]) < Len(path[c])
             /\ id \in Nat /\ Len(patterns[id]) \in Nat /\ Len(TokenPats[id]) = Len(patterns[id])
  BY EndsByLink DEF Whole
<1>2. Ids(TokenPats) = DOMAIN patterns /\ Len(path[c]) \in Nat
  BY NodeTyped DEF Whole
<1>3. \/ /\ inherited = NoOutput
         /\ \A id \in DOMAIN patterns : ~There(id)
      \/ \E id \in DOMAIN patterns :
           /\ inherited = [pattern |-> id, units |-> Len(TokenPats[id])]
           /\ There(id)
           /\ \A other \in DOMAIN patterns :
                There(other) => \/ Len(TokenPats[other]) < Len(TokenPats[id])
                                \/ Len(TokenPats[other]) = Len(TokenPats[id]) /\ id <= other
  BY <1>2 DEF IsOutput
<1>4. \/ own = NoOutput /\ \A id \in DOMAIN patterns : ~Leads(path, id, c)
      \/ \E id \in DOMAIN patterns :
           /\ own = [pattern |-> id, units |-> Len(patterns[id])]
           /\ Leads(path, id, c)
           /\ \A other \in DOMAIN patterns : Leads(path, other, c) => id <= other
  BY DEF IsOwn
<1> HIDE DEF Here, There
<1>5. \/ /\ best = NoOutput
         /\ \A id \in DOMAIN patterns : ~Here(id)
      \/ \E id \in DOMAIN patterns :
           /\ best = [pattern |-> id, units |-> Len(TokenPats[id])]
           /\ Here(id)
           /\ \A other \in DOMAIN patterns :
                Here(other) => \/ Len(TokenPats[other]) < Len(TokenPats[id])
                               \/ Len(TokenPats[other]) = Len(TokenPats[id]) /\ id <= other
  <2>1. CASE own = NoOutput /\ \A id \in DOMAIN patterns : ~Leads(path, id, c)
    <3>1. \A id \in DOMAIN patterns : Here(id) <=> There(id)
      BY <1>1, <2>1
    <3>2. best = inherited
      <4>1. CASE inherited = NoOutput
        BY <2>1, <4>1
      <4>2. CASE inherited # NoOutput
        <5>1. PICK id \in DOMAIN patterns :
                inherited = [pattern |-> id, units |-> Len(TokenPats[id])]
          BY <1>3, <4>2
        <5>2. inherited.pattern >= 0 /\ own.pattern < 0
          BY <1>1, <2>1, <5>1 DEF NoOutput
        <5> QED BY <5>2 DEF PreferOutput
      <4> QED BY <4>1, <4>2
    <3> QED BY <1>3, <3>1, <3>2
  <2>2. ASSUME NEW id \in DOMAIN patterns,
               own = [pattern |-> id, units |-> Len(patterns[id])], Leads(path, id, c),
               \A other \in DOMAIN patterns : Leads(path, other, c) => id <= other
        PROVE  /\ best = [pattern |-> id, units |-> Len(TokenPats[id])]
               /\ Here(id)
               /\ \A other \in DOMAIN patterns :
                    Here(other) => \/ Len(TokenPats[other]) < Len(TokenPats[id])
                                   \/ Len(TokenPats[other]) = Len(TokenPats[id]) /\ id <= other
    <3>1. /\ Here(id) /\ Len(patterns[id]) = Len(path[c]) /\ Len(TokenPats[id]) = Len(patterns[id])
          /\ own.pattern = id /\ own.units = Len(path[c]) /\ id \in Nat
      BY <1>1, <2>2
    <3>2. ~PreferOutput(inherited, own)
      <4>1. CASE inherited = NoOutput
        BY <4>1 DEF PreferOutput, NoOutput
      <4>2. CASE inherited # NoOutput
        <5>1. PICK it \in DOMAIN patterns :
                inherited = [pattern |-> it, units |-> Len(TokenPats[it])] /\ There(it)
          BY <1>3, <4>2
        <5>2. inherited.units \in Nat /\ inherited.units < own.units
          BY <1>1, <1>2, <3>1, <5>1
        <5> QED BY <1>2, <3>1, <5>2 DEF PreferOutput
      <4> QED BY <4>1, <4>2
    <3>3. best = [pattern |-> id, units |-> Len(TokenPats[id])]
      BY <2>2, <3>1, <3>2
    <3>4. ASSUME NEW other \in DOMAIN patterns, Here(other)
          PROVE  \/ Len(TokenPats[other]) < Len(TokenPats[id])
                 \/ Len(TokenPats[other]) = Len(TokenPats[id]) /\ id <= other
      BY <1>1, <2>2, <3>1, <3>4
    <3> QED BY <3>1, <3>3, <3>4
  <2> QED BY <1>4, <2>1, <2>2
<1> QED BY <1>2, <1>5 DEF IsOutput, Here

-----------------------------------------------------------------------------
(***************************************************************************)
(* advance, from a node by a token: to the child, or else to where the     *)
(* node's link leads, or else to the root.                                 *)
(***************************************************************************)
LEMMA AdvanceToChild ==
  ASSUME NEW path, IsTrie(path), Whole(path), NEW n \in NodeIds, NEW tok \in Edges(n)
  PROVE  IsAdvance(TokenPats, path[n], tok, path[nodes[n].edges[tok]])
<1>1. tok \in Token /\ path[nodes[n].edges[tok]] = Append(path[n], tok) /\ path[n] \in Seq(Token)
  BY ChildIs, NodeTyped
<1>2. Append(path[n], tok) \in Seq(Token)
  BY <1>1
<1>3. EndsWith(Append(path[n], tok), path[nodes[n].edges[tok]])
  BY <1>1, <1>2, EndsSelf
<1>4. \A s : EndsWith(Append(path[n], tok), s) => Len(s) <= Len(Append(path[n], tok))
  BY DEF EndsWith
<1> QED BY <1>1, <1>3, <1>4 DEF IsAdvance, Token

LEMMA AdvanceAtRoot ==
  ASSUME NEW path, IsTrie(path), Whole(path), NEW tok \in Token, tok \notin Edges(0)
  PROVE  IsAdvance(TokenPats, path[0], tok, path[0])
<1>1. path[0] = <<>> /\ 0 \in NodeIds /\ Len(path[0]) = 0
  BY DEF IsTrie, Token
<1>2. Append(path[0], tok) \in Seq(Token) /\ path[0] \in Seq(Token)
  BY <1>1
<1>3. EndsWith(Append(path[0], tok), path[0])
  BY <1>1, <1>2, EndsSelf
<1>4. ASSUME NEW s \in Nodes(TokenPats), EndsWith(Append(path[0], tok), s)
      PROVE  Len(s) <= Len(path[0])
  <2>1. PICK x \in NodeIds : s = path[x]
    BY DEF Whole
  <2>2. CASE x = 0
    BY <1>1, <2>1, <2>2
  <2>3. CASE x # 0
    <3>1. PICK p \in NodeIds :
             tok \in Edges(p) /\ EndsWith(path[0], path[p])
      BY <1>1, <1>4, <2>1, <2>3, SuffixParent
    <3>2. path[p] \in Seq(Token) /\ Len(path[p]) \in Nat /\ Len(path[p]) <= 0
      BY <1>1, <3>1, NodeTyped DEF EndsWith
    <3>3. path[p] = path[0]
      BY <1>1, <3>2
    <3>4. p = 0
      BY <1>1, <3>3 DEF IsTrie
    <3> QED BY <3>1, <3>4
  <2> QED BY <2>2, <2>3
<1> QED BY <1>3, <1>4 DEF IsAdvance, Token

LEMMA AdvanceByLink ==
  ASSUME NEW path, IsTrie(path), Whole(path), NEW n \in NodeIds, NEW tok \in Token,
         tok \notin Edges(n), NEW f, IsLink(path, n, f),
         NEW m \in NodeIds, IsAdvance(TokenPats, path[f], tok, path[m])
  PROVE  IsAdvance(TokenPats, path[n], tok, path[m])
<1>1. /\ f \in NodeIds /\ EndsWith(path[n], path[f])
      /\ \A s \in NodeIds : IsSuffix(path, n, s) => Len(path[s]) <= Len(path[f])
  BY DEF IsLink, IsSuffix
<1>2. /\ path[n] \in Seq(Token) /\ path[f] \in Seq(Token) /\ path[m] \in Seq(Token)
      /\ Len(path[n]) \in Nat /\ Len(path[f]) \in Nat /\ Len(path[m]) \in Nat
      /\ 0 \in NodeIds
  BY <1>1, NodeTyped
<1>3. /\ Append(path[n], tok) \in Seq(Token) /\ Append(path[f], tok) \in Seq(Token)
      /\ tok # 0
  BY <1>2 DEF Token
<1>4. /\ EndsWith(Append(path[f], tok), path[m])
      /\ \A s \in Nodes(TokenPats) : EndsWith(Append(path[f], tok), s) => Len(s) <= Len(path[m])
  BY <1>3 DEF IsAdvance
<1>5. EndsWith(Append(path[n], tok), Append(path[f], tok))
  BY <1>1, <1>2, EndsAppend
<1>6. EndsWith(Append(path[n], tok), path[m])
  BY <1>2, <1>3, <1>4, <1>5, EndsTrans
<1>7. ASSUME NEW s \in Nodes(TokenPats), EndsWith(Append(path[n], tok), s)
      PROVE  Len(s) <= Len(path[m])
  <2>1. PICK x \in NodeIds : s = path[x]
    BY DEF Whole
  <2>2. CASE x = 0
    <3>1. Len(s) = 0
      BY <2>1, <2>2 DEF IsTrie
    <3> QED BY <1>2, <3>1
  <2>3. CASE x # 0
    <3>1. PICK p \in NodeIds :
             /\ tok \in Edges(p) /\ path[x] = Append(path[p], tok)
             /\ EndsWith(path[n], path[p])
      BY <1>7, <2>1, <2>3, SuffixParent
    <3>2. path[p] \in Seq(Token) /\ Len(path[p]) \in Nat /\ Len(path[p]) <= Len(path[n])
      BY <3>1, NodeTyped DEF EndsWith
    <3>3. Len(path[p]) # Len(path[n])
      <4> SUFFICES ASSUME Len(path[p]) = Len(path[n]) PROVE FALSE
        OBVIOUS
      <4>1. path[p] = path[n]
        BY <1>2, <3>1, <3>2, EndsSelf
      <4>2. p = n
        BY <4>1 DEF IsTrie
      <4> QED BY <3>1, <4>2
    <3>4. Len(path[p]) <= Len(path[f])
      BY <1>1, <1>2, <3>1, <3>2, <3>3 DEF IsSuffix
    <3>5. EndsWith(path[f], path[p])
      BY <1>1, <1>2, <3>1, <3>2, <3>4, EndsShorter
    <3>6. EndsWith(Append(path[f], tok), Append(path[p], tok))
      BY <1>2, <3>2, <3>5, EndsAppend
    <3> QED BY <1>4, <2>1, <3>1, <3>6
  <2> QED BY <2>2, <2>3
<1> QED BY <1>3, <1>6, <1>7 DEF IsAdvance

\* Of all the nodes that end a text there is one longest.
LEMMA AdvanceExists ==
  ASSUME NEW path, IsTrie(path), Whole(path), NEW n \in NodeIds, NEW tok \in Token
  PROVE  \E m \in NodeIds : IsAdvance(TokenPats, path[n], tok, path[m])
<1> DEFINE t == Append(path[n], tok)
           Ends == {m \in NodeIds : EndsWith(t, path[m])}
           Gaps == {Len(t) - Len(path[m]) : m \in Ends}
<1>1. /\ path[n] \in Seq(Token) /\ t \in Seq(Token) /\ Len(t) \in Nat
      /\ path[0] = <<>> /\ 0 \in NodeIds
  <2>1. path[n] \in Seq(Token) /\ 0 \in NodeIds
    BY NodeTyped
  <2>2. path[0] = <<>>
    BY DEF IsTrie
  <2> QED BY <2>1, <2>2
<1> HIDE DEF t
<1>2. 0 \in Ends
  BY <1>1, EndsSelf
<1>3. ASSUME NEW m \in Ends
      PROVE  m \in NodeIds /\ EndsWith(t, path[m]) /\ Len(path[m]) \in Nat /\ Len(t) - Len(path[m]) \in Nat
  <2>1. m \in NodeIds /\ EndsWith(t, path[m]) /\ Len(path[m]) <= Len(t)
    BY DEF EndsWith
  <2>2. Len(path[m]) \in Nat
    BY <2>1, NodeTyped
  <2> QED BY <1>1, <2>1, <2>2
<1>4. Gaps \in SUBSET Nat /\ Gaps # {}
  BY <1>2, <1>3
<1>5. PICK g \in Gaps : \A h \in Gaps : g <= h
  <2> HIDE DEF Gaps
  <2> QED BY <1>4, Least
<1>6. PICK m \in Ends : g = Len(t) - Len(path[m])
  OBVIOUS
<1>7. ASSUME NEW s \in Nodes(TokenPats), EndsWith(t, s) PROVE Len(s) <= Len(path[m])
  <2>1. PICK x \in NodeIds : s = path[x]
    BY DEF Whole
  <2>2. x \in Ends
    BY <1>7, <2>1
  <2>3. g <= Len(t) - Len(path[x])
    BY <1>5, <2>2
  <2> HIDE DEF Ends, Gaps
  <2> QED BY <1>1, <1>3, <1>6, <2>1, <2>2, <2>3
<1>8. tok # 0
  BY DEF Token
<1>9. m \in NodeIds /\ EndsWith(t, path[m])
  OBVIOUS
<1> HIDE DEF Ends, Gaps
<1> QED BY <1>7, <1>8, <1>9 DEF IsAdvance, t

LEMMA AdvanceIsOne ==
  ASSUME NEW path, IsTrie(path), Whole(path), NEW n \in NodeIds, NEW tok \in Token,
         NEW a \in NodeIds, IsAdvance(TokenPats, path[n], tok, path[a]),
         NEW b \in NodeIds, IsAdvance(TokenPats, path[n], tok, path[b])
  PROVE  a = b
<1>1. /\ path[n] \in Seq(Token) /\ path[a] \in Seq(Token) /\ path[b] \in Seq(Token)
      /\ Len(path[a]) \in Nat /\ Len(path[b]) \in Nat /\ tok # 0
  BY NodeTyped DEF Token
<1>2. Append(path[n], tok) \in Seq(Token)
  BY <1>1
<1>3. path[a] \in Nodes(TokenPats) /\ path[b] \in Nodes(TokenPats)
  BY DEF Whole
<1>4. /\ EndsWith(Append(path[n], tok), path[a]) /\ EndsWith(Append(path[n], tok), path[b])
      /\ Len(path[a]) <= Len(path[b]) /\ Len(path[b]) <= Len(path[a])
  BY <1>1, <1>3 DEF IsAdvance
<1>5. Len(path[a]) = Len(path[b])
  BY <1>1, <1>4
<1>6. path[a] = path[b]
  BY <1>1, <1>2, <1>4, <1>5, EndsSame
<1> QED BY <1>6 DEF IsTrie

-----------------------------------------------------------------------------
LEMMA QueueTyped ==
  ASSUME NEW path, IsTrie(path), BreadthFirst(path)
  PROVE  /\ Len(queue) \in Nat /\ head \in Nat /\ head <= Len(queue)
         /\ \A i \in 0..Len(queue) : Q(i) \in NodeIds
         /\ Q(0) = 0 /\ Queued(0)
         /\ \A i \in 1..Len(queue) : Q(i) # 0
<1>1. queue \in Seq(NodeIds \ {0}) /\ head \in 0..Len(queue) /\ 0 \in NodeIds
  BY DEF BreadthFirst, IsTrie, Token
<1>2. Len(queue) \in Nat /\ \A i \in 1..Len(queue) : queue[i] \in NodeIds \ {0}
  BY <1>1
<1>3. Q(0) = 0
  BY DEF Q
<1>4. Queued(0)
  BY <1>2, <1>3 DEF Queued
<1> QED BY <1>1, <1>2, <1>3, <1>4 DEF Q

(***************************************************************************)
(* The queue grows by a child of the present node, of the frontier's next  *)
(* depth, whose own children are not queued yet.                           *)
(***************************************************************************)
LEMMA QueueGrows ==
  ASSUME NEW path, IsTrie(path), BreadthFirst(path), NEW open, FrontierAt(path, open),
         NEW tok \in open, tok \in Edges(Q(head)),
         NEW c, c = nodes[Q(head)].edges[tok],
         queue' = Append(queue, c), head' = head,
         NodeIds' = NodeIds, \A n \in NodeIds : nodes'[n].edges = nodes[n].edges
  PROVE  /\ BreadthFirst(path)'
         /\ FrontierAt(path, open \ {tok})'
         /\ c \in NodeIds \ {0} /\ ~Queued(c)
         /\ \A i \in 0..Len(queue) : Q(i)' = Q(i)
         /\ Q(head)' = Q(head)
         /\ \A n : Queued(n)' <=> Queued(n) \/ n = c
<1> DEFINE len == Len(queue)
<1>1. /\ len \in Nat /\ head \in 0..len /\ Q(0) = 0
      /\ \A i \in 0..len : Q(i) \in NodeIds
      /\ \A i \in 1..len : Q(i) # 0
      /\ \A i \in 0..len : Len(path[Q(i)]) \in Nat
      /\ queue \in Seq(NodeIds \ {0})
  <2>1. queue \in Seq(NodeIds \ {0})
    BY DEF BreadthFirst
  <2> QED BY <2>1, QueueTyped, NodeTyped
<1>2. Q(head) \in NodeIds
  BY <1>1
<1>3. /\ c \in NodeIds \ {0}
      /\ Len(path[c]) = Len(path[Q(head)]) + 1
      /\ \A p \in NodeIds : \A u \in Edges(p) : nodes[p].edges[u] = c => p = Q(head) /\ u = tok
  BY <1>2, ChildIs
<1>4. ~Queued(c)
  BY <1>1 DEF FrontierAt
<1>5. queue' \in Seq(NodeIds \ {0}) /\ Len(queue') = len + 1
      /\ \A i \in 1..len : queue'[i] = queue[i]
      /\ queue'[len + 1] = c
  BY <1>1, <1>3
<1>6. /\ \A i \in 0..len : Q(i)' = Q(i)
      /\ \A i \in 0..(len + 1) : i \notin 0..len => i = len + 1
  BY <1>1, <1>5 DEF Q
<1>7. ASSUME NEW i, i = len + 1 PROVE Q(i)' = c
  BY <1>1, <1>5, <1>7 DEF Q
<1>8. Q(head)' = Q(head)
  BY <1>1, <1>6
<1>9. \A n : Queued(n)' <=> Queued(n) \/ n = c
  <2> TAKE n
  <2>1. Queued(n)' <=> \E i \in 0..(len + 1) : Q(i)' = n
    BY <1>5 DEF Queued
  <2>2. PICK last \in 0..(len + 1) : last = len + 1
    BY <1>1
  <2>3. Q(last)' = c
    BY <1>7, <2>2
  <2>4. \A i \in 0..len : i \in 0..(len + 1)
    BY <1>1
  <2> QED BY <1>6, <2>1, <2>2, <2>3, <2>4 DEF Queued
<1>10. BreadthFirst(path)'
  <2>1. head' \in 0..Len(queue')
    BY <1>1, <1>5
  <2>2. ASSUME NEW i \in 0..(len + 1), NEW j \in 0..(len + 1), Q(i)' = Q(j)' PROVE i = j
    <3>1. CASE i \in 0..len /\ j \in 0..len
      BY <1>6, <2>2, <3>1 DEF BreadthFirst
    <3>2. CASE i = len + 1 /\ j \in 0..len
      BY <1>4, <1>6, <1>7, <2>2, <3>2 DEF Queued
    <3>3. CASE i \in 0..len /\ j = len + 1
      BY <1>4, <1>6, <1>7, <2>2, <3>3 DEF Queued
    <3> QED BY <1>6, <3>1, <3>2, <3>3
  <2>3. ASSUME NEW i \in 0..(len + 1), NEW j \in 0..(len + 1), i <= j
        PROVE  Len(path[Q(i)']) <= Len(path[Q(j)'])
    <3>1. CASE i \in 0..len /\ j \in 0..len
      BY <1>6, <2>3, <3>1 DEF BreadthFirst
    <3>2. CASE i \in 0..len /\ j = len + 1
      <4>1. Len(path[Q(i)]) <= Len(path[Q(head)]) + 1
        BY <3>2 DEF FrontierAt
      <4> QED BY <1>3, <1>6, <1>7, <3>2, <4>1
    <3>3. CASE i = len + 1
      <4>1. j = len + 1
        BY <1>1, <2>3, <3>3
      <4>2. Q(i)' = c /\ Q(j)' = c
        BY <1>7, <3>3, <4>1
      <4> QED BY <1>1, <1>2, <1>3, <4>2
    <3> QED BY <1>6, <3>1, <3>2, <3>3
  <2> QED BY <1>5, <2>1, <2>2, <2>3 DEF BreadthFirst
<1>11. \A n \in NodeIds : Edges(n)' = Edges(n)
  BY DEF Edges
<1>12. ASSUME NEW i \in 0..(len + 1) PROVE Len(path[Q(i)']) <= Len(path[Q(head)']) + 1
  <2>1. CASE i \in 0..len
    BY <1>6, <1>8, <2>1 DEF FrontierAt
  <2>2. CASE i = len + 1
    BY <1>1, <1>2, <1>3, <1>7, <1>8, <2>2
  <2> QED BY <1>6, <2>1, <2>2
<1>13. ASSUME NEW i \in 0..(len + 1), NEW n, n = Q(i)', NEW t \in Edges(n),
              NEW d, d = nodes[n].edges[t]
       PROVE  Queued(d)' <=> i < head \/ (i = head /\ t \notin open \ {tok})
  <2>1. CASE i \in 0..len
    <3>1. n = Q(i) /\ n \in NodeIds
      BY <1>1, <1>6, <1>13, <2>1
    <3>2. Queued(d) <=> i < head \/ (i = head /\ t \notin open)
      BY <1>13, <2>1, <3>1 DEF FrontierAt
    <3>3. d = c <=> i = head /\ t = tok
      <4>1. d = c => n = Q(head) /\ t = tok
        BY <1>3, <1>13, <3>1
      <4>2. n = Q(head) => i = head
        BY <1>1, <2>1, <3>1 DEF BreadthFirst
      <4> QED BY <1>13, <3>1, <4>1, <4>2
    <3> QED BY <1>1, <1>9, <2>1, <3>2, <3>3
  <2>2. CASE i = len + 1
    <3>1. n = c
      BY <1>7, <1>13, <2>2
    <3>2. d # c /\ d # 0
      BY <1>3, <1>13, <3>1, ChildIs, NodeTyped
    <3>3. ~Queued(d)
      <4> SUFFICES ASSUME Queued(d) PROVE FALSE
        OBVIOUS
      <4>1. PICK j \in 0..len : Q(j) = d
        BY DEF Queued
      <4>2. j \in 1..len
        BY <1>1, <3>2, <4>1
      <4>3. PICK k \in 0..head : \E u \in Edges(Q(k)) : nodes[Q(k)].edges[u] = Q(j)
        BY <4>2 DEF FrontierAt
      <4>4. k \in 0..len /\ Q(k) \in NodeIds
        BY <1>1
      <4>5. \A p \in NodeIds : \A u \in Edges(p) : nodes[p].edges[u] = d => p = n
        BY <1>3, <1>13, <3>1, ChildIs
      <4>6. Q(k) = n
        BY <4>1, <4>3, <4>4, <4>5
      <4> QED BY <1>4, <3>1, <4>4, <4>6 DEF Queued
    <3> QED BY <1>1, <1>9, <2>2, <3>2, <3>3
  <2> QED BY <1>6, <2>1, <2>2
<1>14. ASSUME NEW j \in 1..(len + 1)
       PROVE  \E i \in 0..head : \E t \in Edges(Q(i)) : nodes[Q(i)].edges[t] = Q(j)'
  <2>1. CASE j \in 1..len
    <3>1. j \in 0..len
      BY <2>1
    <3> QED BY <1>6, <2>1, <3>1 DEF FrontierAt
  <2>2. CASE j = len + 1
    <3>1. Q(j)' = c /\ head \in 0..head
      BY <1>1, <1>7, <2>2
    <3> QED BY <3>1
  <2> QED BY <1>1, <2>1, <2>2
<1>15. FrontierAt(path, open \ {tok})'
  <2>1. \A i \in 0..(len + 1) : Q(i)' \in NodeIds
    BY <1>1, <1>3, <1>6, <1>7
  <2>2. ASSUME NEW i \in 0..(len + 1), NEW t \in Edges(Q(i))'
        PROVE  (Queued(nodes[Q(i)].edges[t]))' <=> i < head' \/ (i = head' /\ t \notin open \ {tok})
    <3>1. PICK n : n = Q(i)'
      OBVIOUS
    <3>2. n \in NodeIds /\ t \in Edges(n) /\ nodes'[n].edges = nodes[n].edges
      BY <1>11, <2>1, <3>1 DEF Edges
    <3>3. PICK d : d = nodes[n].edges[t]
      OBVIOUS
    <3>4. Queued(d)' <=> i < head \/ (i = head /\ t \notin open \ {tok})
      BY <1>13, <3>1, <3>2, <3>3
    <3>5. d = nodes'[Q(i)'].edges[t]
      BY <3>1, <3>2, <3>3
    <3> QED BY <3>4, <3>5 DEF Queued
  <2>3. ASSUME NEW j \in 1..(len + 1)
        PROVE  \E i \in 0..head' : \E t \in Edges(Q(i))' : nodes'[Q(i)'].edges[t] = Q(j)'
    <3>1. PICK i \in 0..head : \E t \in Edges(Q(i)) : nodes[Q(i)].edges[t] = Q(j)'
      BY <1>14
    <3>2. i \in 0..len /\ Q(i)' = Q(i) /\ Q(i) \in NodeIds
      BY <1>1, <1>6
    <3>3. Edges(Q(i))' = Edges(Q(i)) /\ nodes'[Q(i)'].edges = nodes[Q(i)].edges
      BY <3>2 DEF Edges
    <3> QED BY <3>1, <3>3
  <2> QED BY <1>5, <1>12, <2>2, <2>3 DEF FrontierAt
<1> QED BY <1>3, <1>4, <1>6, <1>8, <1>9, <1>10, <1>15

-----------------------------------------------------------------------------
(***************************************************************************)
(* What the steps of finish leave alone: the arguments, the letters'       *)
(* tokens, the limits and the tree.                                        *)
(***************************************************************************)
LEMMA FinishFrame ==
  ASSUME Typed, Limits, NEW path, IsTrie(path), HoldsPrefixes(path),
         patternID \notin DOMAIN patterns, UNCHANGED <<args, fields, inserting>>,
         phase' \in Phases \ {"insert"},
         nodes' \in [NodeIds -> Node], \A n \in NodeIds : nodes'[n].edges = nodes[n].edges
  PROVE  /\ Typed' /\ Limits' /\ IsTrie(path)' /\ HoldsPrefixes(path)'
         /\ NodeIds' = NodeIds /\ TokenPats' = TokenPats
         /\ \A n \in NodeIds : Edges(n)' = Edges(n)
         /\ \A n, out : IsOwn(path, n, out)' <=> IsOwn(path, n, out)
         /\ \A n, m : IsLink(path, n, m)' <=> IsLink(path, n, m)
<1>1. UNCHANGED <<patterns, exact, tokenOf, nextToken, empty, maxUnits, maxBytes,
                  patternID, at, state, bytes>>
  BY DEF args, fields, inserting
<1>2. IsTrie(path)' /\ NodeIds' = NodeIds /\ \A n \in NodeIds : Edges(n)' = Edges(n)
  BY <1>1, SameTree
<1>3. Typed'
  <2>1. TokensAreOrbits'
    <3>1. TokensAreOrbits
      BY DEF Typed
    <3>2. \A x : Members(x)' = Members(x)
      BY <1>1 DEF Members
    <3> QED BY <1>1, <3>1, <3>2 DEF TokensAreOrbits
  <2> QED BY <1>1, <2>1 DEF Typed
<1>4. \A id : Done(id)' <=> Done(id)
  BY <1>1 DEF Done
<1>5. Limits'
  <2>1. \A id, k, most : Bounds(id, k, most)' <=> Bounds(id, k, most)
    BY <1>1 DEF Bounds, Members
  <2>2. /\ \A id : Bounds(id, Len(patterns[id]), maxBytes)'
                     <=> Bounds(id, Len(patterns[id]), maxBytes)
        /\ Bounds(patternID, at, bytes)' <=> Bounds(patternID, at, bytes)
    BY <1>1 DEF Bounds, Members
  <2> QED BY <1>1, <1>4, <2>2 DEF Limits, Done
<1>6. HoldsPrefixes(path)'
  <2>1. \A id, k : Prefix(id, k)' = Prefix(id, k)
    BY <1>1 DEF Prefix
  <2>2. Prefix(patternID, at)' = Prefix(patternID, at)
    BY <1>1 DEF Prefix
  <2>3. \A id : Read(id)' = Read(id)
    BY <1>1 DEF Read
  <2> QED BY <1>1, <1>2, <2>1, <2>2, <2>3 DEF HoldsPrefixes
<1>7. TokenPats' = TokenPats
  BY <1>1 DEF TokenPats
<1>8. \A id, n : Leads(path, id, n)' <=> Leads(path, id, n)
  BY <1>1, <1>4 DEF Leads, Prefix
<1>9. \A n, out : IsOwn(path, n, out)' <=> IsOwn(path, n, out)
  BY <1>1, <1>8 DEF IsOwn
<1>10. \A n, m : IsLink(path, n, m)' <=> IsLink(path, n, m)
  BY <1>2 DEF IsLink, IsSuffix
<1> QED BY <1>2, <1>3, <1>5, <1>6, <1>7, <1>9, <1>10

Core(path) ==
  /\ IsTrie(path) /\ HoldsPrefixes(path) /\ BreadthFirst(path) /\ Links(path)
  /\ patternID \notin DOMAIN patterns

\* Nor does a step that links nothing change the links or the queue.
LEMMA SameLinks ==
  ASSUME Typed, Limits, NEW path, Core(path),
         UNCHANGED <<args, fields, inserting, nodes, queue>>,
         phase' \in Phases \ {"insert"}, head' \in 0..Len(queue)
  PROVE  /\ Typed' /\ Limits' /\ Core(path)'
         /\ NodeIds' = NodeIds /\ TokenPats' = TokenPats
         /\ \A n : Edges(n)' = Edges(n)
         /\ \A i : Q(i)' = Q(i)
         /\ \A n : Queued(n)' <=> Queued(n)
<1>1. UNCHANGED <<patterns, patternID, nodes, queue>>
  BY DEF args, inserting
<1>2. /\ IsTrie(path) /\ HoldsPrefixes(path) /\ BreadthFirst(path) /\ Links(path)
      /\ patternID \notin DOMAIN patterns
  BY DEF Core
<1>3. nodes' \in [NodeIds -> Node] /\ \A n \in NodeIds : nodes'[n].edges = nodes[n].edges
  BY <1>1, <1>2 DEF IsTrie
<1>4. /\ Typed' /\ Limits' /\ IsTrie(path)' /\ HoldsPrefixes(path)'
      /\ NodeIds' = NodeIds /\ TokenPats' = TokenPats
      /\ \A n, out : IsOwn(path, n, out)' <=> IsOwn(path, n, out)
      /\ \A n, m : IsLink(path, n, m)' <=> IsLink(path, n, m)
  BY <1>2, <1>3, FinishFrame
<1>5. \A n : Edges(n)' = Edges(n)
  BY <1>1 DEF Edges
<1>6. \A i : Q(i)' = Q(i)
  BY <1>1 DEF Q
<1>7. \A n : Queued(n)' <=> Queued(n)
  BY <1>1, <1>6 DEF Queued
<1>8. BreadthFirst(path)'
  BY <1>1, <1>2, <1>4, <1>6 DEF BreadthFirst
<1>9. Links(path)'
  <2>1. ASSUME NEW n \in NodeIds
        PROVE  /\ IsLink(path, n, nodes[n].failure)' <=> IsLink(path, n, nodes[n].failure)
               /\ Queued(nodes[n].failure)' <=> Queued(nodes[n].failure)
               /\ IsOwn(path, n, nodes[n].output)' <=> IsOwn(path, n, nodes[n].output)
    <3>1. PICK f, out : f = nodes[n].failure /\ out = nodes[n].output
      OBVIOUS
    <3>2. f = nodes'[n].failure /\ out = nodes'[n].output
      BY <1>1, <3>1
    <3>3. IsLink(path, n, nodes[n].failure)' <=> IsLink(path, n, f)'
      BY <3>2 DEF IsLink, IsSuffix
    <3>4. Queued(nodes[n].failure)' <=> Queued(f)'
      BY <3>2 DEF Queued
    <3>5. IsOwn(path, n, nodes[n].output)' <=> IsOwn(path, n, out)'
      BY <3>2 DEF IsOwn
    <3> QED BY <1>4, <1>7, <3>1, <3>3, <3>4, <3>5
  <2> QED BY <1>1, <1>2, <1>4, <1>7, <2>1 DEF Links
<1> QED BY <1>1, <1>2, <1>4, <1>5, <1>6, <1>7, <1>8, <1>9 DEF Core

\* The invariant of the search for links and of what follows it.
LEMMA CoreOfHolds ==
  ASSUME Typed, NEW path, Holds(path), phase # "insert"
  PROVE  Core(path) /\ Whole(path)
<1>1. Core(path)
  BY DEF Holds, Core, Typed
<1> QED BY <1>1, TrieIsWhole DEF Core

LEMMA BeginFinishKeeps ==
  ASSUME IInv, BeginFinish
  PROVE  IInv'
<1>1. Typed /\ Limits
  BY DEF IInv
<1>2. PICK path : Holds(path)
  BY DEF IInv
<1>3. /\ phase = "insert" /\ patternID \notin DOMAIN patterns
      /\ phase' = "enqueue" /\ todo' = Edges(0)
      /\ UNCHANGED <<args, fields, nodes, dense, inserting, queue, head>>
  BY DEF BeginFinish
<1>4. IsTrie(path) /\ HoldsPrefixes(path) /\ Fresh(path)
  BY <1>2, <1>3 DEF Holds
<1>5. /\ queue = <<>> /\ head = 0 /\ dense = NoTable /\ Len(queue) = 0
      /\ \A n \in NodeIds : nodes[n].failure = 0 /\ IsOwn(path, n, nodes[n].output)
  BY <1>4 DEF Fresh
<1>6. 0..Len(queue) = {0} /\ 1..Len(queue) = {} /\ Q(0) = 0
  BY <1>5 DEF Q
<1>7. \A n : Queued(n) <=> n = 0
  BY <1>6 DEF Queued
<1>8. 0 \in NodeIds /\ path[0] = <<>>
  BY <1>4 DEF IsTrie, Token
<1>9. BreadthFirst(path)
  <2>1. queue \in Seq(NodeIds \ {0})
    BY <1>5
  <2>2. Len(path[Q(0)]) \in Nat /\ Len(path[Q(0)]) <= Len(path[Q(0)])
    BY <1>4, <1>6, <1>8, NodeTyped
  <2> QED BY <1>5, <1>6, <2>1, <2>2 DEF BreadthFirst
<1>10. Links(path)
  <2>1. IsOutput(TokenPats, path[0], nodes[0].output)
    BY <1>1, <1>3, <1>4, <1>5, <1>8, TrieIsWhole, RootOutput
  <2> QED BY <1>5, <1>7, <2>1 DEF Links
<1>11. Core(path)
  BY <1>3, <1>4, <1>9, <1>10 DEF Core
<1>12. /\ Typed' /\ Limits' /\ Core(path)'
       /\ \A i : Q(i)' = Q(i)
       /\ \A n : Edges(n)' = Edges(n)
       /\ \A n : Queued(n)' <=> Queued(n)
  <2>1. phase' \in Phases \ {"insert"} /\ head' \in 0..Len(queue)
    BY <1>3, <1>5 DEF Phases
  <2> QED BY <1>1, <1>3, <1>11, <2>1, SameLinks
<1>13. FrontierAt(path, Edges(0))'
  <2>1. Len(path[0]) \in Nat
    BY <1>4, <1>8, NodeTyped
  <2>2. ASSUME NEW tok \in Edges(0) PROVE ~Queued(nodes[0].edges[tok])'
    <3>1. nodes[0].edges[tok] # 0
      BY <1>4, <1>8, ChildIs
    <3> QED BY <1>3, <1>7, <1>12, <3>1 DEF Queued
  <2>3. queue' = queue /\ head' = 0 /\ nodes' = nodes
    BY <1>3, <1>5
  <2> QED BY <1>5, <1>6, <1>12, <2>1, <2>2, <2>3 DEF FrontierAt
<1>14. Frontier(path)'
  <2>1. Open' = Edges(0)' /\ dense' = NoTable /\ head' = 0 /\ Q(head)' = 0
    <3>1. Open' = Edges(0)'
      BY <1>3, <1>12 DEF Open
    <3> QED BY <1>3, <1>5, <1>6, <1>12, <3>1 DEF Q
  <2>2. todo' = Edges(0)'
    BY <1>3, <1>12
  <2>3. FrontierAt(path, Open)'
    BY <1>13, <2>1 DEF FrontierAt
  <2> QED BY <1>3, <2>1, <2>2, <2>3 DEF Frontier
<1>15. Holds(path)'
  BY <1>3, <1>12, <1>14 DEF Holds, Core, Searching
<1> QED BY <1>12, <1>15 DEF IInv

\* One more node is linked, and queued.
LEMMA LinksGrow ==
  ASSUME Typed, Limits, NEW path, Core(path), UNCHANGED <<args, fields, inserting>>,
         phase' \in Phases \ {"insert"},
         nodes' \in [NodeIds -> Node], \A n \in NodeIds : nodes'[n].edges = nodes[n].edges,
         NEW c \in NodeIds \ {0}, \A n \in NodeIds \ {c} : nodes'[n] = nodes[n],
         \A n : Queued(n)' <=> Queued(n) \/ n = c,
         NEW f, f = nodes'[c].failure, IsLink(path, c, f), Queued(f),
         NEW out, out = nodes'[c].output, IsOutput(TokenPats, path[c], out)
  PROVE  Links(path)'
<1>1. IsTrie(path) /\ HoldsPrefixes(path) /\ Links(path) /\ patternID \notin DOMAIN patterns
  BY DEF Core
<1>2. /\ NodeIds' = NodeIds /\ TokenPats' = TokenPats
      /\ \A n, own : IsOwn(path, n, own)' <=> IsOwn(path, n, own)
      /\ \A n, m : IsLink(path, n, m)' <=> IsLink(path, n, m)
  BY <1>1, FinishFrame
<1>3. ASSUME NEW n \in NodeIds \ {0}, Queued(n)'
      PROVE  IsLink(path, n, nodes[n].failure)' /\ Queued(nodes[n].failure)'
  <2>1. PICK g : g = nodes'[n].failure
    OBVIOUS
  <2>2. IsLink(path, n, g) /\ Queued(g)
    <3>1. CASE n = c
      BY <2>1, <3>1
    <3>2. CASE n # c
      BY <1>1, <1>3, <2>1, <3>2 DEF Links
    <3> QED BY <3>1, <3>2
  <2>3. IsLink(path, n, g)' /\ Queued(g)'
    BY <1>2, <2>2
  <2> QED BY <2>1, <2>3 DEF IsLink, IsSuffix, Queued
<1>4. ASSUME NEW n \in NodeIds, Queued(n)'
      PROVE  IsOutput(TokenPats, path[n], nodes'[n].output)
  <2>1. CASE n = c
    BY <2>1
  <2>2. CASE n # c
    BY <1>1, <1>4, <2>2 DEF Links
  <2> QED BY <2>1, <2>2
<1>5. ASSUME NEW n \in NodeIds, ~Queued(n)'
      PROVE  nodes'[n].failure = 0 /\ IsOwn(path, n, nodes[n].output)'
  <2>1. n # c /\ ~Queued(n) /\ nodes'[n] = nodes[n]
    BY <1>5
  <2>2. nodes[n].failure = 0 /\ IsOwn(path, n, nodes[n].output)
    BY <1>1, <2>1 DEF Links
  <2>3. PICK own : own = nodes[n].output
    OBVIOUS
  <2>4. IsOwn(path, n, own)'
    BY <1>2, <2>2, <2>3
  <2> QED BY <2>1, <2>2, <2>3, <2>4 DEF IsOwn
<1> QED BY <1>2, <1>3, <1>4, <1>5 DEF Links

LEMMA EnqueueRootChildKeeps ==
  ASSUME IInv, EnqueueRootChild
  PROVE  IInv'
<1>1. Typed /\ Limits
  BY DEF IInv
<1>2. PICK path : Holds(path)
  BY DEF IInv
<1>3. /\ phase = "enqueue" /\ phase' = "enqueue"
      /\ UNCHANGED <<args, fields, nodes, dense, inserting, head>>
  BY DEF EnqueueRootChild
<1>4. PICK tok \in todo : /\ queue' = Append(queue, nodes[0].edges[tok])
                          /\ todo' = todo \ {tok}
  BY DEF EnqueueRootChild
<1>5. Core(path) /\ Whole(path) /\ Frontier(path)
  BY <1>1, <1>2, <1>3, CoreOfHolds DEF Holds, Searching
<1>6. IsTrie(path) /\ HoldsPrefixes(path) /\ BreadthFirst(path) /\ Links(path)
      /\ patternID \notin DOMAIN patterns
  BY <1>5 DEF Core
<1>7. head = 0 /\ Q(head) = 0 /\ Open = todo /\ todo \subseteq Edges(0) /\ dense = NoTable
      /\ FrontierAt(path, todo)
  BY <1>3, <1>5 DEF Frontier, Q, Open
<1>8. PICK c, open : c = nodes[0].edges[tok] /\ open = todo
  OBVIOUS
<1>9. nodes' \in [NodeIds -> Node] /\ NodeIds' = NodeIds
      /\ \A n \in NodeIds : nodes'[n].edges = nodes[n].edges
  BY <1>3, <1>6 DEF IsTrie, NodeIds
<1>10. /\ BreadthFirst(path)' /\ FrontierAt(path, open \ {tok})'
       /\ c \in NodeIds \ {0} /\ ~Queued(c)
       /\ Q(head)' = Q(head)
       /\ \A n : Queued(n)' <=> Queued(n) \/ n = c
  <2>1. tok \in Edges(Q(head)) /\ c = nodes[Q(head)].edges[tok] /\ queue' = Append(queue, c)
        /\ FrontierAt(path, open) /\ tok \in open
    BY <1>4, <1>7, <1>8
  <2>2. head' = head /\ IsTrie(path) /\ BreadthFirst(path)
    BY <1>3, <1>6
  <2> QED BY <1>9, <2>1, <2>2, QueueGrows
<1>11. phase' \in Phases \ {"insert"}
  BY <1>3 DEF Phases
<1>12. /\ Typed' /\ Limits' /\ IsTrie(path)' /\ HoldsPrefixes(path)'
       /\ \A n \in NodeIds : Edges(n)' = Edges(n)
  BY <1>1, <1>3, <1>6, <1>9, <1>11, FinishFrame
<1>13. Links(path)'
  <2>1. IsLink(path, c, 0) /\ Queued(0)
    BY <1>6, <1>7, <1>8, RootChildLink, QueueTyped
  <2>2. nodes[c].failure = 0 /\ IsOwn(path, c, nodes[c].output)
    BY <1>6, <1>10 DEF Links
  <2>3. IsOutput(TokenPats, path[c], nodes[c].output)
    <3>1. 0 \in NodeIds /\ path[0] = <<>>
      BY <1>6 DEF IsTrie, Token
    <3>2. IsOutput(TokenPats, path[0], NoOutput)
      <4>1. ASSUME NEW id \in Ids(TokenPats) PROVE ~EndsHere(TokenPats, path[0], id)
        <5>1. TokenPats[id] \in Seq(Token)
          BY <1>5 DEF Whole
        <5> QED BY <3>1, <5>1 DEF EndsHere, EndsWith
      <4> QED BY <4>1 DEF IsOutput
    <3>3. ~PreferOutput(NoOutput, nodes[c].output)
      BY DEF PreferOutput, NoOutput
    <3> QED BY <1>5, <1>6, <1>10, <2>1, <2>2, <3>2, <3>3, OutputByLink
  <2>4. /\ \A n \in NodeIds \ {c} : nodes'[n] = nodes[n]
        /\ 0 = nodes'[c].failure /\ nodes[c].output = nodes'[c].output
    BY <1>3, <2>2
  <2> QED BY <1>1, <1>3, <1>5, <1>9, <1>10, <1>11, <2>1, <2>3, <2>4, LinksGrow
<1>14. Frontier(path)'
  <2>1. Open' = todo'
    BY <1>3 DEF Open
  <2>2. FrontierAt(path, Open)'
    BY <1>4, <1>8, <1>10, <2>1 DEF FrontierAt
  <2>3. todo' \subseteq Edges(Q(head))'
    <3>1. Q(head)' = 0 /\ 0 \in NodeIds
      BY <1>6, <1>7, <1>10, QueueTyped
    <3>2. Edges(Q(head))' = Edges(0)
      BY <1>12, <3>1 DEF Edges
    <3> QED BY <1>4, <1>7, <3>2
  <2> QED BY <1>3, <1>7, <2>2, <2>3 DEF Frontier
<1>15. Holds(path)'
  BY <1>3, <1>10, <1>12, <1>13, <1>14 DEF Holds, Searching
<1> QED BY <1>12, <1>15 DEF IInv

LEMMA PickChildKeeps ==
  ASSUME IInv, PickChild
  PROVE  IInv'
<1>1. Typed /\ Limits
  BY DEF IInv
<1>2. PICK path : Holds(path)
  BY DEF IInv
<1>3. /\ phase = "link" /\ phase' = "fall"
      /\ token' \in todo /\ todo' = todo \ {token'}
      /\ failure' = nodes[queue[head]].failure
      /\ UNCHANGED <<args, fields, nodes, dense, inserting, queue, head>>
  BY DEF PickChild
<1>4. Core(path) /\ Whole(path) /\ Frontier(path)
  BY <1>1, <1>2, <1>3, CoreOfHolds DEF Holds, Searching
<1>5. IsTrie(path) /\ BreadthFirst(path) /\ Links(path)
  BY <1>4 DEF Core
<1>6. /\ Typed' /\ Limits' /\ Core(path)'
      /\ NodeIds' = NodeIds
      /\ \A n : Edges(n)' = Edges(n)
      /\ \A i : Q(i)' = Q(i)
      /\ \A n : Queued(n)' <=> Queued(n)
  <2>1. phase' \in Phases \ {"insert"} /\ head' \in 0..Len(queue)
    BY <1>3, <1>5 DEF Phases, BreadthFirst
  <2> QED BY <1>1, <1>3, <1>4, <2>1, SameLinks
<1>7. /\ head > 0 /\ Open = todo /\ todo \subseteq Edges(Q(head)) /\ dense = NoTable
      /\ FrontierAt(path, todo)
  BY <1>3, <1>4 DEF Frontier, Open
<1>8. head \in 1..Len(queue) /\ Q(head) \in NodeIds \ {0} /\ Q(head) = queue[head] /\ Queued(Q(head))
  <2>1. head \in 1..Len(queue)
    BY <1>5, <1>7, QueueTyped
  <2>2. head \in 0..Len(queue)
    BY <2>1
  <2> QED BY <1>5, <2>1, <2>2, QueueTyped DEF Q, Queued
<1>9. Q(head)' = Q(head)
  BY <1>3 DEF Q
<1>10. Open' = todo
  <2>1. Open' = (todo \ {token'}) \cup {token'}
    BY <1>3 DEF Open
  <2> QED BY <1>3, <2>1
<1>11. Frontier(path)'
  <2>1. FrontierAt(path, Open)'
    <3>1. PICK open : open = todo
      OBVIOUS
    <3>2. FrontierAt(path, open)
      BY <1>7, <3>1
    <3>3. FrontierAt(path, open)'
      <4>1. queue' = queue /\ head' = head /\ nodes' = nodes
        BY <1>3
      <4> QED BY <3>2, <4>1 DEF FrontierAt, Q, Queued, Edges
    <3> QED BY <1>10, <3>1, <3>3 DEF FrontierAt
  <2>2. Edges(Q(head))' = Edges(Q(head))
    BY <1>3, <1>9 DEF Edges
  <2> QED BY <1>3, <1>7, <2>1, <2>2 DEF Frontier
<1>12. Falls(path)'
  <2>1. failure' = nodes[Q(head)].failure
    BY <1>3, <1>8
  <2>2. IsLink(path, Q(head), failure') /\ Queued(failure')
    BY <1>5, <1>8, <2>1 DEF Links
  <2>3. PICK f, t : f = failure' /\ t = token'
    OBVIOUS
  <2>4. /\ f \in NodeIds /\ Queued(f) /\ IsSuffix(path, Q(head), f)
        /\ \A s \in NodeIds : IsSuffix(path, Q(head), s) => Len(path[s]) <= Len(path[f])
    BY <2>2, <2>3 DEF IsLink
  <2>5. Queued(failure)'
    BY <1>6, <2>3, <2>4 DEF Queued
  <2> QED BY <1>6, <1>9, <2>3, <2>4, <2>5 DEF Falls, IsSuffix
<1>13. Holds(path)'
  BY <1>3, <1>6, <1>11, <1>12 DEF Holds, Core, Searching
<1> QED BY <1>6, <1>13 DEF IInv

\* The next shorter suffix: no node with an edge for the token lies between.
LEMMA FallKeeps ==
  ASSUME IInv, Fall
  PROVE  IInv'
<1>1. Typed /\ Limits
  BY DEF IInv
<1>2. PICK path : Holds(path)
  BY DEF IInv
<1>3. /\ phase = "fall" /\ phase' = "fall"
      /\ failure # 0 /\ token \notin Edges(failure)
      /\ failure' = nodes[failure].failure
      /\ UNCHANGED <<args, fields, nodes, dense, inserting, queue, head, todo, token>>
  BY DEF Fall
<1>4. Core(path) /\ Frontier(path) /\ Falls(path)
  BY <1>1, <1>2, <1>3, CoreOfHolds DEF Holds, Searching
<1>5. IsTrie(path) /\ BreadthFirst(path) /\ Links(path)
  BY <1>4 DEF Core
<1>6. /\ Typed' /\ Limits' /\ Core(path)'
      /\ NodeIds' = NodeIds
      /\ \A n : Edges(n)' = Edges(n)
      /\ \A n : Queued(n)' <=> Queued(n)
  <2>1. phase' \in Phases \ {"insert"} /\ head' \in 0..Len(queue)
    BY <1>3, <1>5 DEF Phases, BreadthFirst
  <2> QED BY <1>1, <1>3, <1>4, <2>1, SameLinks
<1>7. Q(head)' = Q(head)
  BY <1>3 DEF Q
<1>8. Frontier(path)'
  <2>1. Open' = Open
    BY <1>3 DEF Open
  <2>2. FrontierAt(path, Open)'
    <3>1. queue' = queue /\ head' = head /\ nodes' = nodes /\ FrontierAt(path, Open)
      BY <1>3, <1>4 DEF Frontier
    <3> QED BY <2>1, <3>1 DEF FrontierAt, Q, Queued, Edges
  <2>3. Edges(Q(head))' = Edges(Q(head))
    BY <1>3, <1>7 DEF Edges
  <2> QED BY <1>3, <1>4, <2>2, <2>3 DEF Frontier
<1>9. /\ failure \in NodeIds \ {0} /\ Queued(failure) /\ IsSuffix(path, Q(head), failure)
      /\ \A s \in NodeIds : IsSuffix(path, Q(head), s) /\ token \in Edges(s) =>
           Len(path[s]) <= Len(path[failure])
  BY <1>3, <1>4 DEF Falls
<1>10. PICK n, f, g, t : n = Q(head) /\ f = failure /\ g = failure' /\ t = token
  OBVIOUS
<1>11. n \in NodeIds
  <2>1. head \in 0..Len(queue)
    BY <1>5 DEF BreadthFirst
  <2> QED BY <1>5, <1>10, <2>1, QueueTyped
<1>12. IsLink(path, f, g) /\ Queued(g) /\ g \in NodeIds
  BY <1>3, <1>5, <1>9, <1>10 DEF Links, IsLink
<1>13. /\ path[n] \in Seq(Token) /\ path[f] \in Seq(Token) /\ path[g] \in Seq(Token)
       /\ Len(path[n]) \in Nat /\ Len(path[f]) \in Nat /\ Len(path[g]) \in Nat
  BY <1>5, <1>9, <1>10, <1>11, <1>12, NodeTyped
<1>14. /\ EndsWith(path[n], path[f]) /\ Len(path[f]) < Len(path[n])
       /\ EndsWith(path[f], path[g]) /\ Len(path[g]) < Len(path[f])
       /\ \A s \in NodeIds : IsSuffix(path, f, s) => Len(path[s]) <= Len(path[g])
  BY <1>9, <1>10, <1>12 DEF IsLink, IsSuffix
<1>15. IsSuffix(path, n, g)
  BY <1>13, <1>14, EndsTrans DEF IsSuffix
<1>16. ASSUME NEW s \in NodeIds, IsSuffix(path, n, s), t \in Edges(s)
       PROVE  Len(path[s]) <= Len(path[g])
  <2>1. path[s] \in Seq(Token) /\ Len(path[s]) \in Nat /\ EndsWith(path[n], path[s])
    BY <1>5, <1>16, NodeTyped DEF IsSuffix
  <2>2. Len(path[s]) <= Len(path[f])
    BY <1>9, <1>10, <1>16
  <2>3. Len(path[s]) # Len(path[f])
    <3> SUFFICES ASSUME Len(path[s]) = Len(path[f]) PROVE FALSE
      OBVIOUS
    <3>1. path[s] = path[f]
      BY <1>13, <1>14, <2>1, EndsSame
    <3>2. s = f
      BY <1>5, <1>9, <1>10, <3>1 DEF IsTrie
    <3> QED BY <1>3, <1>10, <1>16, <3>2
  <2>4. EndsWith(path[f], path[s])
    BY <1>13, <1>14, <2>1, <2>2, EndsShorter
  <2>5. IsSuffix(path, f, s)
    BY <1>13, <2>1, <2>2, <2>3, <2>4 DEF IsSuffix
  <2> QED BY <1>14, <2>5
<1>17. Falls(path)'
  <2>1. Queued(g)' /\ Q(head)' = n /\ token' = t /\ failure' = g
    BY <1>3, <1>6, <1>7, <1>10, <1>12
  <2>2. Queued(failure)'
    BY <2>1 DEF Queued
  <2> QED BY <1>6, <1>12, <1>15, <1>16, <2>1, <2>2 DEF Falls, IsSuffix
<1>18. Holds(path)'
  BY <1>3, <1>6, <1>8, <1>17 DEF Holds, Core, Searching
<1> QED BY <1>6, <1>18 DEF IInv

\* The link and the output of the child, which joins the queue.
LEMMA LinkKeeps ==
  ASSUME IInv, Link
  PROVE  IInv'
<1>1. Typed /\ Limits
  BY DEF IInv
<1>2. PICK path : Holds(path)
  BY DEF IInv
<1>3. phase = "fall"
  BY DEF Link
<1>4. Core(path) /\ Whole(path) /\ Frontier(path) /\ Falls(path)
  BY <1>1, <1>2, <1>3, CoreOfHolds DEF Holds, Searching
<1>5. IsTrie(path) /\ HoldsPrefixes(path) /\ BreadthFirst(path) /\ Links(path)
      /\ patternID \notin DOMAIN patterns
  BY <1>4 DEF Core
<1>6. /\ head > 0 /\ todo \subseteq Edges(Q(head)) /\ dense = NoTable
      /\ token \in Edges(Q(head)) \ todo
      /\ Open = todo \cup {token} /\ FrontierAt(path, Open)
  BY <1>3, <1>4 DEF Frontier, Open
<1>7. head \in 1..Len(queue) /\ Q(head) \in NodeIds \ {0} /\ Q(head) = queue[head]
  <2>1. head \in 1..Len(queue)
    BY <1>5, <1>6, QueueTyped
  <2>2. head \in 0..Len(queue)
    BY <2>1
  <2> QED BY <1>5, <2>1, <2>2, QueueTyped DEF Q
<1>8. PICK n, tok, f, c, open :
         /\ n = Q(head) /\ tok = token /\ f = failure /\ open = Open
         /\ c = nodes[n].edges[tok]
  OBVIOUS
<1>9. n \in NodeIds \ {0} /\ tok \in Edges(n) /\ tok \in open /\ c = Child
  BY <1>6, <1>7, <1>8 DEF Child
<1>10. PICK target : target = IF tok \in Edges(f) THEN nodes[f].edges[tok] ELSE 0
  OBVIOUS
<1>11. PICK own, inherited : own = nodes[c].output /\ inherited = nodes[target].output
  OBVIOUS
<1>12. PICK out : out = IF PreferOutput(inherited, own) THEN inherited ELSE own
  OBVIOUS
<1>13. f \in NodeIds /\ Queued(f) /\ IsSuffix(path, n, f)
       /\ (f = 0 \/ tok \in Edges(f))
       /\ \A s \in NodeIds : IsSuffix(path, n, s) /\ tok \in Edges(s) =>
            Len(path[s]) <= Len(path[f])
  BY <1>4, <1>8 DEF Falls, Link
<1>14. IsLink(path, c, target)
  BY <1>5, <1>8, <1>9, <1>10, <1>13, LinkTarget
<1>15. /\ c \in NodeIds \ {0} /\ Len(path[c]) = Len(path[n]) + 1
       /\ \A p \in NodeIds : \A u \in Edges(p) : nodes[p].edges[u] = c => p = n /\ u = tok
  <2>1. IsTrie(path) /\ n \in NodeIds /\ tok \in Edges(n) /\ c = nodes[n].edges[tok]
    BY <1>5, <1>8, <1>9
  <2> QED BY <2>1, ChildIs
<1>16. ~(f = 0 /\ target = c)
  <2> SUFFICES ASSUME f = 0, target = c PROVE FALSE
    OBVIOUS
  <2>1. tok \in Edges(f) /\ nodes[f].edges[tok] = c
    BY <1>10, <1>15
  <2> QED BY <1>9, <1>13, <1>15, <2>1
<1>17. /\ nodes' = [nodes EXCEPT ![c].failure = target, ![c].output = out]
       /\ queue' = Append(queue, c)
       /\ phase' = "link"
       /\ UNCHANGED <<args, fields, dense, inserting, head, todo, token, failure>>
  BY <1>8, <1>9, <1>10, <1>11, <1>12, <1>16 DEF Link
<1>18. target \in NodeIds /\ Queued(target)
  <2>1. CASE tok \in Edges(f)
    <3>1. target = nodes[f].edges[tok] /\ target \in NodeIds
      BY <1>5, <1>10, <1>13, <2>1, ChildIs
    <3>2. PICK i \in 0..Len(queue) : Q(i) = f
      BY <1>13 DEF Queued
    <3>3. Len(path[f]) \in Nat /\ Len(path[n]) \in Nat /\ Len(path[f]) < Len(path[n])
      BY <1>5, <1>9, <1>13, NodeTyped DEF IsSuffix
    <3>4. Len(queue) \in Nat /\ head \in 0..Len(queue)
      BY <1>5, <1>7, QueueTyped
    <3>5. i < head
      <4> SUFFICES ASSUME head <= i PROVE FALSE
        BY <3>4
      <4>1. Len(path[Q(head)]) <= Len(path[Q(i)])
        BY <1>5, <3>4 DEF BreadthFirst
      <4> QED BY <1>8, <3>2, <3>3, <4>1
    <3>6. Queued(nodes[Q(i)].edges[tok])
      BY <1>6, <2>1, <3>2, <3>5 DEF FrontierAt
    <3> QED BY <3>1, <3>2, <3>6
  <2>2. CASE tok \notin Edges(f)
    <3>1. target = 0 /\ 0 \in NodeIds
      BY <1>5, <1>10, <2>2 DEF IsTrie, Token
    <3> QED BY <1>5, <3>1, QueueTyped
  <2> QED BY <2>1, <2>2
<1>19. nodes \in [NodeIds -> Node] /\ out \in Output
  <2>1. nodes \in [NodeIds -> Node]
    BY <1>5 DEF IsTrie
  <2>2. own \in Output /\ inherited \in Output
    BY <1>5, <1>11, <1>15, <1>18, NodeTyped
  <2> QED BY <1>12, <2>1, <2>2
<1>20. /\ NodeIds' = NodeIds
       /\ \A m \in NodeIds \ {c} : nodes'[m] = nodes[m]
       /\ nodes'[c] = [nodes[c] EXCEPT !.failure = target, !.output = out]
  BY <1>15, <1>17, <1>19 DEF NodeIds
<1>21. /\ nodes'[c].failure = target /\ nodes'[c].output = out
       /\ nodes'[c].edges = nodes[c].edges /\ nodes'[c] \in Node
  <2>1. nodes[c] \in Node /\ target \in Nat
    BY <1>5, <1>15, <1>18, NodeTyped
  <2> QED BY <1>19, <1>20, <2>1 DEF Node
<1>22. nodes' \in [NodeIds -> Node] /\ \A m \in NodeIds : nodes'[m].edges = nodes[m].edges
  <2>1. \A m \in NodeIds : nodes'[m] \in Node
    BY <1>19, <1>20, <1>21
  <2>2. nodes' = [m \in NodeIds |-> nodes'[m]]
    BY <1>17, <1>19
  <2> QED BY <1>20, <1>21, <2>1, <2>2
<1>23. /\ BreadthFirst(path)' /\ FrontierAt(path, open \ {tok})'
       /\ ~Queued(c)
       /\ Q(head)' = Q(head)
       /\ \A m : Queued(m)' <=> Queued(m) \/ m = c
  <2>1. /\ tok \in Edges(Q(head)) /\ c = nodes[Q(head)].edges[tok]
        /\ FrontierAt(path, open) /\ tok \in open
        /\ head' = head /\ queue' = Append(queue, c) /\ IsTrie(path) /\ BreadthFirst(path)
    BY <1>5, <1>6, <1>8, <1>9, <1>17
  <2> QED BY <1>20, <1>22, <2>1, QueueGrows
<1>24. phase' \in Phases \ {"insert"}
  BY <1>17 DEF Phases
<1>25. /\ Typed' /\ Limits' /\ IsTrie(path)' /\ HoldsPrefixes(path)'
       /\ \A m \in NodeIds : Edges(m)' = Edges(m)
  BY <1>1, <1>5, <1>17, <1>22, <1>24, FinishFrame
<1>26. Links(path)'
  <2>1. IsOutput(TokenPats, path[c], out)
    <3>1. IsOwn(path, c, own)
      BY <1>5, <1>11, <1>15, <1>23 DEF Links
    <3>2. IsOutput(TokenPats, path[target], inherited)
      BY <1>5, <1>11, <1>18 DEF Links
    <3> QED BY <1>4, <1>5, <1>12, <1>14, <1>15, <3>1, <3>2, OutputByLink
  <2> QED BY <1>1, <1>4, <1>14, <1>15, <1>17, <1>18, <1>20, <1>21, <1>22, <1>23, <1>24, <2>1,
             LinksGrow
<1>27. Frontier(path)'
  <2>1. open \ {tok} = todo /\ Open' = todo'
    BY <1>6, <1>8, <1>17 DEF Open
  <2>2. FrontierAt(path, Open)'
    <3>1. Open' = open \ {tok}
      BY <1>17, <2>1
    <3> QED BY <1>23, <3>1 DEF FrontierAt
  <2>3. todo' \subseteq Edges(Q(head))'
    <3>1. Q(head)' = n
      BY <1>8, <1>23
    <3>2. Edges(Q(head))' = Edges(n)
      BY <1>9, <1>25, <3>1 DEF Edges
    <3> QED BY <1>6, <1>8, <1>17, <3>2
  <2> QED BY <1>6, <1>17, <2>2, <2>3 DEF Frontier
<1>28. Holds(path)'
  BY <1>17, <1>23, <1>25, <1>26, <1>27 DEF Holds, Searching
<1> QED BY <1>25, <1>28 DEF IInv

\* Nothing is left out of the queue when its end is reached.
LEMMA AllQueued ==
  ASSUME NEW path, IsTrie(path), BreadthFirst(path), FrontierAt(path, {}), head = Len(queue)
  PROVE  \A n \in NodeIds : Queued(n)
<1> DEFINE Out == {n \in NodeIds : ~Queued(n)}
<1> SUFFICES ASSUME Out # {} PROVE FALSE
  OBVIOUS
<1>1. PICK m \in Out : \A n \in Out : m <= n
  <2>1. Out \in SUBSET Nat
    BY NodeTyped
  <2> HIDE DEF Out
  <2> QED BY <2>1, Least
<1>2. m \in NodeIds /\ ~Queued(m)
  OBVIOUS
<1>3. m # 0
  BY <1>2, QueueTyped
<1>4. PICK p \in NodeIds : \E t \in Edges(p) : nodes[p].edges[t] = m /\ p < m
  BY <1>2, <1>3, ParentIs
<1>5. p \in Nat /\ m \in Nat
  BY <1>2, NodeTyped
<1>6. Queued(p)
  <2> SUFFICES ASSUME ~Queued(p) PROVE FALSE
    OBVIOUS
  <2>1. p \in Out
    OBVIOUS
  <2>2. m <= p
    BY <1>1, <2>1
  <2> HIDE DEF Out
  <2> QED BY <1>4, <1>5, <2>2
<1> HIDE DEF Out
<1>7. PICK i \in 0..Len(queue) : Q(i) = p
  BY <1>6 DEF Queued
<1>8. Len(queue) \in Nat /\ (i < head \/ i = head)
  BY QueueTyped
<1>9. \A t \in Edges(p) : Queued(nodes[p].edges[t])
  BY <1>7, <1>8 DEF FrontierAt
<1> QED BY <1>2, <1>4, <1>9

LEMMA NextHeadLinks ==
  ASSUME IInv, NextHead, head < Len(queue)
  PROVE  IInv'
<1>1. Typed /\ Limits
  BY DEF IInv
<1>2. PICK path : Holds(path)
  BY DEF IInv
<1>3. /\ phase \in {"enqueue", "link"} /\ todo = {}
      /\ UNCHANGED <<args, fields, nodes, inserting, queue, token, failure>>
  BY DEF NextHead
<1>4. Core(path) /\ Frontier(path)
  BY <1>1, <1>2, <1>3, CoreOfHolds DEF Holds, Searching
<1>5. IsTrie(path) /\ BreadthFirst(path) /\ FrontierAt(path, {}) /\ dense = NoTable
  <2>1. Open = {}
    BY <1>3 DEF Open
  <2> QED BY <1>4, <2>1 DEF Core, Frontier
<1>6. Len(queue) \in Nat /\ head \in Nat /\ \A i \in 0..Len(queue) : Q(i) \in NodeIds
  BY <1>5, QueueTyped
<1>7. /\ phase' = "link" /\ head' = head + 1 /\ todo' = Edges(queue[head'])
      /\ dense' = dense
  BY <1>6 DEF NextHead
<1>8. PICK h : h = head + 1
  OBVIOUS
<1>9. h \in 1..Len(queue) /\ h \in 0..Len(queue) /\ head \in 0..Len(queue) /\ head' = h /\ Q(h) = queue[h]
  BY <1>6, <1>7, <1>8 DEF Q
<1>10. /\ Typed' /\ Limits' /\ Core(path)'
       /\ NodeIds' = NodeIds
       /\ \A n : Edges(n)' = Edges(n)
       /\ \A i : Q(i)' = Q(i)
       /\ \A n : Queued(n)' <=> Queued(n)
  <2>1. phase' \in Phases \ {"insert"} /\ head' \in 0..Len(queue)
    BY <1>7, <1>9 DEF Phases
  <2> QED BY <1>1, <1>3, <1>4, <2>1, SameLinks
<1>11. Q(head)' = Q(h)
  BY <1>3, <1>9 DEF Q
<1>12. Open' = Edges(Q(h)) /\ todo' = Edges(Q(h))
  <2>1. todo' = Edges(Q(h))
    BY <1>7, <1>9
  <2> QED BY <1>7, <2>1 DEF Open
<1>13. Len(path[Q(head)]) \in Nat /\ Len(path[Q(h)]) \in Nat /\ Len(path[Q(head)]) <= Len(path[Q(h)])
  <2>1. Len(path[Q(head)]) \in Nat /\ Len(path[Q(h)]) \in Nat
    BY <1>5, <1>6, <1>9, NodeTyped
  <2> QED BY <1>5, <1>6, <1>8, <1>9, <2>1 DEF BreadthFirst
<1>14. ASSUME NEW i \in 0..Len(queue)
       PROVE  /\ Len(path[Q(i)]) <= Len(path[Q(h)]) + 1
              /\ \A t \in Edges(Q(i)) :
                   Queued(nodes[Q(i)].edges[t]) <=> i < h \/ (i = h /\ t \notin Edges(Q(h)))
  <2>1. Len(path[Q(i)]) <= Len(path[Q(head)]) + 1 /\ Len(path[Q(i)]) \in Nat
    BY <1>5, <1>6, NodeTyped DEF FrontierAt
  <2>2. Len(path[Q(i)]) <= Len(path[Q(h)]) + 1
    BY <1>13, <2>1
  <2>3. \A t \in Edges(Q(i)) : Queued(nodes[Q(i)].edges[t]) <=> i < head \/ i = head
    BY <1>5 DEF FrontierAt
  <2>4. i < head \/ i = head <=> i < h
    BY <1>6, <1>8
  <2> QED BY <2>2, <2>3, <2>4
<1>15. \A j \in 1..Len(queue) : \E i \in 0..h : \E t \in Edges(Q(i)) :
         nodes[Q(i)].edges[t] = Q(j)
  <2>1. \A i \in 0..head : i \in 0..h
    BY <1>6, <1>8
  <2> QED BY <1>5, <2>1 DEF FrontierAt
<1>16. Frontier(path)'
  <2>1. FrontierAt(path, Open)'
    <3>1. queue' = queue /\ nodes' = nodes /\ head' = h
      BY <1>3, <1>9
    <3>2. \A n : Queued(n)' <=> Queued(n)
      BY <1>10
    <3>3. \A i, t : Queued(nodes[Q(i)].edges[t])' <=> Queued(nodes[Q(i)].edges[t])
      BY <3>1 DEF Queued, Q
    <3> QED BY <1>10, <1>11, <1>12, <1>14, <1>15, <3>1, <3>3 DEF FrontierAt
  <2>2. Edges(Q(head))' = Edges(Q(h))
    BY <1>3, <1>11 DEF Edges
  <2>3. head' > 0
    BY <1>9
  <2> QED BY <1>5, <1>7, <1>12, <2>1, <2>2, <2>3 DEF Frontier
<1>17. Holds(path)'
  BY <1>7, <1>10, <1>16 DEF Holds, Core, Searching
<1> QED BY <1>10, <1>17 DEF IInv

\* The root's row: its children, or the root.
LEMMA NextHeadEnds ==
  ASSUME IInv, NextHead, head = Len(queue)
  PROVE  IInv'
<1>1. Typed /\ Limits
  BY DEF IInv
<1>2. PICK path : Holds(path)
  BY DEF IInv
<1>3. /\ phase \in {"enqueue", "link"} /\ todo = {}
      /\ UNCHANGED <<args, fields, nodes, inserting, queue, token, failure>>
  BY DEF NextHead
<1>4. Core(path) /\ Whole(path) /\ Frontier(path)
  BY <1>1, <1>2, <1>3, CoreOfHolds DEF Holds, Searching
<1>5. IsTrie(path) /\ BreadthFirst(path) /\ FrontierAt(path, {}) /\ dense = NoTable
  <2>1. Open = {}
    BY <1>3 DEF Open
  <2> QED BY <1>4, <2>1 DEF Core, Frontier
<1>6. \A n \in NodeIds : Queued(n)
  BY <1>5, AllQueued
<1>7. Len(queue) \in Nat /\ ~(head < Len(queue)) /\ Q(0) = 0
  BY <1>5, QueueTyped
<1>8. /\ head' = 0
      /\ \/ /\ phase' = "table"
            /\ dense' = [n \in {0} |-> [tok \in 0..(nextToken - 1) |->
                          IF tok \in Edges(0) THEN nodes[0].edges[tok] ELSE 0]]
         \/ phase' = "built" /\ dense' = dense
  BY <1>7 DEF NextHead
<1>9. /\ Typed' /\ Limits' /\ Core(path)'
      /\ NodeIds' = NodeIds /\ TokenPats' = TokenPats
      /\ \A i : Q(i)' = Q(i)
      /\ \A n : Queued(n)' <=> Queued(n)
  <2>1. phase' \in Phases \ {"insert"} /\ head' \in 0..Len(queue)
    BY <1>7, <1>8 DEF Phases
  <2> QED BY <1>1, <1>3, <1>4, <2>1, SameLinks
<1>10. CASE phase' = "built" /\ dense' = dense
  <2>1. Holds(path)'
    BY <1>5, <1>6, <1>9, <1>10 DEF Holds, Core, Searching
  <2> QED BY <1>9, <2>1 DEF IInv
<1>11. CASE /\ phase' = "table"
            /\ dense' = [n \in {0} |-> [tok \in 0..(nextToken - 1) |->
                          IF tok \in Edges(0) THEN nodes[0].edges[tok] ELSE 0]]
  <2>1. DOMAIN dense' = {0} /\ 0..head' = {0} /\ nextToken \in Token /\ nextToken' = nextToken
    BY <1>1, <1>3, <1>8, <1>11 DEF Typed, fields
  <2>2. ASSUME NEW tok \in 1..(nextToken - 1)
        PROVE  /\ dense'[0][tok] \in NodeIds
               /\ IsAdvance(TokenPats, path[0], tok, path[dense'[0][tok]])
    <3>1. tok \in Token /\ tok \in 0..(nextToken - 1) /\ 0 \in NodeIds
      BY <1>5, <2>1 DEF IsTrie, Token
    <3>2. dense'[0][tok] = IF tok \in Edges(0) THEN nodes[0].edges[tok] ELSE 0
      BY <1>11, <3>1
    <3>3. CASE tok \in Edges(0)
      <4>1. nodes[0].edges[tok] \in NodeIds
        BY <1>5, <3>1, <3>3, EdgeIs
      <4>2. IsAdvance(TokenPats, path[0], tok, path[nodes[0].edges[tok]])
        BY <1>4, <1>5, <3>1, <3>3, AdvanceToChild
      <4> QED BY <3>2, <3>3, <4>1, <4>2
    <3>4. CASE tok \notin Edges(0)
      BY <1>4, <1>5, <3>1, <3>2, <3>4, AdvanceAtRoot
    <3> QED BY <3>3, <3>4
  <2>3. IsRow(path, 0)'
    BY <1>9, <2>1, <2>2 DEF IsRow
  <2>4. {Q(i) : i \in 0..head}' = {0}
    BY <1>7, <1>9, <2>1
  <2>5. \A i \in 0..head' : Q(i)' = 0
    BY <1>7, <1>9, <2>1
  <2>6. (\A i \in 0..head : IsRow(path, Q(i)))'
    <3>1. \A i \in 0..head' : IsRow(path, Q(i))'
      <4> TAKE i \in 0..head'
      <4>1. Q(i)' = 0
        BY <2>5
      <4> QED BY <2>3, <4>1 DEF IsRow
    <3> QED BY <3>1
  <2>7. (DOMAIN dense = {Q(i) : i \in 0..head})'
    BY <2>1, <2>4
  <2>8. Holds(path)'
    BY <1>6, <1>9, <1>11, <2>6, <2>7 DEF Holds, Core, Searching
  <2> QED BY <1>9, <2>8 DEF IInv
<1> QED BY <1>8, <1>10, <1>11

\* The row of a node: its children, or what its link's row says.
LEMMA FillRowKeeps ==
  ASSUME IInv, FillRow
  PROVE  IInv'
<1>1. Typed /\ Limits
  BY DEF IInv
<1>2. PICK path : Holds(path)
  BY DEF IInv
<1>3. /\ phase = "table" /\ phase' = "table" /\ head < Len(queue) /\ head' = head + 1
      /\ UNCHANGED <<args, fields, nodes, inserting, queue, todo, token, failure>>
  BY DEF FillRow
<1>4. Core(path) /\ Whole(path)
  BY <1>1, <1>2, <1>3, CoreOfHolds
<1>5. IsTrie(path) /\ BreadthFirst(path) /\ Links(path)
  BY <1>4 DEF Core
<1>6. /\ \A n \in NodeIds : Queued(n)
      /\ DOMAIN dense = {Q(i) : i \in 0..head}
      /\ \A i \in 0..head : IsRow(path, Q(i))
  BY <1>2, <1>3 DEF Holds
<1>7. Len(queue) \in Nat /\ head \in Nat /\ (\A i \in 0..Len(queue) : Q(i) \in NodeIds)
      /\ \A i \in 1..Len(queue) : Q(i) # 0
  BY <1>5, QueueTyped
<1>8. PICK h, n, f : h = head + 1 /\ n = queue[h] /\ f = nodes[n].failure
  OBVIOUS
<1>9. /\ h \in 1..Len(queue) /\ h \in 0..Len(queue) /\ head' = h /\ n = Q(h)
      /\ n \in NodeIds \ {0} /\ 0..h = (0..head) \cup {h} /\ h \notin 0..head
      /\ \A i \in 0..head : i \in 0..Len(queue)
  <2>1. h \in 1..Len(queue) /\ h \in 0..Len(queue)
    BY <1>3, <1>7, <1>8
  <2>2. n = Q(h) /\ head' = h
    BY <1>3, <1>8, <2>1 DEF Q
  <2>3. 0..h = (0..head) \cup {h} /\ h \notin 0..head /\ \A i \in 0..head : i \in 0..Len(queue)
    BY <1>3, <1>7, <1>8
  <2> QED BY <1>7, <2>1, <2>2, <2>3
<1>10. dense' = With(dense, n, [tok \in 0..(nextToken - 1) |->
                                  IF tok \in Edges(n) THEN nodes[n].edges[tok]
                                  ELSE dense[f][tok]])
  BY <1>8, <1>9 DEF FillRow
<1>11. /\ Typed' /\ Limits' /\ Core(path)'
       /\ NodeIds' = NodeIds /\ TokenPats' = TokenPats
       /\ \A i : Q(i)' = Q(i)
       /\ \A m : Queued(m)' <=> Queued(m)
  <2>1. phase' \in Phases \ {"insert"} /\ head' \in 0..Len(queue)
    BY <1>3, <1>9 DEF Phases
  <2> QED BY <1>1, <1>3, <1>4, <2>1, SameLinks
<1>12. nextToken' = nextToken /\ nextToken \in Token
  BY <1>1, <1>3 DEF fields, Typed
<1>13. IsLink(path, n, f) /\ f \in NodeIds
  BY <1>5, <1>6, <1>8, <1>9 DEF Links, IsLink
<1>14. IsRow(path, f)
  <2>1. PICK i \in 0..Len(queue) : Q(i) = f
    BY <1>6, <1>13 DEF Queued
  <2>2. Len(path[f]) \in Nat /\ Len(path[n]) \in Nat /\ Len(path[f]) < Len(path[n])
    BY <1>5, <1>9, <1>13, NodeTyped DEF IsLink, IsSuffix
  <2>3. i < h
    <3> SUFFICES ASSUME h <= i PROVE FALSE
      BY <1>7, <1>9
    <3>1. Len(path[Q(h)]) <= Len(path[Q(i)])
      BY <1>5, <1>9 DEF BreadthFirst
    <3> QED BY <1>9, <2>1, <2>2, <3>1
  <2>4. i \in 0..head
    BY <1>7, <1>8, <2>3
  <2> QED BY <1>6, <2>1, <2>4
<1>15. n \notin DOMAIN dense
  <2> SUFFICES ASSUME NEW i \in 0..head, Q(i) = n PROVE FALSE
    BY <1>6
  <2>1. i = h
    BY <1>5, <1>9 DEF BreadthFirst
  <2> QED BY <1>9, <2>1
<1>16. /\ DOMAIN dense' = DOMAIN dense \cup {n}
       /\ \A m \in DOMAIN dense : dense'[m] = dense[m]
       /\ dense'[n] = [tok \in 0..(nextToken - 1) |->
                         IF tok \in Edges(n) THEN nodes[n].edges[tok] ELSE dense[f][tok]]
  BY <1>10, <1>15 DEF With
<1>17. IsRow(path, n)'
  <2>1. ASSUME NEW tok \in 1..(nextToken - 1)
        PROVE  /\ dense'[n][tok] \in NodeIds
               /\ IsAdvance(TokenPats, path[n], tok, path[dense'[n][tok]])
    <3>1. tok \in Token /\ tok \in 0..(nextToken - 1)
      BY <1>12 DEF Token
    <3>2. dense'[n][tok] = IF tok \in Edges(n) THEN nodes[n].edges[tok] ELSE dense[f][tok]
      BY <1>16, <3>1
    <3>3. CASE tok \in Edges(n)
      <4>1. nodes[n].edges[tok] \in NodeIds
        BY <1>5, <1>9, <3>3, EdgeIs
      <4>2. IsAdvance(TokenPats, path[n], tok, path[nodes[n].edges[tok]])
        BY <1>4, <1>5, <1>9, <3>3, AdvanceToChild
      <4> QED BY <3>2, <3>3, <4>1, <4>2
    <3>4. CASE tok \notin Edges(n)
      <4>1. dense[f][tok] \in NodeIds /\ IsAdvance(TokenPats, path[f], tok, path[dense[f][tok]])
        BY <1>14 DEF IsRow
      <4>2. IsAdvance(TokenPats, path[n], tok, path[dense[f][tok]])
        BY <1>4, <1>5, <1>9, <1>13, <3>1, <3>4, <4>1, AdvanceByLink
      <4> QED BY <3>2, <3>4, <4>1, <4>2
    <3> QED BY <3>3, <3>4
  <2> QED BY <1>11, <1>12, <2>1 DEF IsRow
<1>18. ASSUME NEW m \in DOMAIN dense, IsRow(path, m) PROVE IsRow(path, m)'
  <2>1. dense'[m] = dense[m]
    BY <1>16
  <2> QED BY <1>11, <1>12, <1>18, <2>1 DEF IsRow
<1>19. \A i \in 0..head' : IsRow(path, Q(i))'
  <2> TAKE i \in 0..head'
  <2>1. i \in 0..head \/ i = h
    BY <1>9
  <2>2. PICK m : m = Q(i)
    OBVIOUS
  <2>3. m = Q(i)'
    BY <1>11, <2>2
  <2>4. IsRow(path, m)'
    <3>1. CASE i \in 0..head
      BY <1>6, <1>18, <2>2, <3>1
    <3>2. CASE i = h
      BY <1>9, <1>17, <2>2, <3>2
    <3> QED BY <2>1, <3>1, <3>2
  <2> QED BY <2>3, <2>4 DEF IsRow
<1>20. (DOMAIN dense = {Q(i) : i \in 0..head})'
  <2>1. \A m : m \in DOMAIN dense' <=> \E i \in 0..h : Q(i)' = m
    BY <1>6, <1>9, <1>11, <1>16
  <2>2. head' = h
    BY <1>9
  <2> QED BY <2>1, <2>2
<1>21. Holds(path)'
  <2>1. (\A i \in 0..head : IsRow(path, Q(i)))'
    BY <1>19
  <2> QED BY <1>3, <1>6, <1>11, <1>20, <2>1 DEF Holds, Core, Searching
<1> QED BY <1>11, <1>21 DEF IInv

LEMMA EndTableKeeps ==
  ASSUME IInv, EndTable
  PROVE  IInv'
<1>1. Typed /\ Limits
  BY DEF IInv
<1>2. PICK path : Holds(path)
  BY DEF IInv
<1>3. /\ phase = "table" /\ phase' = "built" /\ head = Len(queue)
      /\ UNCHANGED <<args, fields, nodes, dense, inserting, queue, head>>
  BY DEF EndTable, linking
<1>4. Core(path)
  BY <1>1, <1>2, <1>3, CoreOfHolds
<1>5. /\ \A n \in NodeIds : Queued(n)
      /\ \A i \in 0..head : IsRow(path, Q(i))
  BY <1>2, <1>3 DEF Holds
<1>6. /\ Typed' /\ Limits' /\ Core(path)'
      /\ NodeIds' = NodeIds /\ TokenPats' = TokenPats
      /\ \A n : Queued(n)' <=> Queued(n)
  <2>1. head \in 0..Len(queue)
    BY <1>4 DEF Core, BreadthFirst
  <2>2. phase' \in Phases \ {"insert"} /\ head' \in 0..Len(queue)
    BY <1>3, <2>1 DEF Phases
  <2> QED BY <1>1, <1>3, <1>4, <2>2, SameLinks
<1>7. \A n \in NodeIds : IsRow(path, n)
  BY <1>3, <1>5 DEF Queued
<1>8. nextToken' = nextToken /\ dense' = dense
  BY <1>3 DEF fields
<1>9. \A n \in NodeIds : IsRow(path, n)'
  BY <1>6, <1>7, <1>8 DEF IsRow
<1>10. Holds(path)'
  BY <1>3, <1>5, <1>6, <1>9 DEF Holds, Core, Searching
<1> QED BY <1>6, <1>10 DEF IInv

LEMMA StutterKeeps ==
  ASSUME IInv, UNCHANGED vars
  PROVE  IInv'
<1>1. UNCHANGED <<patterns, exact, tokenOf, nextToken, nodes, empty, maxUnits, maxBytes, dense,
                  phase, patternID, at, state, bytes, queue, head, todo, token, failure>>
  BY DEF vars, args, fields, inserting, linking
<1>2. Typed'
  <2>1. TokensAreOrbits'
    BY <1>1 DEF IInv, Typed, TokensAreOrbits, Members
  <2> QED BY <1>1, <2>1 DEF IInv, Typed
<1>3. PICK path : Holds(path)
  BY DEF IInv
<1>4. Limits'
  <2>1. \A id : Done(id)' <=> Done(id)
    BY <1>1 DEF Done
  <2>2. /\ \A id : Bounds(id, Len(patterns[id]), maxBytes)'
                     <=> Bounds(id, Len(patterns[id]), maxBytes)
        /\ Bounds(patternID, at, bytes)' <=> Bounds(patternID, at, bytes)
    BY <1>1 DEF Bounds, Members
  <2> QED BY <1>1, <2>1, <2>2 DEF IInv, Limits, Done
<1>5. CASE phase = "insert"
  <2>1. IsTrie(path) /\ HoldsPrefixes(path) /\ Fresh(path)
    BY <1>3, <1>5 DEF Holds
  <2>2. IsTrie(path)'
    BY <1>1, <2>1 DEF IsTrie, NodeIds, Edges, Size
  <2>3. HoldsPrefixes(path)'
    <3>1. \A id, k : Prefix(id, k)' = Prefix(id, k)
      BY <1>1 DEF Prefix
    <3>2. Prefix(patternID, at)' = Prefix(patternID, at)
      BY <1>1 DEF Prefix
    <3>3. NodeIds' = NodeIds /\ \A id : Read(id)' = Read(id)
      BY <1>1 DEF Read, NodeIds
    <3> QED BY <1>1, <2>1, <3>1, <3>2, <3>3 DEF HoldsPrefixes
  <2>4. Fresh(path)'
    BY <1>1, <2>1 DEF Fresh, IsOwn, Leads, Done, Prefix, NodeIds
  <2>5. Holds(path)'
    BY <1>1, <1>5, <2>2, <2>3, <2>4 DEF Holds, Searching
  <2> QED BY <1>2, <1>4, <2>5 DEF IInv
<1>6. CASE phase # "insert"
  <2>1. Core(path)
    BY <1>3, <1>6, CoreOfHolds DEF IInv
  <2>2. /\ Core(path)' /\ NodeIds' = NodeIds /\ TokenPats' = TokenPats
        /\ \A n : Edges(n)' = Edges(n)
        /\ \A i : Q(i)' = Q(i)
        /\ \A n : Queued(n)' <=> Queued(n)
    <3>1. UNCHANGED <<args, fields, inserting, nodes, queue>>
      BY <1>1 DEF args, fields, inserting
    <3>2. phase' \in Phases \ {"insert"} /\ head' \in 0..Len(queue)
      BY <1>1, <1>6, <2>1 DEF Core, BreadthFirst, IInv, Typed
    <3>3. Typed /\ Limits
      BY DEF IInv
    <3> QED BY <2>1, <3>1, <3>2, <3>3, SameLinks
  <2>3. Q(head)' = Q(head) /\ Open' = Open
    BY <1>1 DEF Q, Open
  <2>4. Searching => Frontier(path)'
    <3> SUFFICES ASSUME Searching PROVE Frontier(path)'
      OBVIOUS
    <3>1. Frontier(path)
      BY <1>3 DEF Holds
    <3>2. FrontierAt(path, Open)'
      BY <1>1, <2>3, <3>1 DEF Frontier, FrontierAt, Q, Queued, Edges
    <3>3. Edges(Q(head))' = Edges(Q(head))
      BY <1>1, <2>3 DEF Edges
    <3> QED BY <1>1, <3>1, <3>2, <3>3 DEF Frontier
  <2>5. phase = "fall" => Falls(path)'
    <3> SUFFICES ASSUME phase = "fall" PROVE Falls(path)'
      OBVIOUS
    <3>1. Falls(path)
      BY <1>3 DEF Holds
    <3>2. Queued(failure)'
      BY <1>1, <3>1 DEF Falls, Queued, Q
    <3> QED BY <1>1, <2>2, <2>3, <3>1, <3>2 DEF Falls, IsSuffix
  <2>6. \A n : IsRow(path, n)' <=> IsRow(path, n)
    BY <1>1, <2>2 DEF IsRow
  <2>7. \A i : IsRow(path, Q(i))' <=> IsRow(path, Q(i))
    BY <1>1, <2>2, <2>6 DEF IsRow, Q
  <2>8. (DOMAIN dense = {Q(i) : i \in 0..head})' <=> (DOMAIN dense = {Q(i) : i \in 0..head})
    BY <1>1 DEF Q
  <2>9. Holds(path)'
    BY <1>1, <1>3, <1>6, <2>2, <2>4, <2>5, <2>6, <2>7, <2>8 DEF Holds, Core, Searching
  <2> QED BY <1>2, <1>4, <2>9 DEF IInv
<1> QED BY <1>5, <1>6

LEMMA InitHolds ==
  ASSUME Init
  PROVE  IInv
<1>1. /\ patterns \in PatternLists /\ exact \in BOOLEAN
      /\ exact => \A id \in DOMAIN patterns : \A i \in DOMAIN patterns[id] :
                    Width[patterns[id][i]] = 1
      /\ tokenOf = [x \in Letters |-> 0] /\ nextToken = 1
      /\ nodes = [n \in {0} |-> NewNode]
      /\ empty = -1 /\ maxUnits = 0 /\ maxBytes = 0 /\ dense = NoTable
      /\ phase = "insert" /\ patternID = 0 /\ at = 0 /\ state = 0 /\ bytes = 0
      /\ queue = <<>> /\ head = 0 /\ todo = {}
  BY DEF Init
<1>2. patterns \in [DOMAIN patterns -> Seq(Letters)]
  BY <1>1, BuildAssumption
<1>3. Typed
  <2>1. TokensAreOrbits
    BY <1>1 DEF TokensAreOrbits
  <2>2. 0..(patternID - 1) \subseteq DOMAIN patterns
    BY <1>1
  <2>3. 0 \in DOMAIN patterns => 0 <= Len(patterns[0])
    <3> SUFFICES ASSUME 0 \in DOMAIN patterns PROVE 0 <= Len(patterns[0])
      OBVIOUS
    <3>1. patterns[0] \in Seq(Letters)
      BY <1>2
    <3> QED BY <3>1
  <2> QED BY <1>1, <2>1, <2>2, <2>3 DEF Typed, Phases, Token
<1>4. \A id \in DOMAIN patterns : ~Done(id)
  <2>1. \A id \in DOMAIN patterns : id \in Nat
    BY <1>3, PatternsTyped
  <2> QED BY <1>1, <2>1 DEF Done
<1>5. Limits
  <2>1. Bounds(patternID, at, bytes)
    <3>1. PICK id : id = patternID
      OBVIOUS
    <3>2. Bounds(id, 0, 0)
      BY BoundsNothing
    <3> QED BY <1>1, <3>1, <3>2
  <2> QED BY <1>1, <1>4, <2>1 DEF Limits
<1>6. PICK path : path = [n \in {0} |-> <<>>]
  OBVIOUS
<1>7. NodeIds = {0} /\ path[0] = <<>> /\ nodes[0] = NewNode
  BY <1>1, <1>6 DEF NodeIds
<1>8. Edges(0) = {}
  <2>1. DOMAIN <<>> = {}
    OBVIOUS
  <2> QED BY <1>7, <2>1 DEF Edges, NewNode
<1>9. Size = 1
  BY <1>7, FS_Singleton DEF Size
<1>10. NewNode \in Node
  <2>1. <<>> \in EdgeMap
    <3>1. <<>> \in [{} -> Nat] /\ {} \in SUBSET Token
      OBVIOUS
    <3> QED BY <3>1 DEF EdgeMap
  <2> QED BY <2>1 DEF NewNode, Node, Output, NoOutput
<1>11. IsTrie(path)
  <2>1. <<>> \in Seq(Token)
    OBVIOUS
  <2>2. nodes \in [NodeIds -> Node] /\ path \in [NodeIds -> Seq(Token)]
    BY <1>1, <1>6, <1>7, <1>10, <2>1
  <2>3. NodeIds = 0..(Size - 1)
    BY <1>7, <1>9
  <2> QED BY <1>7, <1>8, <1>9, <2>2, <2>3 DEF IsTrie, Token
<1>12. HoldsPrefixes(path)
  <2>1. \A id \in DOMAIN patterns : 1..Read(id) = {}
    BY <1>1, <1>4 DEF Read, Done
  <2>2. patternID \in DOMAIN patterns => path[state] = Prefix(patternID, at)
    BY <1>1, <1>7 DEF Prefix
  <2> QED BY <1>1, <1>7, <2>1, <2>2 DEF HoldsPrefixes
<1>13. Fresh(path)
  <2>1. \A id \in DOMAIN patterns : ~Leads(path, id, 0)
    BY <1>4 DEF Leads
  <2> QED BY <1>1, <1>7, <2>1 DEF Fresh, IsOwn, NewNode
<1>14. Holds(path)
  BY <1>1, <1>11, <1>12, <1>13 DEF Holds, Searching
<1> QED BY <1>3, <1>5, <1>14 DEF IInv

LEMMA StepKeeps ==
  ASSUME IInv, [Next]_vars
  PROVE  IInv'
<1>1. CASE InsertEmpty
  BY <1>1, InsertEmptyKeeps
<1>2. CASE InsertUnit
  BY <1>2, InsertUnitKeeps
<1>3. CASE EndPattern
  BY <1>3, EndPatternKeeps
<1>4. CASE BeginFinish
  BY <1>4, BeginFinishKeeps
<1>5. CASE EnqueueRootChild
  BY <1>5, EnqueueRootChildKeeps
<1>6. CASE NextHead
  <2>1. head < Len(queue) \/ head = Len(queue)
    BY <1>6 DEF NextHead
  <2> QED BY <1>6, <2>1, NextHeadLinks, NextHeadEnds
<1>7. CASE PickChild
  BY <1>7, PickChildKeeps
<1>8. CASE Fall
  BY <1>8, FallKeeps
<1>9. CASE Link
  BY <1>9, LinkKeeps
<1>10. CASE FillRow
  BY <1>10, FillRowKeeps
<1>11. CASE EndTable
  BY <1>11, EndTableKeeps
<1>12. CASE Built \/ UNCHANGED vars
  BY <1>12, StutterKeeps DEF Built
<1> QED BY <1>1, <1>2, <1>3, <1>4, <1>5, <1>6, <1>7, <1>8, <1>9, <1>10, <1>11, <1>12 DEF Next

(***************************************************************************)
(* At every step the nodes are the prefixes of what has been read, once    *)
(* each; those the queue has reached have the link and the output of their *)
(* longest suffix, and the rows that are filled say where advance leads.   *)
(***************************************************************************)
THEOREM Invariance == Spec => []IInv
<1>1. Init => IInv
  BY InitHolds
<1>2. IInv /\ [Next]_vars => IInv'
  BY StepKeeps
<1> QED BY <1>1, <1>2, PTL DEF Spec

(***************************************************************************)
(* runeToken: whichever member of an orbit a pattern spells first, and     *)
(* however often, all its members share one token and no other letter does.*)
(***************************************************************************)
THEOREM OrbitsShareTokens == Spec => []TokensAreOrbits
<1>1. IInv => TokensAreOrbits
  BY DEF IInv, Typed
<1> QED BY <1>1, Invariance, PTL

-----------------------------------------------------------------------------
\* What defines Path: its recursion.
IsPath(f) ==
  f = [n \in NodeIds |->
        IF n = 0 THEN <<>>
        ELSE LET m == CHOOSE m \in NodeIds : \E tok \in Edges(m) : nodes[m].edges[tok] = n
                 t == CHOOSE tok \in Edges(m) : nodes[m].edges[tok] = n
             IN  Append(f[m], t)]

\* What Path takes for the parent, and for the edge to the node, are that.
LEMMA ParentFound ==
  ASSUME NEW path, IsTrie(path), NEW n \in NodeIds, n # 0,
         NEW p, p = CHOOSE m \in NodeIds : \E tok \in Edges(m) : nodes[m].edges[tok] = n,
         NEW t, t = CHOOSE tok \in Edges(p) : nodes[p].edges[tok] = n
  PROVE  /\ p \in NodeIds /\ t \in Edges(p) /\ nodes[p].edges[t] = n
         /\ p < n /\ path[n] = Append(path[p], t)
<1>1. \E m \in NodeIds : \E tok \in Edges(m) : nodes[m].edges[tok] = n
  BY ParentIs
<1>2. p \in NodeIds /\ \E tok \in Edges(p) : nodes[p].edges[tok] = n
  BY <1>1
<1>3. t \in Edges(p) /\ nodes[p].edges[t] = n
  BY <1>2
<1>4. p < nodes[p].edges[t] /\ path[nodes[p].edges[t]] = Append(path[p], t)
  BY <1>2, <1>3, EdgeIs
<1> QED BY <1>2, <1>3, <1>4

\* The witness of the invariant is Path.
LEMMA PathIs ==
  ASSUME NEW path, IsTrie(path)
  PROVE  Path = path
<1> DEFINE Parent(n) == CHOOSE m \in NodeIds : \E tok \in Edges(m) : nodes[m].edges[tok] = n
           Step(n) == CHOOSE tok \in Edges(Parent(n)) : nodes[Parent(n)].edges[tok] = n
<1>1. \A n \in NodeIds : n # 0 =>
        /\ Parent(n) \in NodeIds /\ Parent(n) < n
        /\ path[n] = Append(path[Parent(n)], Step(n))
  <2> SUFFICES ASSUME NEW n \in NodeIds, n # 0
               PROVE  /\ Parent(n) \in NodeIds /\ Parent(n) < n
                      /\ path[n] = Append(path[Parent(n)], Step(n))
    OBVIOUS
  <2>1. PICK p : p = Parent(n)
    OBVIOUS
  <2>2. PICK t : t = CHOOSE tok \in Edges(p) : nodes[p].edges[tok] = n
    OBVIOUS
  <2>3. t = Step(n)
    BY <2>1, <2>2
  <2>4. p < n /\ p \in NodeIds /\ path[n] = Append(path[p], t)
    BY <2>1, <2>2, ParentFound
  <2> QED BY <2>1, <2>3, <2>4
<1>2. \A f : IsPath(f) <=>
        f = [n \in NodeIds |-> IF n = 0 THEN <<>> ELSE Append(f[Parent(n)], Step(n))]
  BY DEF IsPath
<1> HIDE DEF Parent, Step
<1>3. path \in [NodeIds -> Seq(Token)] /\ path[0] = <<>>
  BY DEF IsTrie
<1>4. IsPath(path)
  <2>1. \A n \in NodeIds : path[n] = IF n = 0 THEN <<>> ELSE Append(path[Parent(n)], Step(n))
    BY <1>1, <1>3
  <2>2. path = [n \in NodeIds |-> path[n]]
    BY <1>3
  <2> QED BY <1>2, <2>1, <2>2
<1>5. Path = CHOOSE f : IsPath(f)
  BY DEF Path, IsPath
<1>6. IsPath(Path)
  BY <1>4, <1>5
<1>7. PICK g : g = Path
  OBVIOUS
<1>8. g = [n \in NodeIds |-> IF n = 0 THEN <<>> ELSE Append(g[Parent(n)], Step(n))]
  BY <1>2, <1>6, <1>7
<1>9. \A n \in NodeIds : g[n] = path[n]
  <2> DEFINE Wrong == {n \in NodeIds : g[n] # path[n]}
  <2> SUFFICES ASSUME Wrong # {} PROVE FALSE
    OBVIOUS
  <2>1. PICK n \in Wrong : \A m \in Wrong : n <= m
    <3>1. Wrong \in SUBSET Nat
      BY NodeTyped
    <3> HIDE DEF Wrong
    <3> QED BY <3>1, Least
  <2>2. n \in NodeIds /\ g[n] # path[n] /\ n \in Nat
    BY NodeTyped
  <2>3. n # 0
    BY <1>3, <1>8, <2>2
  <2>4. Parent(n) \in NodeIds /\ Parent(n) < n /\ Parent(n) \in Nat
    BY <1>1, <2>2, <2>3, NodeTyped
  <2>5. g[Parent(n)] = path[Parent(n)]
    <3> SUFFICES ASSUME g[Parent(n)] # path[Parent(n)] PROVE FALSE
      OBVIOUS
    <3>1. Parent(n) \in Wrong
      BY <2>4
    <3>2. n <= Parent(n)
      BY <2>1, <3>1
    <3> HIDE DEF Wrong
    <3> QED BY <2>2, <2>4, <3>2
  <2>6. g[n] = Append(g[Parent(n)], Step(n)) /\ path[n] = Append(path[Parent(n)], Step(n))
    BY <1>1, <1>8, <2>2, <2>3
  <2> QED BY <2>2, <2>5, <2>6
<1>10. g = path
  <2>1. g = [n \in NodeIds |-> g[n]] /\ path = [n \in NodeIds |-> path[n]]
    BY <1>3, <1>8
  <2> QED BY <1>9, <2>1
<1> QED BY <1>7, <1>10

(***************************************************************************)
(* Each node's one output is the terminal that the executors are to see    *)
(* there, from the moment it is linked: preferOutput against the inherited *)
(* one loses nothing, though outputs are merged only along the links.      *)
(***************************************************************************)
THEOREM OutputsArePreferred == Spec => []OutputIsPreferred
<1>1. ASSUME IInv PROVE OutputIsPreferred
  <2> SUFFICES ASSUME phase # "insert", NEW n \in Linked
               PROVE  IsOutput(TokenPats, Path[n], nodes[n].output)
    BY DEF OutputIsPreferred
  <2>1. PICK path : Holds(path)
    BY <1>1 DEF IInv
  <2>2. IsTrie(path) /\ BreadthFirst(path) /\ Links(path)
    BY <2>1 DEF Holds
  <2>3. n \in NodeIds /\ Queued(n)
    <3>1. queue \in Seq(NodeIds \ {0})
      BY <2>2 DEF BreadthFirst
    <3>2. n = 0 \/ \E i \in DOMAIN queue : n = queue[i]
      BY DEF Linked, Range
    <3>3. CASE n = 0
      <4>1. 0 \in NodeIds
        BY <2>2 DEF IsTrie, Token
      <4> QED BY <2>2, <3>3, <4>1, QueueTyped
    <3>4. CASE \E i \in DOMAIN queue : n = queue[i]
      <4>1. PICK i \in 1..Len(queue) : n = queue[i]
        BY <3>1, <3>4
      <4>2. n = Q(i) /\ i \in 0..Len(queue)
        BY <4>1 DEF Q
      <4> QED BY <2>2, <4>2, QueueTyped DEF Queued
    <3> QED BY <3>2, <3>3, <3>4
  <2>4. IsOutput(TokenPats, path[n], nodes[n].output)
    BY <2>2, <2>3 DEF Links
  <2> QED BY <2>2, <2>4, PathIs
<1> QED BY <1>1, Invariance, PTL

-----------------------------------------------------------------------------
\* What defines the walk of advance along the links.
IsLinkWalk(tok, g) ==
  g = [m \in NodeIds |->
        IF tok \in Edges(m) THEN nodes[m].edges[tok]
        ELSE IF m = 0 THEN 0 ELSE g[nodes[m].failure]]

(***************************************************************************)
(* advance without the table: the walk along the links ends at the longest *)
(* node that ends the text, because each link is the next shorter suffix.  *)
(***************************************************************************)
LEMMA WalkIsAdvance ==
  ASSUME NEW path, IsTrie(path), Whole(path),
         \A n \in NodeIds \ {0} : IsLink(path, n, nodes[n].failure),
         NEW tok \in Token, NEW g, g = CHOOSE h : IsLinkWalk(tok, h),
         NEW n \in NodeIds
  PROVE  g[n] \in NodeIds /\ IsAdvance(TokenPats, path[n], tok, path[g[n]])
<1> DEFINE Right(m, x) == x \in NodeIds /\ IsAdvance(TokenPats, path[m], tok, path[x])
<1>1. 0 \in NodeIds /\ \A m \in NodeIds : Len(path[m]) \in Nat
  BY NodeTyped
<1>2. ASSUME NEW m \in NodeIds, tok \in Edges(m) PROVE Right(m, nodes[m].edges[tok])
  BY <1>2, AdvanceToChild, EdgeIs
<1>3. ASSUME tok \notin Edges(0) PROVE Right(0, 0)
  BY <1>1, <1>3, AdvanceAtRoot
<1>4. ASSUME NEW m \in NodeIds \ {0}, tok \notin Edges(m), NEW x, Right(nodes[m].failure, x)
      PROVE  Right(m, x)
  BY <1>4, AdvanceByLink
<1>5. ASSUME NEW m \in NodeIds, NEW x, NEW y, Right(m, x), Right(m, y) PROVE x = y
  BY <1>5, AdvanceIsOne
<1>6. \A m \in NodeIds : \E x : Right(m, x)
  BY AdvanceExists
<1>7. \A m \in NodeIds \ {0} :
        nodes[m].failure \in NodeIds /\ Len(path[nodes[m].failure]) < Len(path[m])
  BY DEF IsLink, IsSuffix
<1> HIDE DEF Right
<1> DEFINE adv == [m \in NodeIds |-> CHOOSE x : Right(m, x)]
<1>8. \A m \in NodeIds : Right(m, adv[m])
  BY <1>6
<1>9. IsLinkWalk(tok, adv)
  <2>1. ASSUME NEW m \in NodeIds
        PROVE  adv[m] = IF tok \in Edges(m) THEN nodes[m].edges[tok]
                        ELSE IF m = 0 THEN 0 ELSE adv[nodes[m].failure]
    <3>1. Right(m, adv[m])
      BY <1>8
    <3> HIDE DEF adv
    <3>2. CASE tok \in Edges(m)
      BY <1>2, <1>5, <3>1, <3>2
    <3>3. CASE tok \notin Edges(m) /\ m = 0
      BY <1>3, <1>5, <3>1, <3>3
    <3>4. CASE tok \notin Edges(m) /\ m # 0
      <4>1. Right(nodes[m].failure, adv[nodes[m].failure])
        BY <1>7, <1>8, <3>4
      <4>2. Right(m, adv[nodes[m].failure])
        BY <1>4, <3>4, <4>1
      <4> QED BY <1>5, <3>1, <3>4, <4>2
    <3> QED BY <3>2, <3>3, <3>4
  <2>2. adv = [m \in NodeIds |-> adv[m]]
    OBVIOUS
  <2> HIDE DEF adv
  <2>3. adv = [m \in NodeIds |->
                IF tok \in Edges(m) THEN nodes[m].edges[tok]
                ELSE IF m = 0 THEN 0 ELSE adv[nodes[m].failure]]
    BY <2>1, <2>2
  <2> QED BY <2>3 DEF IsLinkWalk
<1>10. IsLinkWalk(tok, g)
  BY <1>9
<1>11. \A m \in NodeIds : g[m] = IF tok \in Edges(m) THEN nodes[m].edges[tok]
                                ELSE IF m = 0 THEN 0 ELSE g[nodes[m].failure]
  BY <1>10 DEF IsLinkWalk
<1> HIDE DEF adv
<1>12. \A m \in NodeIds : Right(m, g[m])
  <2> DEFINE Wrong == {m \in NodeIds : ~Right(m, g[m])}
             Depths == {Len(path[m]) : m \in Wrong}
  <2> SUFFICES ASSUME Wrong # {} PROVE FALSE
    OBVIOUS
  <2>1. Depths \in SUBSET Nat /\ Depths # {}
    BY <1>1
  <2>2. PICK d \in Depths : \A e \in Depths : d <= e
    <3> HIDE DEF Depths
    <3> QED BY <2>1, Least
  <2>3. PICK m \in Wrong : Len(path[m]) = d
    OBVIOUS
  <2>4. m \in NodeIds /\ ~Right(m, g[m])
    OBVIOUS
  <2>5. \A k \in NodeIds : ~Right(k, g[k]) => Len(path[m]) <= Len(path[k])
    BY <2>2, <2>3
  <2> HIDE DEF Wrong, Depths
  <2>6. tok \notin Edges(m)
    BY <1>2, <1>11, <2>4
  <2>7. m # 0
    BY <1>3, <1>11, <2>4, <2>6
  <2>8. nodes[m].failure \in NodeIds /\ ~(Len(path[m]) <= Len(path[nodes[m].failure]))
    BY <1>1, <1>7, <2>4, <2>7
  <2>9. Right(nodes[m].failure, g[nodes[m].failure])
    BY <2>5, <2>8
  <2>10. g[m] = g[nodes[m].failure]
    BY <1>11, <2>4, <2>6, <2>7
  <2> QED BY <1>4, <2>4, <2>6, <2>7, <2>9, <2>10
<1> QED BY <1>12 DEF Right

(***************************************************************************)
(* The finished plan is the automaton of its patterns: its nodes are their *)
(* prefixes, once each, and advance leads to the longest of them that ends *)
(* the text, whether it reads the table or walks the links; maxUnits and   *)
(* empty are those of the patterns.                                        *)
(***************************************************************************)
THEOREM PlanIsTheAutomaton == Spec => []PlanIsAutomaton
<1>1. ASSUME IInv PROVE PlanIsAutomaton
  <2> SUFFICES ASSUME phase = "built"
               PROVE  /\ Range(Path) = Nodes(TokenPats) /\ IsInjective(Path)
                      /\ \A n \in NodeIds, tok \in 0..(nextToken - 1) :
                           IsAdvance(TokenPats, Path[n], tok, Path[IF tok = 0 THEN 0 ELSE Advance(n, tok)])
                      /\ IsMaxUnits(TokenPats, maxUnits)
                      /\ IF EmptyIds(TokenPats) = {} THEN empty = -1
                         ELSE empty \in EmptyIds(TokenPats)
                              /\ \A id \in EmptyIds(TokenPats) : empty <= id
    BY DEF PlanIsAutomaton
  <2>1. PICK path : Holds(path)
    BY <1>1 DEF IInv
  <2>2. Typed /\ Limits
    BY <1>1 DEF IInv
  <2>3. Core(path) /\ Whole(path)
    BY <2>1, <2>2, CoreOfHolds
  <2>4. /\ IsTrie(path) /\ Links(path) /\ patternID \notin DOMAIN patterns
        /\ \A n \in NodeIds : Queued(n)
        /\ dense # NoTable => \A n \in NodeIds : IsRow(path, n)
    BY <2>1, <2>3 DEF Core, Holds
  <2>5. Path = path
    BY <2>4, PathIs
  <2>6. path \in [NodeIds -> Seq(Token)] /\ path[0] = <<>>
        /\ \A n, m \in NodeIds : path[n] = path[m] => n = m
    BY <2>4 DEF IsTrie
  <2>7. Range(path) = Nodes(TokenPats) /\ IsInjective(path)
    <3>1. DOMAIN path = NodeIds
      BY <2>6
    <3>2. Range(path) = {path[n] : n \in NodeIds}
      BY <3>1 DEF Range
    <3> QED BY <2>3, <2>6, <3>1, <3>2 DEF Whole, IsInjective
  <2>8. ASSUME NEW n \in NodeIds, NEW tok \in 0..(nextToken - 1)
        PROVE  IsAdvance(TokenPats, path[n], tok, path[IF tok = 0 THEN 0 ELSE Advance(n, tok)])
    <3>1. CASE tok = 0
      BY <2>6, <3>1 DEF IsAdvance
    <3>2. CASE tok # 0
      <4>1. tok \in Token /\ tok \in 1..(nextToken - 1)
        BY <2>2, <3>2 DEF Token, Typed
      <4>2. CASE dense # NoTable
        <5>1. Advance(n, tok) = dense[n][tok]
          BY <4>2 DEF Advance
        <5>2. IsAdvance(TokenPats, path[n], tok, path[dense[n][tok]])
          BY <2>4, <4>1, <4>2 DEF IsRow
        <5> QED BY <3>2, <5>1, <5>2
      <4>3. CASE dense = NoTable
        <5>1. PICK g : g = CHOOSE h : IsLinkWalk(tok, h)
          OBVIOUS
        <5>2. Advance(n, tok) = g[n]
          BY <4>3, <5>1 DEF Advance, IsLinkWalk
        <5>3. \A m \in NodeIds \ {0} : IsLink(path, m, nodes[m].failure)
          BY <2>4 DEF Links
        <5>4. IsAdvance(TokenPats, path[n], tok, path[g[n]])
          BY <2>3, <2>4, <4>1, <5>1, <5>3, WalkIsAdvance
        <5> QED BY <3>2, <5>2, <5>4
      <4> QED BY <4>2, <4>3
    <3> QED BY <3>1, <3>2
  <2>9. /\ Ids(TokenPats) = DOMAIN patterns
        /\ \A id \in DOMAIN patterns :
             /\ Done(id) /\ id \in Nat /\ Len(TokenPats[id]) = Len(patterns[id])
             /\ patterns[id] = <<>> <=> TokenPats[id] = <<>>
    <3>1. ASSUME NEW id \in DOMAIN patterns
          PROVE  /\ Done(id) /\ id \in Nat /\ Len(TokenPats[id]) = Len(patterns[id])
                 /\ patterns[id] = <<>> <=> TokenPats[id] = <<>>
      <4>1. Done(id)
        BY <2>2, <2>4, AllDone
      <4>2. id \in Nat /\ Len(TokenPats[id]) = Len(patterns[id]) /\ TokenPats[id] \in Seq(Token)
        BY <2>3 DEF Whole
      <4>3. patterns[id] \in Seq(Letters)
        BY <2>2, PatternsTyped
      <4> QED BY <4>1, <4>2, <4>3
    <3> QED BY <2>3, <3>1 DEF Whole
  <2>10. IsMaxUnits(TokenPats, maxUnits)
    BY <2>2, <2>9 DEF IsMaxUnits, Limits
  <2>11. IF EmptyIds(TokenPats) = {} THEN empty = -1
         ELSE empty \in EmptyIds(TokenPats) /\ \A id \in EmptyIds(TokenPats) : empty <= id
    <3>1. \A id : id \in EmptyIds(TokenPats) <=> id \in DOMAIN patterns /\ patterns[id] = <<>>
      BY <2>9 DEF EmptyIds
    <3>2. CASE empty = -1 /\ \A id \in DOMAIN patterns : Done(id) => patterns[id] # <<>>
      BY <2>9, <3>1, <3>2
    <3>3. CASE /\ Done(empty) /\ patterns[empty] = <<>>
               /\ \A id \in DOMAIN patterns : Done(id) /\ patterns[id] = <<>> => empty <= id
      BY <2>9, <3>1, <3>3 DEF Done
    <3> QED BY <2>2, <3>2, <3>3 DEF Limits
  <2> QED BY <2>5, <2>7, <2>8, <2>10, <2>11
<1> QED BY <1>1, Invariance, PTL

(***************************************************************************)
(* maxBytes bounds every text that a pattern folds to, in bytes, though    *)
(* maxFoldRuneWidth adds up the widest member of each unit on its own.     *)
(***************************************************************************)
THEOREM MaxBytesCovers == Spec => []WindowsCoverMatches
<1>1. ASSUME IInv PROVE WindowsCoverMatches
  <2> SUFFICES ASSUME phase = "built", NEW id \in DOMAIN patterns,
                      NEW text \in [DOMAIN patterns[id] -> Letters],
                      \A i \in DOMAIN text : tokenOf[text[i]] = TokenPats[id][i]
               PROVE  Spelled(text) <= maxBytes
    BY DEF WindowsCoverMatches
  <2>1. PICK path : Holds(path)
    BY <1>1 DEF IInv
  <2>2. Typed /\ Limits
    BY <1>1 DEF IInv
  <2>3. IsTrie(path) /\ HoldsPrefixes(path) /\ patternID \notin DOMAIN patterns
    BY <2>1, <2>2, CoreOfHolds DEF Core
  <2>4. Done(id) /\ Read(id) = Len(patterns[id])
    BY <2>2, <2>3, AllDone
  <2>5. DOMAIN patterns[id] = 1..Len(patterns[id])
        /\ \A i \in 1..Len(patterns[id]) : patterns[id][i] \in Letters
    BY <2>2, PatternsTyped
  <2>6. Bounds(id, Len(patterns[id]), maxBytes)
    BY <2>2, <2>4 DEF Limits
  <2>7. ASSUME NEW i \in 1..Len(patterns[id]) PROVE text[i] \in Members(patterns[id][i])
    <3>1. tokenOf[text[i]] = tokenOf[patterns[id][i]]
      BY <2>5 DEF TokenPats
    <3>2. tokenOf[patterns[id][i]] # 0
      BY <2>3, <2>4 DEF HoldsPrefixes
    <3>3. patterns[id][i] \in Letters /\ text[i] \in Letters
      BY <2>5
    <3> QED BY <2>2, <3>1, <3>2, <3>3 DEF Typed, TokensAreOrbits
  <2>8. text \in [1..Len(patterns[id]) -> Letters]
    BY <2>5
  <2> QED BY <2>6, <2>7, <2>8 DEF Bounds
<1> QED BY <1>1, Invariance, PTL
=============================================================================
