------------------------ MODULE PairAnchored_proofs ------------------------
(***************************************************************************)
(* The scan for anchors finds the leftmost match of the lowest index, for  *)
(* every pattern set with anchors, every choice of them and every ASCII    *)
(* haystack.                                                               *)
(***************************************************************************)
EXTENDS PairAnchored, FoldPlan_proofs

-----------------------------------------------------------------------------
(***************************************************************************)
(* The inductive invariant.  AnchorsDecide speaks of the bytes passed,     *)
(* CheckedDecide of the anchors tested at the byte at hand, ReplayHolds of *)
(* the replay, which reads the rest of the haystack from its start.        *)
(***************************************************************************)
Typed ==
  /\ pats \in PatternSets /\ IsPatternSet(pats)
  /\ UsedTokens(pats) \subseteq DOMAIN Forms
  /\ hay \in Haystacks /\ IsSpelled(hay) /\ AllAscii
  /\ anchorAt \in Anchors(pats)
  /\ phase \in {"skip", "check", "replay", "done"}
  /\ at \in 0..Bytes(hay)
  /\ left \subseteq DOMAIN anchorAt
  /\ start \in 0..hay.n /\ read \in 0..(hay.n - start)
  /\ state \in Nodes(pats)
  /\ found \in {-1} \cup Ids(pats)
  /\ best # NoMatch => /\ best.pattern \in Ids(pats) /\ best.start \in 0..hay.n
                       /\ best = [pattern |-> best.pattern, start |-> best.start]

\* best is at least as good as pattern id at byte u.
Decided(id, u) == best # NoMatch /\ Before(best.start, best.pattern, u, id)

EmptyFirst == \A id \in EmptyIds(pats) : Decided(id, 0)

CheckedDecide ==
  phase \in {"check", "replay"} =>
    /\ at + 1 < Bytes(hay)
    /\ \A id \in (DOMAIN anchorAt) \ left, u \in 0..hay.n :
         Occurs(pats, hay, id, u) /\ u + anchorAt[id] = at
           => Decided(id, u) \/ (phase = "replay" /\ u = start)

\* The haystack as the replay sees it.
Rest == Part(hay, start, hay.n)

\* The lowest of the non-empty patterns that occur at the start and have been
\* read to their ends.
FoundIsLowest ==
  /\ found >= 0 => /\ pats[found] # <<>>
                   /\ Occurs(pats, Rest, found, 0)
  /\ \A id \in Ids(pats) :
       pats[id] # <<>> /\ Occurs(pats, Rest, id, 0) /\ Len(pats[id]) <= read
         => found >= 0 /\ found <= id

ReplayHolds ==
  phase = "replay" =>
    /\ best # NoMatch => start <= best.start
    /\ EndsText(Rest, read, state)
    /\ Tracks(pats, Rest, read, state)
    /\ FoundIsLowest

IInv == /\ Typed
        /\ EmptyFirst
        /\ AnchorsDecide
        /\ LowestAtStart
        /\ CheckedDecide
        /\ ReplayHolds
        /\ phase = "done" => IsAnswer(pats, hay, best)

-----------------------------------------------------------------------------
(***************************************************************************)
(* A haystack of ASCII bytes: units are bytes, spelled by themselves.      *)
(***************************************************************************)
LEMMA AsciiHaystack ==
  ASSUME Typed
  PROVE  /\ IsHaystack(hay) /\ hay.n \in Nat /\ Bytes(hay) = hay.n
         /\ \A u \in 0..hay.n : hay.off[u] = u
         /\ \A u \in 0..(hay.n - 1) : hay.bytes[u] \in Ascii
<1>1. /\ IsHaystack(hay) /\ hay.n \in Nat
      /\ \A i \in 0..(Bytes(hay) - 1) : hay.bytes[i] \in Ascii
  BY DEF Typed, IsSpelled, IsHaystack, AllAscii
<1>2. ASSUME NEW v \in 0..(hay.n - 1) PROVE hay.ascii[v]
  <2>1. v \in 0..hay.n /\ v + 1 \in 0..hay.n /\ v < v + 1 /\ v # hay.n /\ v \in Nat
    BY <1>1
  <2>2. hay.off[v] \in Nat /\ hay.off[v + 1] \in Nat /\ hay.off[v] < hay.off[v + 1]
    BY <1>1, <2>1 DEF IsHaystack
  <2>3. hay.off[v] \in 0..Bytes(hay) /\ hay.off[v] # Bytes(hay) /\ Bytes(hay) \in Nat
    <3>1. Bytes(hay) \in Nat
      BY <1>1 DEF IsHaystack, Bytes
    <3> QED BY <1>1, <2>1, <3>1, OffTyped
  <2>4. hay.bytes[hay.off[v]] \in Ascii
    BY <1>1, <2>3
  <2> DEFINE s == Spelling(hay, v)
  <2>5. s[1] = hay.bytes[hay.off[v]]
    <3>1. 1 \in 1..(hay.off[v + 1] - hay.off[v]) /\ hay.off[v] + 1 - 1 = hay.off[v]
      BY <2>2
    <3> QED BY <3>1 DEF Spelling
  <2>6. hay.ascii[v] <=> s[1] \in Ascii
    BY DEF Typed, IsSpelled
  <2> QED BY <2>4, <2>5, <2>6
<1>3. \A u \in 0..hay.n : hay.off[u] = u
  <2>1. 0 \in 0..hay.n /\ hay.n \in 0..hay.n /\ \A u \in 0..0 : hay.off[u] = u
    BY <1>1 DEF IsHaystack
  <2> QED BY <1>1, <1>2, <2>1, AsciiRun
<1>4. Bytes(hay) = hay.n
  BY <1>1, <1>3 DEF Bytes
<1> QED BY <1>1, <1>3, <1>4

LEMMA AsciiUnit ==
  ASSUME Typed, NEW u \in 0..(hay.n - 1), NEW t \in DOMAIN Forms, hay.tok[u] = t
  PROVE  <<hay.bytes[u]>> \in Forms[t] /\ hay.bytes[u] \in Ascii
<1>1. /\ hay.n \in Nat /\ hay.bytes[u] \in Ascii
      /\ hay.off[u] = u /\ hay.off[u + 1] = u + 1
  <2>1. u \in 0..hay.n /\ u + 1 \in 0..hay.n
    BY AsciiHaystack
  <2> QED BY <2>1, AsciiHaystack
<1>2. Spelling(hay, u) = <<hay.bytes[u]>>
  <2>1. Spelling(hay, u) = [i \in 1..1 |-> hay.bytes[u + i - 1]]
    BY <1>1 DEF Spelling
  <2>2. \A i \in 1..1 : u + i - 1 = u
    BY <1>1
  <2>3. [i \in 1..1 |-> hay.bytes[u + i - 1]] = <<hay.bytes[u]>>
    BY <2>2
  <2> QED BY <2>1, <2>3
<1>3. hay.tok[u] = t <=> Spelling(hay, u) \in Forms[t]
  BY DEF Typed, IsSpelled
<1> QED BY <1>1, <1>2, <1>3

\* The byte an anchor has for a token is the one in the haystack, up to case.
LEMMA AsciiToken ==
  ASSUME PairAnchoredAssumption, Typed,
         NEW u \in 0..(hay.n - 1), NEW t \in DOMAIN Forms, hay.tok[u] = t
  PROVE  HasAsciiForm(t) /\ FoldByte(t) = Lower(hay.bytes[u])
<1> DEFINE f == <<hay.bytes[u]>>
           S == {Lower(e[1]) : e \in {g \in Forms[t] : g[1] \in Ascii}}
<1>1. f \in Forms[t] /\ Len(f) = 1 /\ f[1] = hay.bytes[u] /\ f[1] \in Ascii
  BY AsciiUnit
<1>2. HasAsciiForm(t)
  BY <1>1 DEF HasAsciiForm
<1> HIDE DEF f
<1>3. Lower(hay.bytes[u]) \in S
  BY <1>1
<1>4. \A b \in S : b = Lower(hay.bytes[u])
  BY <1>1 DEF PairAnchoredAssumption
<1>5. FoldByte(t) \in S
  BY <1>3 DEF FoldByte
<1> QED BY <1>2, <1>4, <1>5

\* An occurrence in an ASCII haystack has an anchor, which is there.
LEMMA OccurrenceAnchored ==
  ASSUME PairAnchoredAssumption, Typed, NEW id \in Ids(pats), pats[id] # <<>>,
         NEW u \in 0..hay.n, Occurs(pats, hay, id, u)
  PROVE  /\ id \in DOMAIN anchorAt
         /\ u + anchorAt[id] + 1 < Bytes(hay)
         /\ u + anchorAt[id] \in Nat
         /\ Matches(id, u + anchorAt[id])
<1>0. /\ pats[id] \in Seq(Token) /\ Len(pats[id]) \in Nat \ {0}
      /\ hay.n \in Nat /\ Bytes(hay) = hay.n
      /\ u + Len(pats[id]) <= hay.n
  BY AsciiHaystack DEF Typed, IsPatternSet, Ids, Occurs
<1>1. ASSUME NEW i \in DOMAIN pats[id]
      PROVE  /\ HasAsciiForm(pats[id][i]) /\ u + i - 1 \in 0..(hay.n - 1)
             /\ FoldByte(pats[id][i]) = Lower(hay.bytes[u + i - 1])
  <2>1. i \in 1..Len(pats[id]) /\ u + i - 1 \in 0..(hay.n - 1)
    BY <1>0
  <2>2. hay.tok[u + i - 1] = pats[id][i]
    BY <2>1 DEF Occurs
  <2>3. pats[id][i] \in DOMAIN Forms
    BY DEF Typed, UsedTokens
  <2> QED BY <2>1, <2>2, <2>3, AsciiToken
<1>2. id \in AnchoredIds(pats)
  BY <1>1 DEF AnchoredIds, Spellable
<1>3. id \in DOMAIN anchorAt /\ anchorAt[id] \in Nat /\ anchorAt[id] <= Len(pats[id]) - 2
  BY <1>2 DEF Typed, Anchors
<1>4. u + anchorAt[id] + 1 < Bytes(hay) /\ u + anchorAt[id] \in Nat
  BY <1>0, <1>3
<1>5. ASSUME NEW i \in 0..1
      PROVE  Lower(hay.bytes[u + anchorAt[id] + i]) = FoldByte(pats[id][anchorAt[id] + 1 + i])
  <2> DEFINE j == anchorAt[id] + 1 + i
  <2>1. j \in 1..Len(pats[id]) /\ u + j - 1 = u + anchorAt[id] + i
    BY <1>0, <1>3
  <2>2. j \in DOMAIN pats[id]
    BY <1>0, <2>1
  <2> HIDE DEF j
  <2>3. FoldByte(pats[id][j]) = Lower(hay.bytes[u + j - 1])
    BY <1>1, <2>2
  <2> QED BY <2>1, <2>3 DEF j
<1>6. Matches(id, u + anchorAt[id])
  BY <1>5 DEF Matches
<1> QED BY <1>3, <1>4, <1>6

-----------------------------------------------------------------------------
\* The three choices the scan makes are of something that is there.
LEMMA LowestIsLeast ==
  ASSUME NEW ids \in SUBSET Nat, ids # {}
  PROVE  Lowest(ids) \in ids /\ \A other \in ids : Lowest(ids) <= other
BY Least DEF Lowest

LEMMA LowestLeft ==
  ASSUME Typed, left # {}
  PROVE  /\ Lowest(left) \in left /\ Lowest(left) \in DOMAIN anchorAt
         /\ Lowest(left) \in Ids(pats) /\ pats[Lowest(left)] # <<>>
         /\ anchorAt[Lowest(left)] \in Nat
<1>1. DOMAIN anchorAt = AnchoredIds(pats) /\ \A id \in DOMAIN anchorAt : anchorAt[id] \in Nat
  BY DEF Typed, Anchors
<1>2. left \in SUBSET Nat
  BY <1>1 DEF Typed, AnchoredIds, IsPatternSet, Ids
<1>3. Lowest(left) \in left
  BY <1>2, LowestIsLeast
<1>4. Lowest(left) \in DOMAIN anchorAt
  BY <1>3 DEF Typed
<1> QED BY <1>1, <1>3, <1>4 DEF AnchoredIds

LEMMA MaxAtIsMost ==
  ASSUME Typed, NEW id \in DOMAIN anchorAt
  PROVE  MaxAt \in Nat /\ anchorAt[id] \in Nat /\ anchorAt[id] <= MaxAt
<1>0. \A i \in DOMAIN anchorAt : anchorAt[i] \in 0..255
  BY DEF Typed, Anchors
<1>1. \A i \in DOMAIN anchorAt : 255 - anchorAt[i] \in Nat
  BY <1>0
<1>2. PICK j \in DOMAIN anchorAt :
        \A i \in DOMAIN anchorAt : 255 - anchorAt[j] <= 255 - anchorAt[i]
  <2> DEFINE S == {255 - anchorAt[i] : i \in DOMAIN anchorAt}
  <2>1. S \in SUBSET Nat /\ S # {}
    BY <1>1
  <2>2. \E least \in S : \A y \in S : least <= y
    <3> HIDE DEF S
    <3> QED BY <2>1, Least
  <2> QED BY <2>2
<1>3. ASSUME NEW i \in DOMAIN anchorAt PROVE anchorAt[i] <= anchorAt[j]
  <2>1. anchorAt[i] \in 0..255 /\ anchorAt[j] \in 0..255
    BY <1>0
  <2>2. 255 - anchorAt[j] <= 255 - anchorAt[i]
    BY <1>2
  <2> DEFINE a == anchorAt[i]
             b == anchorAt[j]
  <2> HIDE DEF a, b
  <2>3. a \in 0..255 /\ b \in 0..255 /\ 255 - b <= 255 - a
    BY <2>1, <2>2 DEF a, b
  <2>4. a <= b
    BY <2>3
  <2> QED BY <2>4 DEF a, b
<1>4. MaxAt \in {anchorAt[i] : i \in DOMAIN anchorAt} /\ \A i \in DOMAIN anchorAt : anchorAt[i] <= MaxAt
  <2>1. \E m \in {anchorAt[i] : i \in DOMAIN anchorAt} : \A i \in DOMAIN anchorAt : anchorAt[i] <= m
    BY <1>3
  <2> QED BY <2>1 DEF MaxAt
<1>5. MaxAt \in Nat
  BY <1>0, <1>4
<1> QED BY <1>0, <1>4, <1>5

LEMMA MaxUnitsIsMost ==
  ASSUME PairAnchoredAssumption, Typed
  PROVE  MaxUnits \in Nat /\ \A id \in Ids(pats) : Len(pats[id]) <= MaxUnits
<1>1. \E m \in {Len(pats[id]) : id \in Ids(pats)} : IsMaxUnits(pats, m)
  BY DEF PairAnchoredAssumption, Typed
<1>2. MaxUnits \in {Len(pats[id]) : id \in Ids(pats)} /\ IsMaxUnits(pats, MaxUnits)
  BY <1>1 DEF MaxUnits
<1> QED BY <1>2 DEF IsMaxUnits, Typed, IsPatternSet, Ids

\* The replay ends with the haystack or with the longest pattern.
LEMMA LimitBounds ==
  ASSUME PairAnchoredAssumption, Typed
  PROVE  /\ Limit \in start..hay.n
         /\ \A id \in Ids(pats) :
              Occurs(pats, hay, id, start) => start + Len(pats[id]) <= Limit
<1>0. /\ MaxUnits \in Nat /\ hay.n \in Nat /\ Bytes(hay) = hay.n /\ start \in 0..hay.n
      /\ \A id \in Ids(pats) : Len(pats[id]) \in Nat /\ Len(pats[id]) <= MaxUnits
  BY MaxUnitsIsMost, AsciiHaystack DEF Typed, IsPatternSet, Ids
<1>1. Limit = IF start + MaxUnits > hay.n THEN hay.n ELSE start + MaxUnits
  BY <1>0 DEF Limit
<1>2. Limit \in start..hay.n
  BY <1>0, <1>1
<1>3. ASSUME NEW id \in Ids(pats), Occurs(pats, hay, id, start)
      PROVE  start + Len(pats[id]) <= Limit
  <2>1. start + Len(pats[id]) <= hay.n
    BY <1>3 DEF Occurs
  <2> QED BY <1>0, <1>1, <2>1
<1> QED BY <1>2, <1>3

LEMMA RestIsHaystack ==
  ASSUME Typed
  PROVE  /\ IsHaystack(Rest) /\ Rest.n = hay.n - start
         /\ \A i \in 0..(Rest.n - 1) : Rest.tok[i] = hay.tok[start + i]
         /\ \A id \in Ids(pats) : Occurs(pats, Rest, id, 0) <=> Occurs(pats, hay, id, start)
<1>0. IsHaystack(hay) /\ hay.n \in Nat /\ start \in 0..hay.n /\ hay.n \in 0..hay.n
  BY AsciiHaystack DEF Typed
<1>1. IsHaystack(Rest)
  BY <1>0, PartIsHaystack DEF Rest
<1>2. Rest.n = hay.n - start /\ \A i \in 0..(Rest.n - 1) : Rest.tok[i] = hay.tok[start + i]
  BY DEF Rest, Part
<1>3. ASSUME NEW id \in Ids(pats)
      PROVE  Occurs(pats, Rest, id, 0) <=> Occurs(pats, hay, id, start)
  <2>1. start + 0 = start /\ 0 \in Nat
    BY <1>0
  <2>2. Occurs(pats, Rest, id, 0)
          <=> Occurs(pats, hay, id, start + 0) /\ start + 0 + Len(pats[id]) <= hay.n
    BY <1>0, <2>1, PartOccurs DEF Rest, Typed
  <2> QED BY <2>1, <2>2 DEF Occurs
<1> QED BY <1>1, <1>2, <1>3

-----------------------------------------------------------------------------
\* A better best has decided whatever the last one had.
LEMMA BetterDecides ==
  ASSUME Typed, Typed', UNCHANGED args,
         best # NoMatch => best' # NoMatch /\ Before(best'.start, best'.pattern, best.start, best.pattern)
  PROVE  \A id \in Ids(pats), u \in 0..hay.n : Decided(id, u) => Decided(id, u)'
<1> SUFFICES ASSUME NEW id \in Ids(pats), NEW u \in 0..hay.n, Decided(id, u)
             PROVE  Decided(id, u)'
  OBVIOUS
<1>1. best # NoMatch /\ Before(best.start, best.pattern, u, id)
  BY DEF Decided
<1>2. /\ best' # NoMatch
      /\ Before(best'.start, best'.pattern, best.start, best.pattern)
  BY <1>1
<1>3. /\ best.start \in Nat /\ best.pattern \in Nat
      /\ best'.start \in Nat /\ best'.pattern \in Nat
      /\ id \in Nat /\ u \in Nat
  <2>0. pats' = pats /\ hay' = hay /\ hay.n \in Nat /\ Ids(pats) \subseteq Nat
    BY AsciiHaystack DEF Typed, IsPatternSet, Ids, args
  <2>1. best.start \in 0..hay.n /\ best.pattern \in Ids(pats)
    BY <1>1 DEF Typed
  <2>2. best'.start \in 0..hay.n /\ best'.pattern \in Ids(pats)
    BY <1>2, <2>0 DEF Typed
  <2> QED BY <2>0, <2>1, <2>2
<1>4. Before(best'.start, best'.pattern, u, id)
  BY <1>1, <1>2, <1>3 DEF Before
<1> QED BY <1>2, <1>4 DEF Decided

\* When everything is decided, best is the answer.
LEMMA DecidedIsAnswer ==
  ASSUME Typed, LowestAtStart,
         \A id \in Ids(pats), u \in 0..hay.n : Occurs(pats, hay, id, u) => Decided(id, u)
  PROVE  IsAnswer(pats, hay, best)
<1>1. CASE best = NoMatch
  <2>1. \A id \in Ids(pats), u \in 0..hay.n : ~Occurs(pats, hay, id, u)
    BY <1>1 DEF Decided
  <2> QED BY <1>1, <2>1 DEF IsAnswer
<1>2. CASE best # NoMatch
  <2>1. best.pattern \in Ids(pats) /\ best.start \in 0..hay.n
    BY <1>2 DEF Typed
  <2>2. best = [pattern |-> best.pattern, start |-> hay.off[best.start]]
    BY <1>2, <2>1, AsciiHaystack DEF Typed
  <2>3. Occurs(pats, hay, best.pattern, best.start)
    BY <1>2 DEF LowestAtStart
  <2>4. \A id \in Ids(pats), u \in 0..hay.n :
          Occurs(pats, hay, id, u) => Before(best.start, best.pattern, u, id)
    BY DEF Decided
  <2> QED BY <2>1, <2>2, <2>3, <2>4 DEF IsAnswer
<1> QED BY <1>1, <1>2

\* The empty patterns are decided at once and everywhere.
LEMMA EmptyDecided ==
  ASSUME Typed, EmptyFirst, NEW id \in EmptyIds(pats), NEW u \in 0..hay.n
  PROVE  Decided(id, u)
<1>1. /\ best # NoMatch /\ best.start \in Nat /\ best.pattern \in Nat
      /\ Before(best.start, best.pattern, 0, id)
      /\ u \in Nat /\ id \in Nat
  BY AsciiHaystack DEF EmptyFirst, Decided, Typed, IsPatternSet, Ids, EmptyIds
<1>2. Before(best.start, best.pattern, u, id)
  BY <1>1 DEF Before
<1> QED BY <1>1, <1>2 DEF Decided

-----------------------------------------------------------------------------
\* Every occurrence whose anchor lies before byte a is decided.
DecidedUpTo(a) ==
  \A id \in DOMAIN anchorAt, u \in 0..(hay.n - 1) :
    Occurs(pats, hay, id, u) /\ u + anchorAt[id] < a => Decided(id, u)

LEMMA Anchored ==
  ASSUME Typed, NEW id \in DOMAIN anchorAt
  PROVE  /\ id \in Ids(pats) /\ pats[id] # <<>> /\ Len(pats[id]) \in Nat \ {0}
         /\ anchorAt[id] \in Nat
BY DEF Typed, Anchors, AnchoredIds, IsPatternSet, Ids

\* A non-empty pattern occurs at a unit before the end.
LEMMA OccursBeforeEnd ==
  ASSUME Typed, NEW id \in Ids(pats), pats[id] # <<>>, NEW u \in 0..hay.n,
         Occurs(pats, hay, id, u)
  PROVE  u \in 0..(hay.n - 1)
<1>1. Len(pats[id]) \in Nat \ {0} /\ hay.n \in Nat
  BY AsciiHaystack DEF Typed, IsPatternSet, Ids
<1> QED BY <1>1 DEF Occurs

\* Once all anchors are passed best is the answer ...
LEMMA PassedIsAnswer ==
  ASSUME PairAnchoredAssumption, Typed, EmptyFirst, LowestAtStart,
         NEW a \in Nat, a + 1 >= Bytes(hay), DecidedUpTo(a)
  PROVE  IsAnswer(pats, hay, best)
<1>1. ASSUME NEW id \in Ids(pats), NEW u \in 0..hay.n, Occurs(pats, hay, id, u)
      PROVE  Decided(id, u)
  <2>1. CASE pats[id] = <<>>
    BY <2>1, EmptyDecided DEF EmptyIds
  <2>2. CASE pats[id] # <<>>
    <3>1. /\ id \in DOMAIN anchorAt /\ u \in 0..(hay.n - 1)
          /\ u + anchorAt[id] + 1 < Bytes(hay) /\ u + anchorAt[id] \in Nat
      BY <1>1, <2>2, OccurrenceAnchored, OccursBeforeEnd
    <3>2. u + anchorAt[id] < a
      <4>1. Bytes(hay) \in Nat
        BY AsciiHaystack
      <4> QED BY <3>1, <4>1
    <3> QED BY <1>1, <3>1, <3>2 DEF DecidedUpTo
  <2> QED BY <2>1, <2>2
<1> QED BY <1>1, DecidedIsAnswer

\* ... and already when no anchor to come can reach back to its start.
LEMMA SettledIsAnswer ==
  ASSUME PairAnchoredAssumption, Typed, EmptyFirst, LowestAtStart,
         DecidedUpTo(at), Settled
  PROVE  IsAnswer(pats, hay, best)
<1>0. /\ best # NoMatch /\ at > best.start + MaxAt
      /\ best.start \in Nat /\ at \in Nat
  BY AsciiHaystack DEF Settled, Typed
<1>1. ASSUME NEW id \in Ids(pats), NEW u \in 0..hay.n, Occurs(pats, hay, id, u)
      PROVE  Decided(id, u)
  <2>1. CASE pats[id] = <<>>
    BY <2>1, EmptyDecided DEF EmptyIds
  <2>2. CASE pats[id] # <<>>
    <3>1. id \in DOMAIN anchorAt /\ u \in 0..(hay.n - 1)
      BY <1>1, <2>2, OccurrenceAnchored, OccursBeforeEnd
    <3>2. CASE u + anchorAt[id] < at
      BY <1>1, <3>1, <3>2 DEF DecidedUpTo
    <3>3. CASE ~(u + anchorAt[id] < at)
      <4>1. MaxAt \in Nat /\ anchorAt[id] \in Nat /\ anchorAt[id] <= MaxAt
        BY <3>1, MaxAtIsMost
      <4>2. u \in Nat
        BY <3>1
      <4>3. best.start < u
        BY <1>0, <3>3, <4>1, <4>2
      <4> QED BY <1>0, <4>3 DEF Decided, Before
    <3> QED BY <3>2, <3>3
  <2> QED BY <2>1, <2>2
<1> QED BY <1>1, DecidedIsAnswer

-----------------------------------------------------------------------------
LEMMA InitHolds ==
  ASSUME PairAnchoredAssumption, Init
  PROVE  IInv
<1>1. /\ pats \in PatternSets /\ IsPatternSet(pats) /\ IsSpelled(hay)
      /\ EmptyIds(pats) \in SUBSET Nat
      /\ hay.n \in Nat /\ Bytes(hay) \in Nat
  <2>1. pats \in PatternSets /\ IsPatternSet(pats) /\ IsSpelled(hay)
    BY DEF PairAnchoredAssumption, Init
  <2>2. EmptyIds(pats) \in SUBSET Nat
    BY <2>1 DEF IsPatternSet, EmptyIds, Ids
  <2>3. hay.n \in Nat /\ Bytes(hay) \in Nat
    BY <2>1 DEF IsSpelled, IsHaystack, Bytes
  <2> QED BY <2>1, <2>2, <2>3
<1>2. \/ EmptyIds(pats) = {} /\ best = NoMatch
      \/ \E low \in EmptyIds(pats) :
           /\ \A id \in EmptyIds(pats) : low <= id
           /\ best = [pattern |-> low, start |-> 0]
  BY <1>1, LowestIsLeast DEF Init
<1>3. best # NoMatch =>
        /\ best.pattern \in EmptyIds(pats) /\ best.start = 0
        /\ \A id \in EmptyIds(pats) : best.pattern <= id
        /\ best = [pattern |-> best.pattern, start |-> best.start]
  BY <1>2
<1>4. EmptyIds(pats) # {} => best # NoMatch
  <2>1. \A low : [pattern |-> low, start |-> 0] # NoMatch
    BY DEF NoMatch
  <2> QED BY <1>2, <2>1
<1>5. Typed
  <2>1. 0 \in 0..hay.n /\ 0 \in 0..(hay.n - 0) /\ 0 \in 0..Bytes(hay)
    BY <1>1
  <2>2. best # NoMatch => best.pattern \in Ids(pats) /\ best.start \in 0..hay.n
    BY <1>3, <2>1 DEF EmptyIds
  <2>3. <<>> \in Nodes(pats)
    BY DEF Nodes
  <2> QED BY <1>1, <1>3, <2>1, <2>2, <2>3 DEF Typed, Init, PairAnchoredAssumption
<1>6. EmptyFirst
  BY <1>3, <1>4 DEF EmptyFirst, Decided, Before
<1>7. AnchorsDecide
  <2>1. at = 0 /\ \A id \in DOMAIN anchorAt, u \in 0..(hay.n - 1) : ~(u + anchorAt[id] < at)
    BY <1>5, Anchored DEF Init
  <2> QED BY <2>1 DEF AnchorsDecide
<1>8. LowestAtStart
  <2>1. ASSUME best # NoMatch
        PROVE  Occurs(pats, hay, best.pattern, best.start) /\ pats[best.pattern] = <<>>
    BY <1>1, <1>3, <2>1 DEF EmptyIds, Occurs
  <2> QED BY <2>1 DEF LowestAtStart
<1>9. CheckedDecide /\ ReplayHolds /\ phase # "done"
  BY DEF CheckedDecide, ReplayHolds, Init
<1> QED BY <1>5, <1>6, <1>7, <1>8, <1>9 DEF IInv

\* What a step that leaves best alone keeps.
LEMMA SameBest ==
  ASSUME IInv, UNCHANGED <<args, best>>
  PROVE  /\ EmptyFirst' /\ LowestAtStart'
         /\ DecidedUpTo(at)
         /\ \A id \in Ids(pats), u \in 0..hay.n : Decided(id, u) <=> Decided(id, u)'
         /\ \A a : DecidedUpTo(a) /\ at' = a => AnchorsDecide'
<1>1. pats' = pats /\ hay' = hay /\ anchorAt' = anchorAt /\ best' = best
  BY DEF args
<1>2. EmptyFirst' /\ LowestAtStart'
  BY <1>1 DEF IInv, EmptyFirst, LowestAtStart, Decided
<1>3. \A id \in Ids(pats), u \in 0..hay.n : Decided(id, u) <=> Decided(id, u)'
  BY <1>1 DEF Decided
<1>4. \A a : DecidedUpTo(a) /\ at' = a => AnchorsDecide'
  BY <1>1 DEF DecidedUpTo, AnchorsDecide, Decided
<1>5. DecidedUpTo(at)
  BY DEF IInv, DecidedUpTo, AnchorsDecide, Decided
<1> QED BY <1>2, <1>3, <1>4, <1>5

-----------------------------------------------------------------------------
LEMMA ReturnKeeps ==
  ASSUME PairAnchoredAssumption, IInv, Return, IsAnswer(pats, hay, best)
  PROVE  IInv'
<1>1. UNCHANGED <<args, best>> /\ at' = at /\ phase' = "done"
  BY DEF Return
<1>2. Typed'
  BY DEF IInv, Typed, AllAscii, Return, args, replay
<1>3. EmptyFirst' /\ LowestAtStart' /\ AnchorsDecide'
  BY <1>1, SameBest
<1>4. CheckedDecide' /\ ReplayHolds'
  BY <1>1 DEF CheckedDecide, ReplayHolds
<1>5. IsAnswer(pats, hay, best)'
  BY <1>1 DEF args
<1> QED BY <1>2, <1>3, <1>4, <1>5 DEF IInv

LEMMA ReturnSettledKeeps ==
  ASSUME PairAnchoredAssumption, IInv, ReturnSettled
  PROVE  IInv'
<1>1. DecidedUpTo(at)
  BY DEF IInv, DecidedUpTo, AnchorsDecide, Decided
<1>2. IsAnswer(pats, hay, best)
  BY <1>1, SettledIsAnswer DEF IInv, ReturnSettled
<1> QED BY <1>2, ReturnKeeps DEF ReturnSettled

LEMMA FinishKeeps ==
  ASSUME PairAnchoredAssumption, IInv, Finish
  PROVE  IInv'
<1>1. DecidedUpTo(at)
  BY DEF IInv, DecidedUpTo, AnchorsDecide, Decided
<1>2. at \in Nat
  BY AsciiHaystack DEF IInv, Typed
<1>3. IsAnswer(pats, hay, best)
  BY <1>1, <1>2, PassedIsAnswer DEF IInv, Finish
<1> QED BY <1>3, ReturnKeeps DEF Finish

\* No anchor is skipped.
LEMMA SkipKeeps ==
  ASSUME PairAnchoredAssumption, IInv, Skip
  PROVE  IInv'
<1> USE DEF IInv
<1>1. PICK s \in at..Bytes(hay) :
        /\ MaySkipTo(s)
        /\ at' = s
        /\ phase' = IF s + 1 < Bytes(hay) THEN "check" ELSE "done"
        /\ left' = DOMAIN anchorAt
  BY DEF Skip
<1>2. UNCHANGED <<args, replay, best>>
  BY DEF Skip
<1>0. Bytes(hay) \in Nat /\ at \in 0..Bytes(hay) /\ s \in 0..Bytes(hay) /\ s \in Nat
  BY AsciiHaystack DEF Typed
<1>3. Typed'
  BY <1>0, <1>1, <1>2 DEF Typed, AllAscii, args, replay
<1>4. DecidedUpTo(s)
  <2>1. ASSUME NEW id \in DOMAIN anchorAt, NEW u \in 0..(hay.n - 1),
               Occurs(pats, hay, id, u), u + anchorAt[id] < s
        PROVE  Decided(id, u)
    <3>1. CASE u + anchorAt[id] < at
      BY <1>2, <2>1, <3>1, SameBest DEF DecidedUpTo
    <3>2. CASE ~(u + anchorAt[id] < at)
      <4> DEFINE i == u + anchorAt[id]
      <4>1. id \in Ids(pats) /\ pats[id] # <<>> /\ u \in 0..hay.n
        BY Anchored, AsciiHaystack
      <4>2. i + 1 < Bytes(hay) /\ i \in Nat /\ Matches(id, i)
        BY <2>1, <4>1, OccurrenceAnchored
      <4> HIDE DEF i
      <4>3. i \in at..(s - 1)
        <5>1. ~(i < at) /\ i < s
          BY <2>1, <3>2 DEF i
        <5> QED BY <1>0, <4>2, <5>1
      <4> QED BY <1>1, <4>2, <4>3 DEF MaySkipTo
    <3> QED BY <3>1, <3>2
  <2> QED BY <2>1 DEF DecidedUpTo
<1>5. EmptyFirst' /\ LowestAtStart' /\ AnchorsDecide'
  BY <1>1, <1>2, <1>4, SameBest
<1>6. CheckedDecide'
  <2>1. phase' # "replay" /\ (phase' = "check" => at' + 1 < Bytes(hay))
    BY <1>1
  <2>2. (DOMAIN anchorAt)' \ left' = {} /\ hay' = hay
    BY <1>1, <1>2 DEF args
  <2> QED BY <2>1, <2>2 DEF CheckedDecide
<1>7. ReplayHolds'
  BY <1>1 DEF ReplayHolds
<1>8. ASSUME phase' = "done" PROVE IsAnswer(pats, hay, best)'
  <2>1. s + 1 >= Bytes(hay)
    BY <1>0, <1>1, <1>8
  <2>2. IsAnswer(pats, hay, best)
    BY <1>0, <1>4, <2>1, PassedIsAnswer
  <2> QED BY <1>2, <2>2 DEF args
<1> QED BY <1>3, <1>5, <1>6, <1>7, <1>8

LEMMA NextByteKeeps ==
  ASSUME PairAnchoredAssumption, IInv, NextByte
  PROVE  IInv'
<1> USE DEF IInv
<1>1. /\ phase = "check" /\ left = {} /\ phase' = "skip" /\ at' = at + 1
      /\ UNCHANGED <<args, left, replay, best>>
  BY DEF NextByte
<1>0. Bytes(hay) \in Nat /\ at \in Nat /\ at + 1 < Bytes(hay) /\ hay.n \in Nat
  BY <1>1, AsciiHaystack DEF Typed, CheckedDecide
<1>2. Typed'
  BY <1>0, <1>1 DEF Typed, AllAscii, args, replay
<1>3. DecidedUpTo(at + 1)
  <2>1. ASSUME NEW id \in DOMAIN anchorAt, NEW u \in 0..(hay.n - 1),
               Occurs(pats, hay, id, u), u + anchorAt[id] < at + 1
        PROVE  Decided(id, u)
    <3>1. CASE u + anchorAt[id] < at
      BY <1>1, <2>1, <3>1, SameBest DEF DecidedUpTo
    <3>2. CASE ~(u + anchorAt[id] < at)
      <4>1. anchorAt[id] \in Nat /\ u \in 0..hay.n
        BY <1>0, Anchored
      <4>2. u + anchorAt[id] = at
        BY <1>0, <2>1, <3>2, <4>1
      <4> QED BY <1>1, <2>1, <4>1, <4>2 DEF CheckedDecide
    <3> QED BY <3>1, <3>2
  <2> QED BY <2>1 DEF DecidedUpTo
<1>4. EmptyFirst' /\ LowestAtStart' /\ AnchorsDecide'
  BY <1>1, <1>3, SameBest
<1>5. CheckedDecide' /\ ReplayHolds' /\ phase' # "done"
  BY <1>1 DEF CheckedDecide, ReplayHolds
<1> QED BY <1>2, <1>4, <1>5

-----------------------------------------------------------------------------
\* An anchor that is there but not followed belongs to a later start.
LEMMA RefusedIsDecided ==
  ASSUME Typed, left # {}, ~Admitted(Lowest(left)), NEW u \in 0..hay.n,
         Matches(Lowest(left), at), u + anchorAt[Lowest(left)] = at
  PROVE  Decided(Lowest(left), u)
<1> DEFINE id == Lowest(left)
<1>1. anchorAt[id] \in Nat /\ u \in Nat
  BY LowestLeft, AsciiHaystack
<1> HIDE DEF id
<1>2. at >= anchorAt[id] /\ at - anchorAt[id] = u
  BY <1>1 DEF id
<1>3. best # NoMatch /\ ~(u <= best.start)
  BY <1>2 DEF Admitted, id
<1>4. best.start \in Nat
  BY <1>3, AsciiHaystack DEF Typed
<1>5. best.start < u
  BY <1>1, <1>3, <1>4
<1> QED BY <1>3, <1>5 DEF Decided, Before, id

LEMMA CheckAnchorKeeps ==
  ASSUME PairAnchoredAssumption, IInv, CheckAnchor
  PROVE  IInv'
<1> USE DEF IInv
<1> DEFINE low == Lowest(left)
<1>1. /\ phase = "check" /\ left # {} /\ left' = left \ {low}
      /\ UNCHANGED <<args, at, best>>
  BY DEF CheckAnchor
<1>2. /\ low \in left /\ low \in DOMAIN anchorAt /\ low \in Ids(pats)
      /\ pats[low] # <<>> /\ anchorAt[low] \in Nat
  BY <1>1, LowestLeft
<1>3. EmptyFirst' /\ LowestAtStart' /\ AnchorsDecide'
  BY <1>1, SameBest
<1>4. pats' = pats /\ hay' = hay /\ anchorAt' = anchorAt /\ at' = at /\ best' = best
  BY <1>1 DEF args
<1>5. at + 1 < Bytes(hay) /\ at \in Nat /\ Bytes(hay) = hay.n /\ hay.n \in Nat
  BY <1>1, AsciiHaystack DEF Typed, CheckedDecide
<1>6. ASSUME NEW id \in DOMAIN anchorAt, id \notin left', NEW u \in 0..hay.n,
             Occurs(pats, hay, id, u), u + anchorAt[id] = at
      PROVE  Decided(id, u) \/ id = low
  BY <1>1, <1>6 DEF CheckedDecide
<1>7. ASSUME NEW u \in 0..hay.n, Occurs(pats, hay, low, u)
      PROVE  Matches(low, u + anchorAt[low])
  BY <1>2, <1>7, OccurrenceAnchored
<1> HIDE DEF low
<1>8. CASE ~Admitted(low) /\ UNCHANGED <<phase, replay>>
  <2>1. Typed'
    BY <1>1, <1>4, <1>8 DEF Typed, AllAscii, replay
  <2>2. ASSUME NEW u \in 0..hay.n, Occurs(pats, hay, low, u), u + anchorAt[low] = at
        PROVE  Decided(low, u)
    BY <1>1, <1>7, <1>8, <2>2, RefusedIsDecided DEF low
  <2>3. \A id \in DOMAIN anchorAt, u \in 0..hay.n :
          id \notin left' /\ Occurs(pats, hay, id, u) /\ u + anchorAt[id] = at
            => Decided(id, u)
    BY <1>6, <2>2
  <2>4. CheckedDecide'
    BY <1>4, <1>5, <2>3 DEF CheckedDecide, Decided
  <2>5. ReplayHolds' /\ phase' # "done"
    BY <1>1, <1>8 DEF ReplayHolds
  <2> QED BY <1>3, <2>1, <2>4, <2>5
<1>9. CASE /\ Admitted(low)
           /\ phase' = "replay"
           /\ start' = at - anchorAt[low]
           /\ read' = 0 /\ state' = <<>> /\ found' = -1
  <2>1. start' \in 0..hay.n /\ 0 \in 0..(hay.n - start') /\ start' + anchorAt[low] = at
    <3>1. at >= anchorAt[low]
      BY <1>9 DEF Admitted
    <3> QED BY <1>2, <1>5, <1>9, <3>1
  <2>2. Typed'
    <3>1. <<>> \in Nodes(pats)
      BY DEF Nodes
    <3> QED BY <1>1, <1>4, <1>9, <2>1, <3>1 DEF Typed, AllAscii
  <2>3. ASSUME NEW u \in 0..hay.n, u + anchorAt[low] = at
        PROVE  u = start'
    BY <1>2, <2>1, <2>3
  <2>4. \A id \in DOMAIN anchorAt, u \in 0..hay.n :
          id \notin left' /\ Occurs(pats, hay, id, u) /\ u + anchorAt[id] = at
            => Decided(id, u) \/ u = start'
    BY <1>6, <2>3
  <2>5. CheckedDecide'
    BY <1>4, <1>5, <1>9, <2>4 DEF CheckedDecide, Decided
  <2>6. ReplayHolds'
    <3>1. best' # NoMatch => start' <= best'.start
      BY <1>4, <1>9 DEF Admitted
    <3>2. EndsText(Rest, read, state)'
      BY <1>9 DEF EndsText
    <3>3. Tracks(pats, Rest, read, state)'
      <4>1. ASSUME NEW b \in 0..Rest'.n, b < 0 PROVE FALSE
        <5>1. Rest'.n \in Int /\ b \in Nat
          BY <4>1
        <5> QED BY <4>1, <5>1
      <4> QED BY <1>4, <1>9, <4>1 DEF Tracks
    <3>4. FoundIsLowest'
      <4>1. \A id \in Ids(pats) : pats[id] # <<>> => ~(Len(pats[id]) <= 0)
        BY DEF Typed, IsPatternSet, Ids
      <4> QED BY <1>4, <1>9, <4>1 DEF FoundIsLowest
    <3> QED BY <3>1, <3>2, <3>3, <3>4 DEF ReplayHolds
  <2> QED BY <1>3, <1>9, <2>2, <2>5, <2>6
<1> QED BY <1>8, <1>9 DEF CheckAnchor, low

-----------------------------------------------------------------------------
\* What a unit of the replay finds: a pattern that ends there and started with
\* the replay, and of those the lowest.
LEMMA FoundAfterUnit ==
  ASSUME PairAnchoredAssumption, Typed, ReplayHolds, phase = "replay", start + read < Limit,
         NEW next \in Nodes(pats), IsAdvance(pats, state, hay.tok[start + read], next),
         NEW out, IsOutput(pats, next, out)
  PROVE  /\ EndsText(Rest, read + 1, next)
         /\ Tracks(pats, Rest, read + 1, next)
         /\ read + 1 \in 0..(hay.n - start)
         /\ out.pattern >= 0 /\ out.units = read + 1 =>
              /\ out.pattern \in Ids(pats) /\ pats[out.pattern] # <<>>
              /\ Occurs(pats, Rest, out.pattern, 0)
         /\ \A id \in Ids(pats) :
              pats[id] # <<>> /\ Occurs(pats, Rest, id, 0) /\ Len(pats[id]) = read + 1
                => out.units = read + 1 /\ out.pattern >= 0 /\ out.pattern <= id
<1>0. /\ IsHaystack(Rest) /\ Rest.n = hay.n - start /\ Rest.n \in Nat
      /\ IsPatternSet(pats) /\ Ids(pats) \subseteq Nat
      /\ start \in Nat /\ hay.n \in Nat /\ read \in Nat
      /\ state \in Nodes(pats)
      /\ EndsText(Rest, read, state) /\ Tracks(pats, Rest, read, state)
  <2>1. IsHaystack(Rest) /\ Rest.n = hay.n - start
    BY RestIsHaystack
  <2>2. Rest.n \in Nat
    BY <2>1 DEF IsHaystack
  <2>3. /\ IsPatternSet(pats) /\ Ids(pats) \subseteq Nat
        /\ start \in Nat /\ hay.n \in Nat /\ read \in Nat /\ state \in Nodes(pats)
    BY AsciiHaystack DEF Typed, IsPatternSet, Ids
  <2>4. EndsText(Rest, read, state) /\ Tracks(pats, Rest, read, state)
    BY DEF ReplayHolds
  <2> QED BY <2>1, <2>2, <2>3, <2>4
<1>1. read \in 0..(Rest.n - 1) /\ read + 1 \in 0..Rest.n
  <2>1. Limit \in start..hay.n
    BY LimitBounds
  <2>2. read < hay.n - start
    BY <1>0, <2>1
  <2> QED BY <1>0, <2>2
<1>2. IsAdvance(pats, state, Rest.tok[read], next)
  <2>1. Rest.tok[read] = hay.tok[start + read]
    BY <1>1, RestIsHaystack
  <2> QED BY <2>1
<1>3. EndsText(Rest, read + 1, next) /\ Covers(pats, Rest, read, next)
  BY <1>0, <1>1, <1>2, AdvanceTracks
<1> DEFINE e == read + 1
<1>4. Tracks(pats, Rest, read + 1, next)
  BY <1>0, <1>1, <1>3, CoversTracks
<1>5. e \in 0..Rest.n /\ EndsText(Rest, e, next) /\ e \in Nat
  BY <1>0, <1>1, <1>3
<1>6. ASSUME out.pattern >= 0
      PROVE  /\ out.pattern \in Ids(pats) /\ out.units = Len(pats[out.pattern])
             /\ out.units \in 1..e
             /\ Occurs(pats, Rest, out.pattern, e - out.units)
  <2> HIDE DEF e
  <2> QED BY <1>0, <1>5, <1>6, OutputOccurs
<1>7. ASSUME out.pattern >= 0, out.units = e
      PROVE  /\ out.pattern \in Ids(pats) /\ pats[out.pattern] # <<>>
             /\ Occurs(pats, Rest, out.pattern, 0)
  <2>1. e - out.units = 0 /\ out.units # 0
    BY <1>5, <1>6, <1>7
  <2> QED BY <1>6, <1>7, <2>1
<1>8. ASSUME NEW id \in Ids(pats), pats[id] # <<>>, Occurs(pats, Rest, id, 0),
             Len(pats[id]) = e
      PROVE  out.units = e /\ out.pattern >= 0 /\ out.pattern <= id
  <2>1. Len(pats[id]) <= Len(next)
    <3>1. 0 \in 0..read /\ read < 0 + Len(pats[id]) /\ read + 1 - 0 = e
      BY <1>0, <1>8
    <3>2. read + 1 - 0 <= Len(next)
      BY <1>3, <1>8, <3>1 DEF Covers
    <3> QED BY <1>8, <3>1, <3>2
  <2>2. 0 \in 0..Rest.n /\ 0 + Len(pats[id]) = e
    BY <1>0, <1>5, <1>8
  <2> DEFINE su == e - out.units
  <2> HIDE DEF e, su
  <2>3. out.pattern >= 0 /\ Before(su, out.pattern, 0, id)
    BY <1>0, <1>5, <1>8, <2>1, <2>2, OutputIsBest DEF su
  <2>4. out.pattern \in Ids(pats) /\ out.units \in 1..e
    BY <1>6, <2>3
  <2>5. su = 0 /\ out.pattern <= id
    BY <1>5, <2>3, <2>4 DEF Before, su
  <2> QED BY <1>5, <2>3, <2>4, <2>5 DEF su
<1> QED BY <1>0, <1>1, <1>3, <1>4, <1>7, <1>8

LEMMA ReplayUnitKeeps ==
  ASSUME PairAnchoredAssumption, IInv, ReplayUnit
  PROVE  IInv'
<1> USE DEF IInv
<1>1. /\ phase = "replay" /\ start + read < Limit /\ read' = read + 1
      /\ UNCHANGED <<args, phase, at, left, start, best>>
  BY DEF ReplayUnit
<1>2. PICK next \in Nodes(pats) :
        IsAdvance(pats, state, hay.tok[start + read], next) /\ state' = next
  BY DEF ReplayUnit
<1>3. PICK out \in Outputs(pats) :
        /\ IsOutput(pats, next, out)
        /\ IF out.units = read' /\ Prefers(out.pattern)
             THEN found' = out.pattern ELSE UNCHANGED found
  BY <1>2 DEF ReplayUnit
<1>4. /\ EndsText(Rest, read + 1, next)
      /\ Tracks(pats, Rest, read + 1, next)
      /\ read + 1 \in 0..(hay.n - start)
  BY <1>1, <1>2, <1>3, FoundAfterUnit
<1>5. out.pattern >= 0 /\ out.units = read + 1 =>
         /\ out.pattern \in Ids(pats) /\ pats[out.pattern] # <<>>
         /\ Occurs(pats, Rest, out.pattern, 0)
  BY <1>1, <1>2, <1>3, FoundAfterUnit
<1>6. \A id \in Ids(pats) :
         pats[id] # <<>> /\ Occurs(pats, Rest, id, 0) /\ Len(pats[id]) = read + 1
           => out.units = read + 1 /\ out.pattern >= 0 /\ out.pattern <= id
  BY <1>1, <1>2, <1>3, FoundAfterUnit
<1>7. /\ pats' = pats /\ hay' = hay /\ anchorAt' = anchorAt /\ start' = start
      /\ Rest' = Rest
  BY <1>1 DEF args, Rest
<1>8. /\ Ids(pats) \subseteq Nat /\ read \in Nat /\ found \in {-1} \cup Ids(pats)
      /\ \A id \in Ids(pats) : Len(pats[id]) \in Nat
  BY AsciiHaystack DEF Typed, IsPatternSet, Ids
<1>9. out.pattern \in {-1} \cup Ids(pats) /\ (out.pattern = -1 => out.units = 0)
  BY <1>8 DEF Outputs, NoOutput
<1>10. out.units = read + 1 => out.pattern >= 0
  <2>1. read + 1 # 0
    BY <1>8
  <2> QED BY <1>8, <1>9, <2>1
<1>11. FoundIsLowest'
  <2>1. /\ found >= 0 => pats[found] # <<>> /\ Occurs(pats, Rest, found, 0)
        /\ \A id \in Ids(pats) :
             pats[id] # <<>> /\ Occurs(pats, Rest, id, 0) /\ Len(pats[id]) <= read
               => found >= 0 /\ found <= id
    BY <1>1 DEF ReplayHolds, FoundIsLowest
  <2>2. ASSUME found' >= 0
        PROVE  pats[found'] # <<>> /\ Occurs(pats, Rest, found', 0)
    BY <1>1, <1>3, <1>5, <1>10, <2>1, <2>2
  <2>3. ASSUME NEW id \in Ids(pats), pats[id] # <<>>, Occurs(pats, Rest, id, 0),
               Len(pats[id]) <= read + 1
        PROVE  found' >= 0 /\ found' <= id
    <3>0. id \in Nat /\ (Len(pats[id]) <= read \/ Len(pats[id]) = read + 1)
      BY <1>8, <2>3
    <3>1. CASE Len(pats[id]) <= read
      <4>1. found >= 0 /\ found <= id
        BY <2>1, <2>3, <3>1
      <4>2. found' = found \/ (found' = out.pattern /\ out.pattern >= 0 /\ out.pattern < found)
        <5>1. found # -1
          BY <4>1
        <5> QED BY <1>1, <1>3, <1>10, <5>1 DEF Prefers
      <4>3. out.pattern < found => out.pattern <= id
        BY <1>8, <1>9, <3>0, <4>1
      <4> QED BY <4>1, <4>2, <4>3
    <3>2. CASE Len(pats[id]) = read + 1
      <4>1. out.units = read' /\ out.pattern >= 0 /\ out.pattern <= id
        BY <1>1, <1>6, <2>3, <3>2
      <4>2. CASE Prefers(out.pattern)
        BY <1>3, <4>1, <4>2
      <4>3. CASE ~Prefers(out.pattern)
        <5>1. found' = found /\ found # -1 /\ ~(out.pattern < found)
          BY <1>3, <4>3 DEF Prefers
        <5>2. found \in Nat /\ out.pattern \in Nat
          BY <1>8, <1>9, <4>1, <5>1
        <5> QED BY <3>0, <4>1, <5>1, <5>2
      <4> QED BY <4>2, <4>3
    <3> QED BY <3>0, <3>1, <3>2
  <2> QED BY <1>1, <1>7, <2>2, <2>3 DEF FoundIsLowest
<1>12. found' \in {-1} \cup Ids(pats)
  BY <1>3, <1>8, <1>9
<1>13. Typed'
  BY <1>1, <1>2, <1>4, <1>7, <1>12 DEF Typed, AllAscii
<1>14. EmptyFirst' /\ LowestAtStart' /\ AnchorsDecide'
  BY <1>1, SameBest
<1>15. CheckedDecide'
  BY <1>1, <1>7 DEF CheckedDecide, Decided
<1>16. ReplayHolds'
  BY <1>1, <1>2, <1>4, <1>7, <1>11 DEF ReplayHolds
<1> QED BY <1>1, <1>13, <1>14, <1>15, <1>16

-----------------------------------------------------------------------------
\* When the replay has ended it has found the lowest of the non-empty patterns
\* at its start.
LEMMA FoundAtEnd ==
  ASSUME PairAnchoredAssumption, Typed, ReplayHolds, phase = "replay", start + read = Limit
  PROVE  /\ found >= 0 => found \in Ids(pats) /\ pats[found] # <<>>
                          /\ Occurs(pats, hay, found, start)
         /\ \A id \in Ids(pats) :
              pats[id] # <<>> /\ Occurs(pats, hay, id, start) => found >= 0 /\ found <= id
<1>0. /\ Ids(pats) \subseteq Nat /\ start \in Nat /\ read \in Nat
      /\ found \in {-1} \cup Ids(pats)
      /\ \A id \in Ids(pats) : Len(pats[id]) \in Nat
  BY AsciiHaystack DEF Typed, IsPatternSet, Ids
<1>1. FoundIsLowest
  BY DEF ReplayHolds
<1>2. found >= 0 => found \in Ids(pats)
  BY <1>0
<1>3. found >= 0 => pats[found] # <<>> /\ Occurs(pats, hay, found, start)
  BY <1>1, <1>2, RestIsHaystack DEF FoundIsLowest
<1>4. ASSUME NEW id \in Ids(pats), pats[id] # <<>>, Occurs(pats, hay, id, start)
      PROVE  found >= 0 /\ found <= id
  <2>1. Occurs(pats, Rest, id, 0)
    BY <1>4, RestIsHaystack
  <2>2. Len(pats[id]) <= read
    <3>1. start + Len(pats[id]) <= start + read
      BY <1>4, LimitBounds
    <3> QED BY <1>0, <3>1
  <2> QED BY <1>1, <1>4, <2>1, <2>2 DEF FoundIsLowest
<1> QED BY <1>2, <1>3, <1>4

LEMMA EndReplayKeeps ==
  ASSUME PairAnchoredAssumption, IInv, EndReplay
  PROVE  IInv'
<1> USE DEF IInv
<1>1. /\ phase = "replay" /\ start + read = Limit /\ phase' = "check"
      /\ best' = IF Improves THEN [pattern |-> found, start |-> start] ELSE best
      /\ UNCHANGED <<args, at, left, replay>>
  BY DEF EndReplay
<1>2. /\ found >= 0 => found \in Ids(pats) /\ pats[found] # <<>>
                       /\ Occurs(pats, hay, found, start)
      /\ \A id \in Ids(pats) :
           pats[id] # <<>> /\ Occurs(pats, hay, id, start) => found >= 0 /\ found <= id
  BY <1>1, FoundAtEnd
<1>3. pats' = pats /\ hay' = hay /\ anchorAt' = anchorAt /\ at' = at /\ left' = left
  BY <1>1 DEF args
<1>4. /\ Ids(pats) \subseteq Nat /\ hay.n \in Nat /\ start \in 0..hay.n
      /\ found \in {-1} \cup Ids(pats)
      /\ best # NoMatch => best.pattern \in Ids(pats) /\ best.start \in 0..hay.n
  BY AsciiHaystack DEF Typed, IsPatternSet, Ids
<1>5. ASSUME Improves
      PROVE  /\ best' = [pattern |-> found, start |-> start] /\ best' # NoMatch
             /\ best'.pattern = found /\ best'.start = start /\ found \in Ids(pats)
  <2>1. found >= 0
    BY <1>5 DEF Improves
  <2>2. [pattern |-> found, start |-> start] # NoMatch
    <3>1. start # -1
      BY <1>4
    <3> QED BY <3>1 DEF NoMatch
  <2> QED BY <1>1, <1>2, <1>5, <2>1, <2>2
<1>6. Typed'
  <2>1. best' # NoMatch => /\ best'.pattern \in Ids(pats) /\ best'.start \in 0..hay.n
                           /\ best' = [pattern |-> best'.pattern, start |-> best'.start]
    <3>1. CASE Improves
      BY <1>4, <1>5, <3>1
    <3>2. CASE ~Improves
      BY <1>1, <3>2 DEF Typed
    <3> QED BY <3>1, <3>2
  <2> QED BY <1>1, <1>3, <2>1 DEF Typed, AllAscii, replay
<1>7. \A id \in Ids(pats), u \in 0..hay.n : Decided(id, u) => Decided(id, u)'
  <2>1. ASSUME best # NoMatch
        PROVE  /\ best' # NoMatch
               /\ Before(best'.start, best'.pattern, best.start, best.pattern)
    <3>0. best.start \in Nat /\ best.pattern \in Nat
      BY <1>4, <2>1
    <3>1. CASE Improves
      <4>1. start < best.start \/ (start = best.start /\ found < best.pattern)
        BY <2>1, <3>1 DEF Improves
      <4>2. found \in Nat
        BY <1>4, <1>5, <3>1
      <4> QED BY <1>5, <3>0, <3>1, <4>1, <4>2 DEF Before
    <3>2. CASE ~Improves
      BY <1>1, <2>1, <3>0, <3>2 DEF Before
    <3> QED BY <3>1, <3>2
  <2> QED BY <1>1, <1>6, <2>1, BetterDecides
<1>8. ASSUME NEW id \in Ids(pats), pats[id] # <<>>, NEW u \in 0..hay.n, u = start,
             Occurs(pats, hay, id, u)
      PROVE  Decided(id, u)'
  <2>1. found >= 0 /\ found <= id /\ found \in Nat /\ id \in Nat
    BY <1>2, <1>4, <1>8
  <2>2. CASE Improves
    BY <1>5, <1>8, <2>1, <2>2 DEF Decided, Before
  <2>3. CASE ~Improves
    <3>1. /\ best' = best /\ best # NoMatch
          /\ ~(start < best.start) /\ ~(start = best.start /\ found < best.pattern)
      BY <1>1, <2>1, <2>3 DEF Improves
    <3>2. best.start \in Nat /\ best.pattern \in Nat /\ start \in Nat
      BY <1>4, <3>1
    <3>3. Before(best.start, best.pattern, u, id)
      BY <1>8, <2>1, <3>1, <3>2 DEF Before
    <3> QED BY <3>1, <3>3 DEF Decided
  <2> QED BY <2>2, <2>3
<1>9. EmptyFirst'
  <2>1. \A id \in EmptyIds(pats) : id \in Ids(pats) /\ 0 \in 0..hay.n /\ Decided(id, 0)
    BY <1>4 DEF EmptyFirst, EmptyIds
  <2> QED BY <1>3, <1>7, <2>1 DEF EmptyFirst
<1>10. AnchorsDecide'
  <2>1. ASSUME NEW id \in DOMAIN anchorAt, NEW u \in 0..(hay.n - 1),
               Occurs(pats, hay, id, u), u + anchorAt[id] < at
        PROVE  Decided(id, u)'
    <3>1. Decided(id, u)
      BY <2>1 DEF AnchorsDecide, Decided
    <3>2. id \in Ids(pats) /\ u \in 0..hay.n
      BY <1>4, Anchored
    <3> QED BY <1>7, <3>1, <3>2
  <2> QED BY <1>3, <2>1 DEF AnchorsDecide, Decided
<1>11. LowestAtStart'
  <2>1. CASE Improves
    <3>1. /\ found >= 0 /\ found \in Nat /\ pats[found] # <<>>
          /\ Occurs(pats, hay, found, start)
      BY <1>2, <1>4, <1>5, <2>1 DEF Improves
    <3>2. ASSUME NEW id \in Ids(pats), Occurs(pats, hay, id, start)
          PROVE  found <= id
      <4>1. CASE pats[id] # <<>>
        BY <1>2, <3>2, <4>1
      <4>2. CASE pats[id] = <<>>
        <5>1. Decided(id, 0)'
          BY <1>3, <1>9, <4>2 DEF EmptyFirst, EmptyIds
        <5>2. Before(start, found, 0, id)
          BY <1>5, <2>1, <5>1 DEF Decided
        <5>3. start \in Nat /\ id \in Nat
          BY <1>4
        <5> QED BY <3>1, <5>2, <5>3 DEF Before
      <4> QED BY <4>1, <4>2
    <3> QED BY <1>3, <1>5, <2>1, <3>1, <3>2 DEF LowestAtStart
  <2>2. CASE ~Improves
    BY <1>1, <1>3, <2>2 DEF LowestAtStart
  <2> QED BY <2>1, <2>2
<1>12. CheckedDecide'
  <2>1. ASSUME NEW id \in DOMAIN anchorAt, id \notin left, NEW u \in 0..hay.n,
               Occurs(pats, hay, id, u), u + anchorAt[id] = at
        PROVE  Decided(id, u)'
    <3>1. id \in Ids(pats) /\ pats[id] # <<>>
      BY Anchored
    <3>2. Decided(id, u) \/ u = start
      BY <1>1, <2>1 DEF CheckedDecide
    <3> QED BY <1>7, <1>8, <2>1, <3>1, <3>2
  <2>2. at + 1 < Bytes(hay)
    BY <1>1 DEF CheckedDecide
  <2> QED BY <1>3, <2>1, <2>2 DEF CheckedDecide, Decided
<1>13. ReplayHolds' /\ phase' # "done"
  BY <1>1 DEF ReplayHolds
<1> QED BY <1>6, <1>9, <1>10, <1>11, <1>12, <1>13

-----------------------------------------------------------------------------
LEMMA StepKeeps ==
  ASSUME PairAnchoredAssumption, IInv, [Next]_vars
  PROVE  IInv'
<1>1. CASE UNCHANGED vars
  <2>1. UNCHANGED <<args, phase, at, left, replay, best>>
    BY <1>1 DEF vars
  <2>2. /\ pats' = pats /\ hay' = hay /\ anchorAt' = anchorAt /\ phase' = phase
        /\ at' = at /\ left' = left /\ best' = best
        /\ start' = start /\ read' = read /\ state' = state /\ found' = found
    BY <2>1 DEF args, replay
  <2>3. Typed'
    BY <2>2 DEF IInv, Typed, AllAscii
  <2>4. EmptyFirst' /\ LowestAtStart' /\ AnchorsDecide'
    BY <2>1, <2>2, SameBest
  <2>5. CheckedDecide'
    BY <2>2 DEF IInv, CheckedDecide, Decided
  <2>6. ReplayHolds'
    <3>1. Rest' = Rest
      BY <2>2 DEF Rest
    <3> QED BY <2>2, <3>1 DEF IInv, ReplayHolds, FoundIsLowest
  <2> QED BY <2>2, <2>3, <2>4, <2>5, <2>6 DEF IInv
<1>2. CASE Next
  BY <1>1, <1>2, ReturnSettledKeeps, SkipKeeps, CheckAnchorKeeps, ReplayUnitKeeps,
     EndReplayKeeps, NextByteKeeps, FinishKeeps DEF Next, Done
<1> QED BY <1>1, <1>2

\* Of findASCIIPairAnchored: the invariant holds whatever the patterns, the
\* anchors chosen for them and the ASCII haystack.
THEOREM Invariance == Spec => []IInv
<1>1. Init => IInv
  BY PairAnchoredAssumption, InitHolds
<1>2. IInv /\ [Next]_vars => IInv'
  BY PairAnchoredAssumption, StepKeeps
<1> QED BY <1>1, <1>2, PTL DEF Spec

\* Of findASCIIPairAnchored: every occurrence whose anchor has been passed is
\* decided, and a replay decides for every pattern at its start.
THEOREM BestIsRight == Spec => []BestSoFar
<1>1. IInv => BestSoFar
  BY DEF IInv, BestSoFar
<1> QED BY <1>1, Invariance, PTL

-----------------------------------------------------------------------------
\* The contract's vocabulary is that of the executors.
LEMMA SameVocabulary ==
  /\ Contract!IsPatternSet(pats) <=> IsPatternSet(pats)
  /\ Contract!IsHaystack(hay) <=> IsHaystack(hay)
  /\ Contract!Answers(pats, hay) = Answers(pats, hay)
  /\ \A m : Contract!IsAnswer(pats, hay, m) <=> IsAnswer(pats, hay, m)
<1>1. Contract!IsPatternSet(pats) <=> IsPatternSet(pats)
  BY DEF Contract!IsPatternSet, IsPatternSet, Contract!Token, Token
<1>2. Contract!IsHaystack(hay) <=> IsHaystack(hay)
  BY DEF Contract!IsHaystack, IsHaystack
<1>3. Contract!Answers(pats, hay) = Answers(pats, hay)
  BY DEF Contract!Answers, Answers, Contract!NoMatch, NoMatch, Contract!Ids, Ids
<1>4. \A m : Contract!IsAnswer(pats, hay, m) <=> IsAnswer(pats, hay, m)
  BY DEF Contract!IsAnswer, IsAnswer, Contract!NoMatch, NoMatch, Contract!Ids, Ids,
         Contract!Occurs, Occurs, Contract!Before, Before
<1> QED BY <1>1, <1>2, <1>3, <1>4

\* No step changes what is asked, and none but the last answers.
LEMMA StepAnswersOrStutters ==
  ASSUME IInv, IInv', [Next]_vars
  PROVE  Contract!Reply \/ UNCHANGED Contract!vars
<1>1. pats' = pats /\ hay' = hay
  BY DEF Next, vars, args, ReturnSettled, Return, Skip, CheckAnchor, ReplayUnit, EndReplay,
         NextByte, Finish, Done
<1>2. CASE phase # "done" /\ phase' = "done"
  <2>1. IsAnswer(pats, hay, best')
    BY <1>1, <1>2 DEF IInv
  <2>2. best' \in Answers(pats, hay)
    BY <2>1, AnswerTyped
  <2> QED BY <1>1, <1>2, <2>1, <2>2, SameVocabulary DEF Contract!Reply
<1>3. CASE phase # "done" /\ phase' # "done"
  BY <1>1, <1>3 DEF Contract!vars
<1>4. CASE phase = "done"
  BY <1>1, <1>4 DEF Contract!vars, Next, vars, args, ReturnSettled, Return, Skip, CheckAnchor,
         ReplayUnit, EndReplay, NextByte, Finish, Done
<1> QED BY <1>2, <1>3, <1>4

\* Of findASCIIPairAnchored: its one answer is the leftmost match of the lowest
\* index, although matches are not found in the order of their starts.
THEOREM Refinement == Spec => ImplementsFind
<1>1. IInv /\ Init => Contract!Init
  BY SameVocabulary DEF Init, Contract!Init, IInv, Typed, IsSpelled
<1>2. IInv /\ IInv' /\ [Next]_vars => [Contract!Reply]_(Contract!vars)
  BY StepAnswersOrStutters
<1> QED BY <1>1, <1>2, Invariance, PTL DEF Spec, ImplementsFind, Contract!Spec
=============================================================================
