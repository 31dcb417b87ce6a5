------------------------------ MODULE FoldPlan ------------------------------
(***************************************************************************)
(* The vocabulary the executors of plan.go share: haystacks as they are    *)
(* decoded, pattern sets as they are compiled, and what it means for a     *)
(* match to be the right answer.                                           *)
(*                                                                         *)
(* A token stands for everything one pattern unit matches: a simple-fold   *)
(* orbit or an opaque byte in a folded plan, a byte in an exact plan.      *)
(* Token 0 means that no pattern can consume the unit.  A pattern is its   *)
(* sequence of tokens, and a set of patterns a function on 0..k-1.  A node *)
(* of the trie is the sequence of tokens on its path from the root <<>>.   *)
(*                                                                         *)
(* A haystack is its sequence of units.  Unit u has token tok[u], starts   *)
(* at byte off[u] and ends at off[u + 1]; ascii[u] says that its first     *)
(* byte is below 0x80, which makes it one byte wide.                       *)
(***************************************************************************)
EXTENDS Integers, Sequences

CONSTANT AsciiTokens   \* the tokens that one or two ASCII bytes map to

Token == Nat \ {0}

IsHaystack(h) ==
  /\ h.n \in Nat
  /\ h.tok \in [0..(h.n - 1) -> Nat]
  /\ h.ascii \in [0..(h.n - 1) -> BOOLEAN]
  /\ h.off \in [0..h.n -> Nat]
  /\ h.off[0] = 0
  /\ \A u, v \in 0..h.n : u < v => h.off[u] < h.off[v]
  /\ \A u \in 0..(h.n - 1) :
       h.ascii[u] => /\ h.off[u + 1] = h.off[u] + 1
                     /\ h.tok[u] \in AsciiTokens \cup {0}

IsPatternSet(pats) ==
  DOMAIN pats \subseteq Nat /\ pats \in [DOMAIN pats -> Seq(Token)]

Ids(pats) == DOMAIN pats

\* len(haystack)
Bytes(h) == h.off[h.n]

\* The unit that starts at byte at.
UnitAt(h, at) == CHOOSE u \in 0..h.n : h.off[u] = at

\* In an exact plan every byte is a unit of its own.
ByteUnits(h) == \A u \in 0..(h.n - 1) : h.off[u + 1] = h.off[u] + 1

\* The part of the haystack from unit u up to unit v: haystack[off[u]:off[v]].
Part(h, u, v) ==
  [n     |-> v - u,
   tok   |-> [i \in 0..(v - u - 1) |-> h.tok[u + i]],
   ascii |-> [i \in 0..(v - u - 1) |-> h.ascii[u + i]],
   off   |-> [i \in 0..(v - u) |-> h.off[u + i] - h.off[u]]]

-----------------------------------------------------------------------------
(***************************************************************************)
(* The compiled plan, as far as an executor can see it.  newSearchPlan and *)
(* finish build it; the executors only read it.                            *)
(***************************************************************************)
Nodes(pats) ==
  {<<>>} \cup UNION {{SubSeq(pats[id], 1, k) : k \in 1..Len(pats[id])} : id \in Ids(pats)}

RootTokens(pats) == {pats[id][1] : id \in {i \in Ids(pats) : pats[i] # <<>>}}

\* The tokens on the edges out of a node.
EdgeTokens(pats, node) ==
  {s[Len(node) + 1] : s \in {t \in Nodes(pats) : Len(t) = Len(node) + 1
                                                  /\ SubSeq(t, 1, Len(node)) = node}}

EmptyIds(pats) == {id \in Ids(pats) : pats[id] = <<>>}

IsMaxUnits(pats, m) ==
  /\ \A id \in Ids(pats) : Len(pats[id]) <= m
  /\ m = 0 \/ \E id \in Ids(pats) : Len(pats[id]) = m

\* t ends with s
EndsWith(t, s) ==
  /\ Len(s) <= Len(t)
  /\ \A i \in 1..Len(s) : s[i] = t[Len(t) - Len(s) + i]

(***************************************************************************)
(* advance: the longest node that ends the text read so far.  The code     *)
(* reads it from the dense table, or walks the failure links.              *)
(***************************************************************************)
IsAdvance(pats, state, token, next) ==
  IF token = 0
    THEN next = <<>>
    ELSE /\ EndsWith(Append(state, token), next)
         /\ \A s \in Nodes(pats) :
              EndsWith(Append(state, token), s) => Len(s) <= Len(next)

(***************************************************************************)
(* The planOutput of a node: of the non-empty patterns that end there the  *)
(* longest, of those the one with the lowest index.                        *)
(***************************************************************************)
NoOutput == [pattern |-> -1, units |-> 0]

EndsHere(pats, node, id) == pats[id] # <<>> /\ EndsWith(node, pats[id])

IsOutput(pats, node, out) ==
  \/ /\ out = NoOutput
     /\ \A id \in Ids(pats) : ~EndsHere(pats, node, id)
  \/ \E id \in Ids(pats) :
       /\ out = [pattern |-> id, units |-> Len(pats[id])]
       /\ EndsHere(pats, node, id)
       /\ \A other \in Ids(pats) :
            EndsHere(pats, node, other) =>
              \/ Len(pats[other]) < Len(pats[id])
              \/ Len(pats[other]) = Len(pats[id]) /\ id <= other

Outputs(pats) ==
  {NoOutput} \cup {[pattern |-> id, units |-> Len(pats[id])] : id \in Ids(pats)}

-----------------------------------------------------------------------------
(***************************************************************************)
(* The contract.  An empty pattern occurs at every unit boundary.          *)
(***************************************************************************)
Occurs(pats, h, id, u) ==
  /\ u + Len(pats[id]) <= h.n
  /\ \A i \in 1..Len(pats[id]) : h.tok[u + i - 1] = pats[id][i]

\* The units read before unit u end with the path to the node.
EndsText(h, u, node) ==
  /\ Len(node) <= u
  /\ \A i \in 1..Len(node) : node[i] = h.tok[u - Len(node) + i - 1]

(***************************************************************************)
(* No match in progress at unit u is forgotten: of an occurrence that      *)
(* starts before u and ends after it, the node holds the part already read.*)
(***************************************************************************)
Tracks(pats, h, u, node) ==
  \A id \in Ids(pats), start \in 0..h.n :
    Occurs(pats, h, id, start) /\ start < u /\ u < start + Len(pats[id])
      => u - start <= Len(node)

\* (u, id) is to be preferred to (v, other): leftmost, then lowest index.
Before(u, id, v, other) == u < v \/ (u = v /\ id <= other)

NoMatch == [pattern |-> -1, start |-> -1]

\* m is the leftmost match, of the patterns that match there the first.
IsAnswer(pats, h, m) ==
  \/ /\ m = NoMatch
     /\ \A id \in Ids(pats), u \in 0..h.n : ~Occurs(pats, h, id, u)
  \/ \E id \in Ids(pats), u \in 0..h.n :
       /\ m = [pattern |-> id, start |-> h.off[u]]
       /\ Occurs(pats, h, id, u)
       /\ \A other \in Ids(pats), v \in 0..h.n :
            Occurs(pats, h, other, v) => Before(u, id, v, other)

(***************************************************************************)
(* m, which starts at unit b, is the best of the occurrences that end by   *)
(* unit e; of the empty ones, only those at the very start are candidates. *)
(***************************************************************************)
Ended(pats, h, e, id, u) ==
  /\ Occurs(pats, h, id, u)
  /\ u + Len(pats[id]) <= e
  /\ pats[id] = <<>> => u = 0

IsBest(pats, h, e, b, m) ==
  \/ /\ b = -1 /\ m = NoMatch
     /\ \A id \in Ids(pats), u \in 0..h.n : ~Ended(pats, h, e, id, u)
  \/ /\ b \in 0..h.n
     /\ \E id \in Ids(pats) :
          /\ m = [pattern |-> id, start |-> h.off[b]]
          /\ Ended(pats, h, e, id, b)
          /\ \A other \in Ids(pats), u \in 0..h.n :
               Ended(pats, h, e, other, u) => Before(b, id, u, other)

Answers(pats, h) ==
  {NoMatch} \cup [pattern : Ids(pats), start : {h.off[u] : u \in 0..h.n}]
=============================================================================
