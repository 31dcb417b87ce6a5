----------------------------- MODULE ByteFilter -----------------------------
(***************************************************************************)
(* The byte screens of a folded plan: what finishFoldFilters derives from  *)
(* the trie, so that an executor can look for the first bytes of a root    *)
(* without decoding what it passes over.                                   *)
(*                                                                         *)
(* A screen sees bytes only.  Forms[t] are the byte strings that decode to *)
(* token t: the encodings of an orbit's members, or one opaque byte.  A    *)
(* haystack carries its bytes beside its units.                            *)
(***************************************************************************)
EXTENDS FoldPlan, FiniteSets

CONSTANTS Forms,
          FilterSlots,   \* the entries a rootFilter or a tripleFilter has room for, 16
          ShuftiSizes,   \* the numbers of triples a tripleShuftiFilter takes, 4..8
          BucketSlots    \* the prefixes a tripleBucketFilter has room for, 8

Ascii == 0..127
Trail == 128..191        \* UTF-8's continuation bytes
IsLetter(b) == b \in 65..90 \cup 97..122

\* b|0x20
Lower(b) == IF (b \div 32) % 2 = 1 THEN b ELSE b + 32

HasAsciiForm(t) == \E f \in Forms[t] : Len(f) = 1 /\ f[1] \in Ascii

\* How a unit is spelled in the haystack.
Spelling(h, u) == [i \in 1..(h.off[u + 1] - h.off[u]) |-> h.bytes[h.off[u] + i - 1]]

\* Units are what utf8.DecodeRuneInString takes off the front: a unit of more
\* than one byte has no continuation byte in front, and nothing else behind.
IsSpelled(h) ==
  /\ IsHaystack(h)
  /\ h.bytes \in [0..(Bytes(h) - 1) -> 0..255]
  /\ \A u \in 0..(h.n - 1) :
       LET s == Spelling(h, u) IN
       /\ h.ascii[u] <=> s[1] \in Ascii
       /\ Len(s) > 1 => s[1] > 191 /\ \A i \in 2..Len(s) : s[i] \in Trail
       /\ \A t \in DOMAIN Forms : h.tok[u] = t <=> s \in Forms[t]

\* An encoding that begins with a unit is that unit.
DecodesForms(h) ==
  \A u \in 0..(h.n - 1), t \in DOMAIN Forms : \A f \in Forms[t] :
    /\ Len(f) > 1 /\ h.off[u] + Len(f) <= Bytes(h)
    /\ \A i \in DOMAIN f : h.bytes[h.off[u] + i - 1] = f[i]
    => h.off[u + 1] = h.off[u] + Len(f)

UsedTokens(pats) == UNION {{pats[id][i] : i \in DOMAIN pats[id]} : id \in Ids(pats)}

\* opaqueContinuation: some pattern unit is a malformed continuation byte.
OpaqueContinuation(pats) ==
  \E t \in UsedTokens(pats) : \E f \in Forms[t] : Len(f) = 1 /\ f[1] \in Trail

\* rootKind = rootGeneric: the ASCII bytes of the roots are not one letter.
RootGeneric(pats) ==
  LET firsts == {b \in Ascii : \E t \in RootTokens(pats) : <<b>> \in Forms[t]}
  IN  /\ Cardinality(firsts) # 1
      /\ ~ (/\ Cardinality(firsts) = 2
            /\ \A b, c \in firsts : IsLetter(b) /\ Lower(b) = Lower(c))

\* At this point of finish a node's output is a pattern that it spells.
IsTerminal(pats, node) == \E id \in Ids(pats) : pats[id] = node

-----------------------------------------------------------------------------
(***************************************************************************)
(* An entry of a filter admits one byte, or both cases of a letter.        *)
(***************************************************************************)
Entry(b, fold) == [byte |-> b, fold |-> fold]

Admits(e, b) == (IF e.fold THEN Lower(b) ELSE b) = e.byte

\* A form as entries: a lone letter stands for both cases.
CompactForm(f) ==
  IF Len(f) = 1 /\ IsLetter(f[1])
    THEN <<Entry(Lower(f[1]), TRUE)>>
    ELSE [i \in DOMAIN f |-> Entry(f[i], FALSE)]

\* Mutated form: one member's spelling for the whole orbit.
CompactFormsOne(t) ==
  {CompactForm(CHOOSE f \in Forms[t] : \A g \in Forms[t] : Len(f) <= Len(g))}

CompactForms(t) == {CompactForm(f) : f \in Forms[t]}

(***************************************************************************)
(* makeTripleFilter.  A root with an ASCII letter contributes the first    *)
(* three bytes of everything that can be read from it, unless a pattern    *)
(* may end before the third byte, a spelling starts with a continuation    *)
(* byte, or the entries do not fit.                                        *)
(***************************************************************************)
Spellings(node) ==
  LET words[i \in 0..Len(node)] ==
        IF i = 0 THEN {<<>>}
        ELSE {w \o f : w \in {v \in words[i - 1] : Len(v) < 3}, f \in CompactForms(node[i])}
  IN  words[Len(node)]

Below(pats, root) == {s \in Nodes(pats) : Len(s) \in 1..3 /\ s[1] = root}

ExpandedTriples(pats, root) ==
  {SubSeq(w, 1, 3) : w \in {v \in UNION {Spellings(s) : s \in Below(pats, root)} : Len(v) >= 3}}

Expands(pats, root) ==
  \A s \in Below(pats, root) : \A w \in Spellings(s) :
    Len(w) < 3 => ~IsTerminal(pats, s) /\ EdgeTokens(pats, s) # {}

MayExpand(pats, t) ==
  /\ t \in RootTokens(pats)
  /\ \A f \in Forms[t] : ~(Len(f) = 1 /\ f[1] \in Trail)
  /\ \E f \in Forms[t] : Len(f) = 1 /\ IsLetter(f[1])
  /\ Expands(pats, t)

\* The tokens in order: a root whose triples do not fit is left out whole.
TripleFilter(pats) ==
  LET filter[t \in 0..Len(Forms)] ==
        IF t = 0 THEN [values |-> {}, roots |-> {}]
        ELSE LET prior == filter[t - 1]
                 more  == prior.values \cup ExpandedTriples(pats, t)
             IN  IF MayExpand(pats, t) /\ Cardinality(more) <= FilterSlots
                   THEN [values |-> more, roots |-> prior.roots \cup {t}]
                   ELSE prior
  IN  filter[Len(Forms)]

TriplesComplete(pats) == TripleFilter(pats).roots = RootTokens(pats)

\* Mutated form: any triples will do.
AsciiTriplesPartial(pats) ==
  ~TriplesComplete(pats) /\ TripleFilter(pats).values # {}

\* asciiTripleRootsComplete: of the roots, not all of which have triples, those
\* that an ASCII haystack can reach do.
AsciiTriplesComplete(pats) ==
  /\ ~TriplesComplete(pats)
  /\ TripleFilter(pats).values # {}
  /\ \A t \in RootTokens(pats) : HasAsciiForm(t) => t \in TripleFilter(pats).roots

\* p.patternCount > 1, and triples that a table of nibbles holds for every root
\* that ASCII input can reach
HasAsciiTriples(pats) ==
  /\ Cardinality(Ids(pats)) > 1 /\ RootGeneric(pats)
  /\ AsciiTriplesComplete(pats)
  /\ Cardinality(TripleFilter(pats).values) \in ShuftiSizes

-----------------------------------------------------------------------------
(***************************************************************************)
(* makeRootFilter, for a plan without complete triples.  A root that must  *)
(* be followed by one token contributes pairs with that token's bytes; any *)
(* other, or one whose pairs do not fit, the first two bytes of its forms, *)
(* or the only one.  A root that does not fit leaves no filter at all.     *)
(***************************************************************************)
NoFilter == [ones |-> {}, pairs |-> {}]

FirstBytes(t) == {<<f[1], f[2]>> : f \in {g \in CompactForms(t) : Len(g) > 1}}

FollowedBy(t, next) ==
  {<<f[1], g[1]>> : f \in {e \in CompactForms(t) : Len(e) = 1}, g \in CompactForms(next)}

MustFollow(pats, t, next) ==
  ~IsTerminal(pats, <<t>>) /\ EdgeTokens(pats, <<t>>) = {next}

\* The roots contribute in the order of their tokens.
RootFilter(pats) ==
  LET fits(f) == Cardinality(f.ones) <= FilterSlots /\ Cardinality(f.pairs) <= FilterSlots
      paired(f, t) ==
        {g \in {[f EXCEPT !.pairs = @ \cup FirstBytes(t) \cup FollowedBy(t, next)] :
                  next \in {n \in UsedTokens(pats) : MustFollow(pats, t, n)}} : fits(g)}
      plain(f, t) ==
        [ones  |-> f.ones \cup {g[1] : g \in {e \in Forms[t] : Len(e) = 1}},
         pairs |-> f.pairs \cup {<<Entry(g[1], FALSE), Entry(g[2], FALSE)>> :
                                   g \in {e \in Forms[t] : Len(e) > 1}}]
      after[t \in 0..Len(Forms)] ==
        IF t = 0 THEN {NoFilter}
        ELSE IF t \notin RootTokens(pats) THEN after[t - 1]
        ELSE UNION {IF paired(f, t) # {} THEN paired(f, t)
                    ELSE {g \in {plain(f, t)} : fits(g)} : f \in after[t - 1]}
      unsafe == \E t \in RootTokens(pats) : \E f \in Forms[t] : Len(f) = 1 /\ f[1] \in Trail
  IN  IF unsafe \/ after[Len(Forms)] = {} THEN NoFilter
      ELSE CHOOSE f \in after[Len(Forms)] : TRUE

\* makePairSecond: two pairs of raw bytes are found by their second bytes.
PairSecond(filter) ==
  /\ filter.ones = {} /\ Cardinality(filter.pairs) = 2
  /\ \A pair \in filter.pairs : ~pair[1].fold /\ ~pair[2].fold

(***************************************************************************)
(* makeTripleBucketFilter: the ASCII prefixes of the trie, of four units,  *)
(* or of three where a pattern ends.                                       *)
(***************************************************************************)
BucketPrefixes(pats) ==
  {s \in Nodes(pats) : /\ Len(s) = 4 \/ (Len(s) = 3 /\ IsTerminal(pats, s))
                       /\ \A i \in DOMAIN s : HasAsciiForm(s[i])}

BucketUsable(pats) ==
  /\ Cardinality(Ids(pats)) > 1 /\ RootGeneric(pats) /\ TriplesComplete(pats)
  /\ Cardinality(TripleFilter(pats).values) \in ShuftiSizes
  /\ Cardinality(BucketPrefixes(pats)) \in 1..BucketSlots

-----------------------------------------------------------------------------
(***************************************************************************)
(* Where a screen must stop, at the latest; end is where its input ends.   *)
(***************************************************************************)
TripleStop(h, triples, at, end) ==
  \/ at + 2 >= end
  \/ \E v \in triples : \A i \in 1..3 : Admits(v[i], h.bytes[at + i - 1])

FilterStop(h, filter, at) ==
  \/ h.bytes[at] \in filter.ones
  \/ at + 1 < Bytes(h) /\ \E v \in filter.pairs : \A i \in 1..2 : Admits(v[i], h.bytes[at + i - 1])

\* It need not have seen the first byte of the pair.
PairSecondStop(h, filter, at) ==
  at + 1 < Bytes(h) /\ \E v \in filter.pairs : h.bytes[at + 1] = v[2].byte

\* In four ASCII bytes the buckets decide, elsewhere the triples.
BucketStop(h, triples, prefixes, at) ==
  IF at + 3 < Bytes(h) /\ \A i \in 0..3 : h.bytes[at + i] \in Ascii
    THEN \E s \in prefixes : \A i \in DOMAIN s : <<h.bytes[at + i - 1]>> \in Forms[s[i]]
    ELSE TripleStop(h, triples, at, Bytes(h))
=============================================================================
