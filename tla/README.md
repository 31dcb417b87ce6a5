# A verification model of casei

casei is a Go library for finding strings in a text without regard to case,
under Unicode simple folding. `IndexFold` and `ContainsFold` search for one
needle; a `Matcher` searches for a set of patterns, and may be built to compare
bytes exactly. All of them compile their patterns into a *search plan*, a
trie with failure links over *tokens*, and pick one of a dozen *executors* to
run it over the haystack. The executors are where the speed comes from, and
where the risk is: each skips bytes for a reason of its own, and each must give
the answer of the plain automaton.

The modules here translate the Go code of the library. What the code must
achieve is stated apart from it, in three contracts: `LookupContract` (the plan
a call searches with), `FindContract` (which match `Find` returns) and
`EachContract` (which matches `Each` enumerates). A module about an executor or
a loop is shown to implement its contract, with TLC on small instances, and
where a proof exists for every value of the constants.

## The system

### Components

| component | code | state | operations |
|---|---|---|---|
| plan cache | `plan.go` 869-899, `casei.go` | `recentSinglePlan`, an atomic pointer, and `singlePlanCache`, 64 atomic pointers | `cachedSinglePlan`: two loads, a compilation, two stores; called by any number of goroutines without a lock |
| plan construction | `plan.go` 845-1054, 1634-1682 | the trie, the tables from runes and bytes to tokens, `maxUnits`, `maxBytes` | `newSearchPlan`, `patternToken`, `runeToken`, `finish`; run once, then the plan is read only |
| decoded executors | `plan.go` 2590-2987, 3600-3640, `root_other.go` | position, unit, automaton state, best match, ring of offsets | `findUnfilteredDecodedLegacy`, `findUnfilteredWithStarts`, `findNonASCIIDecoded`, `findExactBytes` |
| ASCII partition | `plan.go` 3277-3598 | cursor, group of exceptional spans, window, pending match | `findPartitionedASCIIWithStats` and its two entries, `findUnfiltered` and `findASCIIOnlyPartitioned` |
| `Matcher.Each` | `matcher.go` 85-134 | cursor, match being yielded | the general loop; the caller's `yield` decides whether it goes on |
| filtered executors | `plan.go` 2990-3275, and 1427-1463, 1684-2016 for their filters | position, history of units, automaton state, ring of offsets, best match | `findFiltered`, `findASCIITripleFiltered` (and its form for a region), `findASCIIPairAnchored` |
| raw-byte plan | `raw_byte.go` | the shared table of byte tokens, tagged anchors, position, starts to replay, best match | `findRawByteOrigin`, `findRawByteFixedAnchored`, `eachRawByteFixedAnchored`, `rawByteMatchAt` |
| root buckets | `each_root.go`, `triple_bucket_amd64.go` | certificates, position, verdict on a start | `eachRootBucket`, `matchAtStart`, `matchRootASCIIWordCertData` |
| anchors and probes of one pattern | `plan.go` 1056-1336, 2075-2365, `zz_ascii_interior.go`, `matcher.go` 136-219 | prefix, probe, pair, window; position, run | the run, pair, byte, probe and ASCII-only routes of `Find`, `eachASCIIProbe` |
| Unicode anchors and confirmation | `plan.go` 1465-1626, 2367-2478, `unicode_confirm.go` | pairs, triple, raw forms; position | `findUnicodePairAnchor`, `findUnicodePairConfirm`, `findUnicodeAnchor`, `matchWidthAt` |
| dispatch | `plan.go` 2484-2588, `matcher.go` 83-97 | none | `findWithWidth` and `Each` choose the executor |
| block kernels | `root_amd64.go`, `root_other.go`, `triple_bucket_amd64.go`, `*_amd64.s` | block, position | find the next byte that may matter, by blocks of 64 or 32 bytes and by bytes |
| benchmarks, audit | `scripts`, `arena`, `audit` | none | not part of the library |

### How they interact

A `Matcher` owns one plan and only reads it, so its searches share nothing.
`IndexFold` and `ContainsFold` go through the plan cache, which is the only
state of the library that goroutines share. Every search starts in
`findWithWidth`, which hands it to an executor; the ASCII partition is an
executor that cuts the haystack and hands the pieces to others, with a ring of
offsets it lends them. `Each` calls `findWithWidth` on what is left of the
haystack, or one of its specialised loops, and calls back into the program with
each match. An executor never keeps anything from one search to the next,
except what it leaves in a borrowed ring.

### What is hard about it

* *Interleaving.* `cachedSinglePlan` tests and stores two places without a lock.
  Between a load and a store both may have changed.
* *One output per node.* The automaton keeps only the longest pattern that ends
  at a node. A shorter one that ends there too may still be the answer; that it
  was seen somewhere else is an argument about the whole scan.
* *Early return.* A search stops as soon as no later end can matter, and one
  unit too early would lose the leftmost match.
* *Skipping.* From the root, a search leaps over bytes. It must not leap over
  the first unit of a match, including one whose second unit is a wide one.
  A byte screen passes over bytes undecoded, and may stop inside a unit.
* *Answers out of order.* Anchors lie at different distances from the starts they
  point to, so a later match may be met before an earlier one.
* *Byte and unit positions.* A pattern's width is a number of units, a match's a
  number of bytes, and `K`, `k` and the Kelvin sign have one and three. Starts
  are computed while all units are one byte wide, and read from a ring after.
* *Anchors inside a match.* A byte found in the middle of a pattern points to
  its start only if what lies between is as wide in the haystack as expected; a
  literal may have a wider spelling, and a probe must then count units back.
* *State across yields.* The specialised loops of `Each` keep scanning where
  they are, with the next start, the best match and its end, although a match
  moves all of these.
* *Two verdicts on one start.* Certificates of words and the trie, raw forms and
  tokens, a table of direct tokens and decoding: both must say the same.
* *Blocks and tails.* A vector wrapper decides whole blocks, an overlapped or a
  carried one, and single bytes; no position may fall between, and no block may
  be loaded behind the haystack.
* *Cuts.* The partition cuts a haystack at sums of byte counts, searches the
  pieces with different executors and has to say whose answer counts.
* *Empty matches.* `Each` must move on after one, by a unit and not by a byte.

The hazards are listed one by one, with their lines and the properties that
cover them, in `PROJECT.json`.

### What makes each component right

* The cache cannot be observed: every call is answered with a plan of its own
  needle; entries are found where they are looked for; an unshared needle costs
  each goroutine at most one compilation; no call waits for another.
* The plan is the Aho-Corasick automaton of the patterns' tokens, whatever order
  Go's maps are ranged over in; tokens are fold orbits; `maxBytes` bounds the
  width of every match.
* An executor returns the leftmost match, of those at one start the lowest
  pattern index, and none only if there is none.
* A start that was worked out from an anchor is the start of the match, and
  every occurrence is decided once the last byte that can point to it is behind.
* A width that a confirmation reports is that of the match in the haystack.
* A wrapper of the kernels stops at the first position it must stop at, and
  loads nothing behind the haystack.
* `Each` yields what repeated calls of `Find` would, without overlap, with the
  width each match has in the haystack, and returns what `yield` decides.

## The modules

### Vocabulary and contracts

`FoldPlan` is what all modules about searching share. A *token* stands for what
one pattern unit matches: a fold orbit, an opaque byte, or in an exact plan a
byte; token 0 is a unit no pattern can consume. A haystack is its sequence of
decoded units, `[n, tok, ascii, off]`, which is what `haystackToken` and
`utf8.DecodeRuneInString` make of the string; a trie node is the path that leads
to it. `IsAdvance` and `IsOutput` say what `advance` and a node's `planOutput`
are, `IsAnswer` what the right match is. That the compiled tables are these
functions is the subject of `PlanBuild`.

`FindContract` replies to a haystack and a pattern set in one step with the
answer. `EachContract` yields match by match and may be stopped.
`LookupContract` answers each goroutine's request with the plan of its needle.

### PlanCache

`cachedSinglePlan`, one action for each atomic access: `LoadRecent`,
`LoadSlot`, `WarmRecent` (the store after a slot hit), `Compile`, `StoreSlot`,
`StoreRecent`. `Call` and `Return` are the caller's. `recent` and `slot` are the
two package variables, `want` and `entry` the locals of each goroutine. Go's
atomic pointers are sequentially consistent, so a step per access loses no
behaviour. An entry is immutable once stored and stands for its pointer. The
hash of `singlePlanCacheIndex` is the constant `SlotOf`, about which nothing is
assumed. `missed` is a history variable for `CompilesOnce`.

### PlanBuild

`newSearchPlan` and `finish`, a step per unit of a pattern (`InsertEmpty`,
`InsertUnit`, `EndPattern`), per root child enqueued, per child dequeued and
linked (`NextHead`, `PickChild`, `Fall`, `Link`), and per row of the dense table
(`FillRow`). Go's map iteration is a choice among what is left. Letters,
`unicode.SimpleFold` and encoded widths are constants. `Fall` is the loop that
walks failure links, a step per link.

### ScanDecoded

The four loops that run the automaton without a byte filter. One step is one
iteration: `SkipAscii` is a leap from the root (`rootSkipASCII`,
`pairSkipASCII` or a block without a root), `StepAscii` an iteration over an
ASCII byte, `EnterDecoded` the hand-over to `findNonASCIIDecoded` with the ring
filled, `StepDecoded` and `StepByte` the iterations of the other loops.
`Consume` is the body they share. `StaleStarts` is what a borrowed ring may
hold at the start, which is why `findUnfilteredWithStarts` needs no model of its
own. What the kernels decide is modelled, by the condition on which they stop;
how they decide it sixteen or more bytes at a time is not.

### ByteFilter

What `finishFoldFilters` derives from the trie so that an executor can look at
bytes alone: `TripleFilter` (`makeTripleFilter`), `RootFilter`
(`makeRootFilter`), `PairSecond`, `BucketPrefixes` (`makeTripleBucketFilter`),
and when each may be used. `Forms[t]` are the encodings of token `t`, real
bytes, since that is what the filters are about; a haystack carries its `bytes`
beside its units here, and `IsSpelled` says that the two agree. The `...Stop`
operators say where a screen must stop at the latest. A kernel that tests
nibbles admits more, so an executor may stop anywhere before that.

### ScanFiltered

`findFiltered`, `findASCIITripleFiltered` and `findASCIITripleFilteredRange`,
which are one loop with different screens; `phase` names the screen.
`Dispatch` is the end of `findWithWidth`. `LeaveRoot` is an iteration that skips
and reads the unit behind, `Step` one that goes on from a node; `Consume` is the
body. `from` and `to` bound the region. `screen` is what `finish` left in the
plan. Inside a unit there are only continuation bytes, which such a plan cannot
consume (`opaqueContinuation` is excluded).

### PairAnchored

`findASCIIPairAnchored`. `Skip` is the scan to where an anchor may be,
`CheckAnchor` the test of one anchor, `ReplayUnit` and `EndReplay` are
`replayASCIIAnchorStart`, `NextByte` ends the round. `anchorAt` gives each
pattern's pair any position: `chooseASCIIPairAnchor` ranks them by rarity, which
is about speed only.

### RawByteFilter and RawByteEach

`RawByteFilter` is what the raw-byte plan adds to a plan: the table of direct
two-byte tokens that shares its storage with the opaque bytes (`ByteTokens`),
the anchors of every pattern with the distances they may have from the start
(`AnchorFilters`: any choice that cost might make), and the bytes by which a
haystack may be cut (`OriginGates`). `RawByteEach` is
`eachRawByteFixedAnchored`: `Enter` or `EnterAtOrigin` (`findRawByteOrigin`,
for `Find`), `Skip` to where some pattern is nominated, `CheckStart` for one
pattern and distance, `ReplayUnit` and `Judge` for `rawByteMatchAt`, and `Emit`
once nothing earlier can follow, after which the scan goes back to the match's
end. `Find` is the same loop with a yield that stops.

### Literal, LiteralFind and LiteralEach

`Literal` is the plan of one pattern that begins in ASCII: the fixed prefix, the
interior window and the start recovered from it (`Recover`), the probe, the pair,
the run, and the tests of a literal, with or without its tokens.
`LiteralFind` has the routes of `findWithWidth` that search by it (`route`):
`RunBlock` and `RunByte` are `findASCIIRunBytes`, a block of a vector or a byte,
with the run carried across; `First` is the test at the front; `Skip`, `Accept`,
`Reject` and `Exhausted` are the rounds of the other routes, `HandOver` is
`findASCIIOnlyAnchor` saying that a high byte makes it another executor's
business. Which byte is rare decides between routes in the code; here any that
the static conditions admit may be taken. `LiteralEach` is `eachASCIIProbe`.

### UnicodeAnchored

One pattern that is no literal, by pairs of two bytes or by a triple:
`PairUnits`, `Triples` and `ConfirmOf` are what the plan holds, `Blocks` is the
kernel that confirms in whole blocks, `Skip`, `Accept` and `Reject` the rounds
of the tail and of the three other routes. `EndFrom` is `matchWidthAt`, form by
form.

### SingleFind

`findWithWidth` for one pattern. The plan holds both what `LiteralFind` and what
`UnicodeAnchored` need; `Routes` are its exits in their order, and from then on
the executor that was chosen runs. Both write the same answer, which is compared
with `FindContract`.

### RootBucketEach

`eachRootBucket`: `Skip` is the screen, `Confirm` the comparison of certificates,
word by word with the mask of the last one, if the haystack is ASCII for long
enough, `WalkUnit` and `WalkEnds` are `matchAtStart`, `NextByte` and `Yield`
follow from the verdict.

### ScreenedEach

`Matcher.Each` where one scan goes on across the yields: the dispatch to
`eachRootBucket` for a few patterns and to `eachASCIIProbe` for one, both compared
with `EachContract`.

### BlockScan

The Go wrappers of the kernels, as one search with parameters (`IsScan`): how far
a kernel reads behind its block, how many positions are left undecided, whether
blocks are bounded by bytes, by positions or by a carried block, whether the
rest is an overlapped block. Which bytes a screen admits is in the modules above;
here it is a set of positions, together with those a table admits too much.
What the executors assume of a skip is this module's `LandsAtFirst`.

### MatcherEach

The general loop of `Matcher.Each`: `Find` searches the rest of the haystack,
`Resume` is a `yield` that returns true, with all the arithmetic that follows
it, `Stop` one that returns false. The search is known by `FindContract`.

### Partition

`findPartitionedASCIIWithStats` after its two entries (`AdmitSet`,
`AdmitSingle`, or `Decline`). `OpenGroup` begins at an exceptional span,
`Coalesce` looks at the next span and either joins it to the group or leaves it
for the next, `LastSpan` finds none, `GiveUp` is the fallback to one decoded
search. `AnswerGroup`, `LastRegion` and `NextGroup` search the region, the
window and the gap, and choose. All searches inside are known by their contract
for the slice they are given, `AnswerIn`. Positions are bytes, as in the code.

### Mutated forms

A definition preceded by a comment `Mutated form:` is not part of any
specification. It is a slip that the code could plausibly contain (a dropped
test, an off-by-one, two stores swapped), written next to the definition it
would replace. Each property of each passing run has one that violates it, which
shows that the property depends on the code and that the bounds reach the case.

## The runs

| run | module | checks |
|---|---|---|
| `plan_cache` | `MCPlanCache` | type, own plan, recent entry in its slot, one compilation, implements `LookupContract`, a call returns |
| `plan_build` | `MCPlanBuild` | tokens are orbits, outputs, table and walk agree, `maxBytes`, construction ends |
| `scan_decoded` | `MCScanDecoded` | type, state, best match, ring, implements `FindContract`, termination |
| `scan_filtered` | `MCScanFiltered` | no start skipped, ring, implements `FindContract` |
| `pair_anchored` | `MCPairAnchored` | best match so far (anchors passed are decided, lowest pattern at a start), implements `FindContract` |
| `matcher_each` | `MCMatcherEach` | implements `EachContract`, termination |
| `partition` | `MCPartition` | cuts between units, leftmost for single patterns, nothing lost between groups, reports a match, what may be missed by a set, spans and groups move on |
| `partition_leftmost` | `MCPartition` | leftmost, for sets: **violated** |
| `raw_byte_each` | `MCRawByteEach` | a replay reads the text, anchors passed are decided, implements `EachContract` |
| `screened_each` | `MCScreenedEach` | verdicts on a start are right, implements `EachContract` |
| `single_find` | `MCSingleFind` | widths are exact, implements `FindContract` |
| `block_scan` | `MCBlockScan` | lands at the first position, loads within the haystack |

### Bounds

* `plan_cache`: three goroutines, two slots, two colliding needles and a lone
  one. Two goroutines race for a slot while the third uses its answer, which
  covers a store between any load and any store of another. Goroutines are
  interchangeable, so that one whose calls return stands for all
  (`FirstCallReturns`).
* `plan_build`: seven letters (an orbit of three members and two widths, one of
  two wide members, a lone letter, a malformed byte); all lists of at most two
  patterns of at most three letters over `k` and `s`, and chosen longer lists,
  among them links of depth three and outputs inherited along links.
  `MaxDense` = 30 puts some automata above and some below the limit of the dense
  table (the code's limit is larger, and only compared with).
* `scan_decoded`: all haystacks of at most five units over `k`, `s`, a dot and the
  Kelvin sign, and of at most four over `k`, `s` and an accented `e`, and
  sixteen pattern sets, with nested, overlapping, repeated and empty patterns
  and roots of every kind; plans folded and exact. The ring has two inline cells
  in place of 256, so that it wraps and so that `maxUnits` exceeds it; a block
  has two bytes in place of sixteen. The ring starts out filled with an offset
  that is wrong everywhere.
* `scan_filtered`: twelve pattern sets over `k`, `a`, an accented `e` and its lead
  byte alone, chosen so that every screen is used: two pairs found by their
  second byte, pairs with a required next unit, single bytes, triples with and
  without buckets, triples for ASCII only, roots that do not fit. All haystacks
  of at most three pieces among six, one of them a sign that ends in the second
  byte of another, and of at most five ASCII bytes over three; every region of
  the ASCII ones. Filters hold 6 entries in place of 16, buckets 4 in place of 8,
  the ring 2 cells in place of 256, so that each overflows; 64 bytes is 2.
* `pair_anchored`: five pattern sets with every choice of anchors; patterns have
  three or four units, so anchors lie at 0, 1 and 2 and a match may be met two
  bytes late. All haystacks of at most four bytes over `k`, `A` and both braces
  and of at most five over two letters. A brace and a bracket differ in bit five,
  the alias that the anchors admit.
* `matcher_each`: the same pattern sets, haystacks of at most four units; `yield`
  may stop at every match.
* `raw_byte_each`: six pairs of patterns over two-byte letters, `k`, a hyphen and
  a letter whose cases have different lead bytes, chosen so that anchors lie
  behind units of varying width, patterns nest and overlap and the origin gate is
  there or not; every choice of anchors. Haystacks of at most three pieces, single
  units with malformed ones among them, or whole words. `LeadRows`, the anchors'
  capacities and `UnitCapacity` are the code's; `NodeLimit` is too; a haystack
  counts as long from 9 bytes on in place of 4096, which the code only compares.
* `screened_each`: four sets of three to five patterns with prefixes of each other
  and widths that differ, two of them with certificates; words are of 2 bytes in
  place of 8, so that patterns fill whole and partial words, a certificate has up
  to 5 units in place of 24, and `EachMinBytes` is 4 in place of 67. Fifteen
  literals; a literal of five bytes has a pair, which is 9 to 15 in the code, with
  its second byte at 2 in place of 8. Haystacks of up to five pieces, Kelvin signs
  and malformed bytes among them.
* `single_find`: the same literals, those of four bytes with a pair too, and
  fourteen patterns with two-byte units next to each other, apart, too far apart
  (`MaxDelta` 3 in place of 255), too many (`MaxParts` 4 in place of 20), before
  and behind units that vary in width. Vectors of a run have 2 or 4 bytes, or
  there are none, in place of 64 and 32; runs are of three bytes, so they lie in
  a block, across two and in the tail. Blocks of the confirming kernel have 3
  starts in place of 64. `LongMin` is 4 in place of 4096, a static anchor needs 4
  bytes in place of 16, and a sample is taken for prefixes of up to 3 in place of
  64, so that all routes are taken on both sides of each comparison.
* `block_scan`: nineteen shapes, each named with the wrappers that have it, on a
  processor with wide vectors, with narrow ones and with none; blocks of 4 and 2
  bytes in place of 64 and 32; every size up to 13, hence up to three wide blocks
  with every remainder, every start up to 2, every place of up to two hits and of
  a position that only the tables admit. Most wrappers look no further behind a
  position than a block. Those of probes and of two pairs may, since a prefix can
  be longer than a block and pairs up to 255 bytes apart: they have a shape that
  looks 5 bytes ahead, which is more than a wide block here.
* `partition`: lines of 40 or 47 units in which up to three snippets stand at
  distances that make windows touch, overlap and stay apart, with Kelvin signs,
  NULs and malformed bytes. Samples are 4 bytes in place of 1024, at most 4 high
  ones in place of 16, lookahead 16 in place of 16 K, the tail 3 in place of 64.
  The code only compares with these numbers; what matters is that a haystack can
  be on both sides of each comparison, and every disjunct of the specification
  is taken in this run.

### Fairness

`PlanCache` (`FairCacheSpec`) assumes weak fairness of each goroutine's own steps, which is what
Go's scheduler gives a runnable goroutine; nothing is assumed of the caller
(`Call`, `Return`). No strong fairness is needed, for there is no lock and no
retry. `PlanBuild`, `ScanDecoded` and `MatcherEach` are sequential code in one
goroutine: weak fairness of the whole next-state relation says that the
goroutine goes on running, and for `Each` that `yield` returns. Nothing is
assumed in the other modules; a search of
theirs that could stop without an answer would be a deadlock, which their runs
look for.

## The proofs

Eight modules hold proofs, checked by TLAPS. (`PlainSearch_proofs` has four
components, the search that no filter screens from its entry points down to the
kernels: `PlanCache`, `MatcherEach`, `ScanDecoded` and `BlockScan`. So that one module
can extend all four, the definitions of all but the third carry names of their
own, `CacheSpec`, `EachSpec`, `BlockSpec` and so on.) Each proves an invariant `IInv` to
be inductive (`Init => IInv`, one lemma for each action, `Invariance`), and the
properties of the runs from it. TLC checked each `IInv` on the instance of its
run before it was proved.

Of `PlanCache`, `PlainSearch_proofs` proves, for any sets of goroutines, needles
and slots and any hash (`CacheAssumption` says only that the hash is a function and that the nil
values are not entries), that the invariant
`CacheIInv`, which is `TypeOK`, `EntriesSound`, `LocalsOK`, `DirectMapped` and
`Published`, is inductive. `ReturnsOwnPlan` is not inductive: the entry returned may come from
either shared place, so every entry in them must be sound (`EntriesSound`) and a
local entry must be the one for the goroutine's needle once the code says so
(`LocalsOK`). `Published` is the argument for the order of the two stores: what
a goroutine is about to put in `recent`, or was ever compiled for an unshared
needle, is in its slot already. From it follow `RecentIsInItsSlot` and
`CompilesOnce`. `CacheRefinement` shows that each step is one of `LookupContract`
or a stutter.

`FoldPlan_proofs` has the facts about the automaton that hold without any
execution: a node that tracks the text still does after `advance`
(`AdvanceTracks`); a node's one output occurs, and is preferred to every
pattern that was dropped from the node (`OutputOccurs`, `OutputIsBest`); if
the best match so far is best, then it still is after another unit
(`BestAfterStep`), and once it is settled no later end can improve on it
(`BestWhenSettled`). `PartIsHaystack`, `PartOccurs` and `AnswerInPart` say what a
search of a slice has to do with one of the haystack, `ByteUnitsOff` and
`AsciiRun` that a unit's number is its byte where all is ASCII.

`PlanBuild_proofs` proves that what `newSearchPlan` and `finish` build *is* the
automaton of `FoldPlan`, for any slices of patterns, any finite set of letters
with any permutation as `SimpleFold`, any widths and any limit of the table
(`BuildAssumption`; that the letters are finitely many and folding permutes them
is what makes the loop around an orbit end where it began: `WalkReturns`). The
invariant speaks of `path`, the tokens on the way to each node, which is kept as
its witness and shown to be `Path` at the end (`PathIs`); `IsTrie` and
`HoldsPrefixes` say that the nodes are the prefixes of what has been read, once
each. While `finish` runs, `BreadthFirst` and `Frontier` say how far the queue is:
depths never decrease along it, and exactly the children before the present
node's open ones are in it. This is needed for the links: a link is shorter than
its node, so it and its children were queued before (`LinkKeeps`). `Falls` is the
argument for the walk: no node with an edge for the token lies between the
present node and the suffix that was reached, so the first one that has an edge
is the longest (`LinkTarget`). A pattern ends at a node if it leads there or ends
at the link (`EndsByLink`), hence one output each is enough (`OutputByLink`). A row
of the table, or the walk without it, leads where `IsAdvance` says by
`AdvanceToChild`, `AdvanceAtRoot` and `AdvanceByLink`; that the walk's recursion has
a solution at all is part of the proof (`WalkIsAdvance`). `MaxBytesCovers` rests on
`UnitBytesBound`: each unit counts for its orbit's widest member.

Of `ScanDecoded` it proves, for any haystacks, pattern sets, ring size and
block size, that the four loops implement `FindContract`. The invariant is
`TypeOK`, `StateTracksText`, `BestOfSeen` and `RingHolds`, with the
correspondence of the byte position, the unit and the haystack (`OneByteUnits`
before the hand-over). `SkipSound` is the argument for the leaps: from the root,
no occurrence starts at a unit that was stepped over. `RingWrite` and
`ModDistinct` are the argument for the ring: two units that are less than its
length apart have different cells.

Of `BlockScan`, `PlainSearch_proofs` proves `LoadsInBounds` and `LandsAtFirst` for
haystacks of any length, blocks of any size and any kernel that `IsScan` admits. The first is not
inductive: that a block may be loaded follows from the number of blocks that were
counted when the loop was entered (`BlocksFit`, `WholeBlocksFill`), that the
overlapped block begins no later than what is left follows from `OverlapFits`,
and that a screen lands on its first position needs that nothing before the
position was a hit (`PassesNoHit`).

Of `MatcherEach`, `PlainSearch_proofs` proves that the general loop of `Each`
implements `EachContract` for any pattern set and haystack: `CursorBetweenUnits` is needed to
find the unit from which `Find` searches, `YieldsNext` to say that what is about
to be yielded is the contract's next match.

`ScanFiltered_proofs` proves that `findFiltered`, `findASCIITripleFiltered` and
its form for a region implement `FindContract`, for any patterns, spellings,
haystacks and regions, any size of the inline ring and whichever screen the plan
uses. The first half is about the screens as `finishFoldFilters` builds them.
They are recursions over the tokens, of which it is first shown that they have a
solution (`WordsExist`, `TriplesExist`, `FiltersExist`). Then: the units of an
occurrence that are needed for three bytes spell a word of the node they lead to
(`OccurrenceReads`), so that one of the filter's triples stands there
(`TripleFound`); in the same way `FilterFound`, `PairFound` and `PrefixFound` for
lone bytes, pairs and buckets. `StopsAtMatch` joins them: no screen passes over
the first byte of an occurrence, the scout of a region included. The second half
is the loop. Its invariant counts the units behind the scan and says that the
state tracks them and the best match is the best of those that have ended
(`Scanned`, `FoldPlan_proofs`' lemmas), also where a kernel has stopped *inside*
a unit: there the state is the root, the byte is malformed on its own and so
consumes nothing, and every occurrence that starts before the unit's end has
ended (`Closed`, `InsideUnit`, `ConsumeInside`). Without `Closed` the invariant is
not inductive: a match could be open while its first bytes are passed over.
`Traced` is the ring that starts over at each hit: `RingWritten` shows that a unit
overwrites none on the path, since a path is no longer than `maxUnits`
(`NodeLength`). `SkipTo` carries all of this across a leap. From the invariant follow
`SkipsNoMatch` (`NoMatchSkipped`), `RingKnowsStarts` (`StartsKnown`) and the
refinement; the region's answer is the haystack's, shifted (`ShiftedBack`).
`FilteredAssumption` says of the constants that a spelling is a non-empty string of
bytes.

`PairAnchored_proofs` proves that `findASCIIPairAnchored` implements
`FindContract`, whatever patterns, distances and anchor positions. The invariant
says, phase by phase, what is decided: every occurrence whose anchor was passed
(`AnchorsDecide`), every pattern at the present anchor that was checked
(`CheckedDecide`), and inside a replay what the automaton has seen from the start
(`ReplayHolds`, by `BestAfterStep`'s lemmas about outputs). The assumption about
the constants says that an ASCII byte belongs to one token, as a fold orbit does,
and that the plan is not empty.

`Partition_proofs` proves what `findPartitionedASCIIWithStats` promises, for any
haystack, any patterns and any limits on groups and spans: `CutsBetweenUnits`,
`NothingLost`, `ReportsMatch`, `SingleIsLeftmost`, `OnlyTrailingIsMissed` and
`SpansMoveOn`. The invariant's parts are `Group` (where a group's region, spans
and window lie; a cut is a unit boundary since a span is cut where the text
turns from ASCII), `Bounds` (the window reaches `maxBytes` beyond both ends of
the spans, so whatever it cuts is as wide as a pattern: `GapLoses`,
`WindowBoundary`), `Unseen` and `Seen` (no match behind the group, or what a
search up to it would answer) and `Answered`. That two searches with the same
answer agree is `SameAnswer`: there is only one. `OnlyTrailing` is the proof that
the finding below is the partition's only departure from the contract, and
`SingleIsFound` that a single pattern is not subject to it. The assumption says
that `maxBytes` is at least each pattern's width, and attained, as the code
computes it.

`RawByteEach_proofs` proves that `eachRawByteFixedAnchored` implements
`EachContract`, called by `Each` or by `Find`, for any pattern set that has a
raw-byte plan, any three pairs taken for each pattern's anchor and any haystack.
First come facts about the plan as it is built. The cell of the shared table that two bytes lead to has their token if a pattern uses
it, and nobody else's (`PairRead`: the cells are those of opaque bytes, and by
`RowsDiffer` two lead bytes do not share a row). So whichever way a unit is read, its
width is right, and its token is too or is one that no pattern has (`UnitIsRead`),
which the automaton cannot tell apart (`AdvancesAlike`). `OccurrenceAnchored`: where a pattern occurs, its pairs stand
where the filter looks for them, since the widths of the units before them are
among those `WidthsBetween` adds up. `OriginCutsNothing`: before the origin no match
starts, since the gate's byte is in every spelling of each pattern and no further
behind its start than `maxPrefix` (`GateIs`). Then the loop. An occurrence behind
the last match is a candidate, and it is decided when the match that is kept is
at least as good. The invariant says that a candidate is decided once its anchor
was passed (`PassedDecide`), and at the present byte once its start is not in `todo`
(`CheckedDecide`). `AnchorsDecide` is not inductive without what a replay knows
(`ReplayHolds`): its state tracks the text from its start, and `found` is the
lowest pattern among those it has read (`FoundIsLowest`), and where it stops at a node without edges no longer pattern can
follow (`LeafEnds`). A distance
may point inside a unit; such a replay reads one malformed byte and finds nothing
(`FindsNothing`). `Settled`, which stops the scan `maxOffset` behind the best match's
start, leaves no candidate before it undecided (`EmitDecides`), and `ResumedRight` says
that going back to the match's end passes over nothing. The assumption on the
constants says what forms are: a form of two bytes is a lead and a continuation
byte and is decoded as one unit, none has more than four, and of a pattern set one pattern is
the longest.

`SingleFind_proofs` proves that `findWithWidth` for one pattern implements
`FindContract` on every route, by the bytes of a literal or by a Unicode anchor,
and that the widths it reports are exact (`WidthIsExact`), for any folding, needle
and haystack. The recursions of the plan come first: each has a solution
(`OffsetsExist`, `WideExists`, `EndsExist`, `WordsExist`). Then what a match is made
of. A form that stands in the haystack and begins with a lead byte or in ASCII
begins a unit and is that unit (`FormStartsUnit`, `FormStands`); so a chain of
forms read off the bytes is an occurrence that ends where the chain ends
(`ChainReads`), which is the argument for `matchWidthAt` (`EndFromReads`), and each
occurrence is read by it (`FormsComplete`). The other way round, every occurrence has
the bytes that a route looks for, at the distance it expects: its pairs
(`PairThere`), its triple (`TripleThere`), its probe, pair or byte (`ProbeIs`,
`ByteThere`). Call that place the occurrence's *site*. The kernels stop at a site and
the site lies before the scan's limit (`UnicodeSiteStops`, `LiteralSiteStops`), and
what is checked there succeeds (`UnicodeSiteConfirmed`, `LiteralSiteConfirmed`);
with a probe in the interior that needs the start to be found by stepping back
over units of any width (`RecoverIs`). Sites come in the order of their
occurrences, so the first that is accepted is the leftmost match. The invariant
is therefore one sentence for all routes: until there is an answer, no match that
could be it has its site behind the scan (`MatchAhead`). Two routes have another
notion of what is ahead. A run of equal bytes has no site; what is kept is the
length of the run that ends here (`RunAhead`), and the proof about a block is that
its gaps continue the run only from its front (`GapIs`, `RunBlocksAre`). The
ASCII-only route hands over at a high byte, so a match ahead leaves it a *clue*, its
own start or such a byte (`Clue`, `ClueThere`). `LiteralAssumption` says what
forms are: strings of at most four bytes, a lead byte and trail bytes if there is more
than one; the ASCII forms of a letter are its two cases, another ASCII byte
has no other ASCII form, an opaque byte no other form at all; and the decoder takes
an encoding that stands at a unit for that unit (`DecodesForms`).

What only TLC has checked: `ScreenedEach`, that is, the two loops of `Each` behind a
screen (`VerdictIsRight` and that they implement `EachContract`); all liveness (`FirstCallReturns`,
`EveryPlanIsBuilt`, `Terminates`, `EachReturns`), since fairness and `ENABLED` are out of the reach of the prover.
The proofs about the executors assume the automaton, as `IsAdvance`, `IsOutput`
and `IsMaxUnits`; `PlanIsTheAutomaton` and `OutputsArePreferred` are what
discharges that assumption for the plan the code builds.

## Findings

**A set search through the ASCII partition may return a match that is not the
leftmost** (`plan.go:3562`, run `partition_leftmost`). The window around a group
of exceptional spans ends `maxBytes` behind the last span. If a match is found in
it the match is returned at once, after comparing it with the region *before* the
span only. A longer match that starts earlier, behind the span, and crosses the
window's end is not in the slice that was searched. With the pattern set of
`ascii_partition_test.go` extended by `ghighi1uvwxyz`, the haystack

    70 x "x", a euro sign, 5 x "x", "ghighi1uvwxyz", 4096 x "x"

has its leftmost match behind the five x, but `ghi1` lies inside the window and
is returned. `matcher.go:64` says "Find returns the leftmost match across the
pattern set". `partition` shows that this is the only way in which the
partition departs from the contract (`OnlyTrailingIsMissed`), and
that a single pattern is not affected (`SingleIsLeftmost`), because its gap search
takes part in the comparison. The example follows from the model and the code's
arithmetic; it has not been executed.

## What is not modelled

* Choices for the sake of speed: ranks of rarity (`asciiRarity`, the costs of
  pairs and of raw anchors), samples of the haystack (`asciiPairSparse`,
  `chooseASCIIByteAnchor`'s counts), whether tags are diverse, which processor
  there is. Where they choose between executors or anchors, the models allow
  every choice that the static conditions admit, so that what is shown does not
  depend on them.
* The choice among all executors in one place. `SingleFind` has the exits of
  `findWithWidth` for one pattern, the others are in the modules of the executors
  they lead to, and each executor is compared with the same contract.
* The tables of nibbles (`makeTripleShuftiFilter`, `makeASCIIPairAnchorFilter`):
  they must admit what the filter admits, and may admit more, which the executors'
  models allow at every byte. `arrangeTriple...` reorders a filter for a kernel.
* The layout of a confirmation and of certificates in a string of bytes, with its
  offsets and headers; what is packed there is modelled.
* Assembly: what one block decides. `BlockScan` has how the wrappers divide a
  haystack into blocks; inside a block the repository compares the assembly with
  the portable loops in its tests.
* `utf8.DecodeRune` and `unicode.SimpleFold` themselves, which are the standard
  library's: external, and given as data.
* Benchmarks, the arena's adapters and the audit tools: no part of the library.

## Plan

All of the library's executors are modelled. What is left is to prove more of
what the runs check, in this order:

1. `LiteralEach`: `SingleFind_proofs` has what a probe says of an occurrence; what is
   missing is the start that may lie before the end of the last match.
2. `RootBucketEach`: that a certificate's words agree with the pattern
   (`VerdictIsRight`), so that `ScreenedEach` implements `EachContract`.
