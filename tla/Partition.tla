------------------------------ MODULE Partition ------------------------------
(***************************************************************************)
(* The ASCII partition of plan.go: findPartitionedASCIIWithStats and its   *)
(* two entries, findUnfiltered for sets of patterns and                    *)
(* findASCIIOnlyPartitioned for a single ASCII pattern.                    *)
(*                                                                         *)
(* A long haystack with few exceptional bytes (above 0x7f, or NUL) is cut  *)
(* into ASCII regions, searched with a byte filter, and windows around the *)
(* exceptional spans, widened by the widest match and searched decoded.    *)
(* Spans whose windows touch share one.  What the coordinator has to get   *)
(* right is whose answer counts.  The searches inside are known by their   *)
(* contract; all positions are byte offsets, as in the code.               *)
(***************************************************************************)
EXTENDS FoldPlan, FiniteSets

CONSTANTS Inputs,          \* sets of patterns, and the haystacks for them
          TokenBytes,      \* the widest encoding in each token's orbit
          SampleBytes,     \* asciiPartitionSampleBytes, 1024
          MaxHigh,         \* asciiPartitionMaxHigh, 16
          LookaheadBytes,  \* asciiPartitionLookaheadBytes, 16 * 1024
          TailBytes,       \* asciiTripleMinBytes, 64
          LongBytes        \* what a single pattern's haystack must exceed, 4096

\* A haystack here also says which of its ASCII units are NUL, and which of
\* the others are malformed.
IsSpelledHaystack(h) ==
  /\ IsHaystack(h)
  /\ h.nul \in [0..(h.n - 1) -> BOOLEAN]
  /\ h.bad \in [0..(h.n - 1) -> BOOLEAN]
  /\ \A u \in 0..(h.n - 1) :
       /\ h.nul[u] => h.ascii[u]
       /\ h.bad[u] => ~h.ascii[u]
       /\ h.tok[u] # 0 => h.off[u + 1] - h.off[u] <= TokenBytes[h.tok[u]]

\* p.maxBytes: the bytes of the widest spelling of a pattern.
Spelled(tokens) ==
  LET bytes[i \in 0..Len(tokens)] ==
        IF i = 0 THEN 0 ELSE bytes[i - 1] + TokenBytes[tokens[i]]
  IN  bytes[Len(tokens)]

IsMaxBytes(p, m) == \A id \in Ids(p) : Spelled(p[id]) <= m

MaxBytes(p) == CHOOSE m \in {Spelled(p[id]) : id \in Ids(p)} : IsMaxBytes(p, m)

PatternSets == UNION {input.patterns : input \in Inputs}
Haystacks == UNION {input.haystacks : input \in Inputs}

(***************************************************************************)
(* asciiPartitionUsable: a set comes here if two of its roots are ASCII,   *)
(* all of them with a complete triple filter, and one is not: without that *)
(* root the triple filter would cover any haystack and another executor    *)
(* would search it.  One of the patterns is the widest, as in any list.    *)
(***************************************************************************)
ASSUME PartitionAssumption ==
  /\ \A p \in PatternSets : IsPatternSet(p) /\ EmptyIds(p) = {} /\ p # <<>>
  /\ \A p \in PatternSets : \A id \in Ids(p) : \A i \in DOMAIN p[id] :
       TokenBytes[p[id][i]] \in Nat \ {0}
  /\ \A p \in PatternSets : Cardinality(Ids(p)) > 1 =>
       /\ Cardinality(RootTokens(p) \cap AsciiTokens) > 1
       /\ ~(RootTokens(p) \subseteq AsciiTokens)
  /\ \A p \in PatternSets : \E id \in Ids(p) : IsMaxBytes(p, Spelled(p[id]))
  /\ \A h \in Haystacks : IsSpelledHaystack(h)
  /\ {SampleBytes, MaxHigh, LookaheadBytes, TailBytes, LongBytes} \subseteq Nat \ {0}

VARIABLES pats, maxBytes, asciiOnly,    \* the plan
          hay,
          phase,                        \* "admit", "group", "coalesce", "search" or "done"
          cursor,                       \* nothing that starts before it is left to find
          spanStart,                    \* the first exceptional byte of the group
          windowStart, windowEnd,       \* the group's decoded window
          lastHighEnd,                  \* the end of the group's last span
          scanAt,                       \* where the next span is looked for
          nextStart, gapSearched,
          pending,                      \* the match found ahead, or NoMatch
          best                          \* the answer

plan == <<pats, maxBytes, asciiOnly, hay>>
group == <<windowStart, windowEnd, lastHighEnd, scanAt, nextStart, gapSearched>>
vars == <<plan, phase, cursor, spanStart, group, pending, best>>

-----------------------------------------------------------------------------
\* A single pattern comes here if it is ASCII; a set may be any.
Init ==
  /\ \E input \in Inputs : pats \in input.patterns /\ hay \in input.haystacks
  /\ maxBytes = MaxBytes(pats)
  /\ asciiOnly = (DOMAIN pats = {0})
  /\ asciiOnly => \A i \in DOMAIN pats[0] : pats[0][i] \in AsciiTokens
  /\ phase = "admit"
  /\ cursor = 0 /\ spanStart = 0
  /\ windowStart = 0 /\ windowEnd = 0 /\ lastHighEnd = 0 /\ scanAt = 0
  /\ nextStart = -1 /\ gapSearched = FALSE
  /\ pending = NoMatch
  /\ best = NoMatch

Units == 0..(hay.n - 1)
High(u) == ~hay.ascii[u]
Exceptional(u) == High(u) \/ hay.nul[u]

\* The offset of the first of the units from byte at on, or the end.
FirstFrom(at, units) ==
  LET stops == {u \in units : at <= hay.off[u]} IN
  IF stops = {} THEN Bytes(hay) ELSE hay.off[CHOOSE u \in stops : \A v \in stops : u <= v]

NextHigh(at) == FirstFrom(at, {u \in Units : High(u)})
NextExceptional(at) == FirstFrom(at, {u \in Units : Exceptional(u)})

\* Mutated form: a span of no bytes.
SpanEndAtStart(at) == at

SpanEnd(at) == FirstFrom(at, {u \in Units : ~Exceptional(u)})

\* Mutated form: the window is not widened to the left.
WindowFromSpan(at) == at

WindowFrom(at) == IF at < maxBytes THEN 0 ELSE at - maxBytes
WindowTo(at) == IF at + maxBytes > Bytes(hay) THEN Bytes(hay) ELSE at + maxBytes

HighBytes == UNION {hay.off[u]..(hay.off[u + 1] - 1) : u \in {v \in Units : High(v)}}

(***************************************************************************)
(* checkExceptional says no to NUL, to malformed bytes, and to MaxHigh     *)
(* high bytes within SampleBytes.  Every span is recorded before the next  *)
(* is looked at, so the ring of recent positions holds all high bytes.     *)
(***************************************************************************)
Crowded(at) ==
  Cardinality({b \in HighBytes : b < at /\ at - b < SampleBytes}) >= MaxHigh - 1

Rejected(start, end) ==
  \E u \in Units :
    /\ start <= hay.off[u] /\ hay.off[u] < end
    /\ \/ hay.nul[u] \/ hay.bad[u]
       \/ \E b \in hay.off[u]..(hay.off[u + 1] - 1) : High(u) /\ Crowded(b)

(***************************************************************************)
(* What a search of haystack[from:to] answers, at the offset it has in the *)
(* haystack.  A unit that a cut divides would be decoded as malformed      *)
(* bytes: CutsBetweenUnits says where that happens, and a single ASCII     *)
(* pattern, for which it does, has no token for them.                      *)
(***************************************************************************)
AnswerIn(from, to) ==
  LET hits == {o \in Ids(pats) \X (0..hay.n) :
                 /\ from <= hay.off[o[2]]
                 /\ Occurs(pats, hay, o[1], o[2])
                 /\ hay.off[o[2] + Len(pats[o[1]])] <= to}
  IN  IF hits = {} THEN NoMatch
      ELSE LET first == CHOOSE o \in hits : \A p \in hits : Before(o[2], o[1], p[2], p[1])
           IN  [pattern |-> first[1], start |-> hay.off[first[2]]]

\* Mutated form: whichever search was asked first.
BetterFirst(m, other) == IF m # NoMatch THEN m ELSE other

Better(m, other) ==
  IF m = NoMatch THEN other
  ELSE IF other = NoMatch THEN m
  ELSE IF m.start < other.start \/ (m.start = other.start /\ m.pattern < other.pattern) THEN m
  ELSE other

(***************************************************************************)
(* findASCIIOnlyAnchorWithHigh: the first ASCII spelling before the next   *)
(* high byte, or else where that byte is, -1 if there is none or too       *)
(* little is left for the pattern.                                         *)
(***************************************************************************)
GapMatch(at) == AnswerIn(at, NextHigh(at))
GapHigh(at) ==
  IF Bytes(hay) - at < Len(pats[0]) - 1 \/ NextHigh(at) = Bytes(hay) THEN -1
  ELSE NextHigh(at)

-----------------------------------------------------------------------------
\* asciiPartitionTailBoundary and asciiPartitionEarlyBoundary say no.
TailClean ==
  /\ Bytes(hay) >= TailBytes
  /\ \A u \in Units : Exceptional(u) => hay.off[u + 1] <= Bytes(hay) - TailBytes
EarlyClean == \A u \in Units : Exceptional(u) => hay.off[u] >= SampleBytes

\* asciiPartitionWindowWorthwhile
Worthwhile == Bytes(hay) >= 2 * SampleBytes /\ maxBytes <= Bytes(hay) \div 8

\* asciiPartitionSparseEnough
SparseSample(start, end) ==
  /\ \A u \in Units : hay.nul[u] => ~(start <= hay.off[u] /\ hay.off[u] < end)
  /\ Cardinality({b \in HighBytes : start <= b /\ b < end}) < MaxHigh

SparseEnough(first) ==
  LET len == Bytes(hay)
      end == IF first + SampleBytes > len THEN len ELSE first + SampleBytes
  IN  /\ SparseSample(first, end)
      /\ len - first > SampleBytes =>
           \A start \in {len \div 4, len \div 2, len - SampleBytes} :
             start >= end => SparseSample(start, start + SampleBytes)

Return(m) ==
  /\ phase' = "done" /\ best' = m
  /\ UNCHANGED <<plan, cursor, spanStart, group, pending>>

EnterAt(first, from) ==
  /\ phase' = "group"
  /\ spanStart' = first /\ cursor' = from
  /\ UNCHANGED <<plan, group, pending, best>>

AdmitsSet ==
  /\ ~asciiOnly /\ TailClean /\ Worthwhile
  /\ NextExceptional(0) < Bytes(hay) /\ SparseEnough(NextExceptional(0))

ProbesSingle == asciiOnly /\ Bytes(hay) > LongBytes /\ TailClean /\ EarlyClean

AdmitsSingle == Worthwhile /\ GapHigh(0) >= 0 /\ SparseEnough(GapHigh(0))

\* findUnfiltered
AdmitSet ==
  /\ phase = "admit" /\ AdmitsSet
  /\ EnterAt(NextExceptional(0), 0)

\* findASCIIOnlyPartitioned: the probe may already have the answer.
AdmitSingle ==
  /\ phase = "admit" /\ ProbesSingle
  /\ \/ /\ GapMatch(0) # NoMatch \/ GapHigh(0) < 0
        /\ Return(GapMatch(0))
     \/ /\ GapMatch(0) = NoMatch /\ AdmitsSingle
        /\ EnterAt(GapHigh(0), WindowFrom(GapHigh(0)))

\* Another executor searches the whole haystack.
Decline ==
  /\ phase = "admit"
  /\ ~AdmitsSet
  /\ ~(ProbesSingle /\ (GapMatch(0) # NoMatch \/ GapHigh(0) < 0 \/ AdmitsSingle))
  /\ Return(AnswerIn(0, Bytes(hay)))

\* Mutated form: the fallback begins behind the window it gives up on.
FallBackLate == Return(AnswerIn(spanStart, Bytes(hay)))

\* The rest of the haystack, from the cursor on, in one decoded search.
FallBack == Return(AnswerIn(cursor, Bytes(hay)))

OpenGroup ==
  LET end == SpanEnd(spanStart) IN
  /\ phase = "group"
  /\ \/ Rejected(spanStart, end) /\ FallBack
     \/ /\ ~Rejected(spanStart, end)
        /\ windowStart' = WindowFrom(spanStart)
        /\ windowEnd' = WindowTo(end)
        /\ lastHighEnd' = end /\ scanAt' = end
        /\ nextStart' = -1 /\ gapSearched' = FALSE
        /\ phase' = "coalesce"
        /\ UNCHANGED <<plan, cursor, spanStart, pending, best>>

-----------------------------------------------------------------------------
\* No further span: a set leaves the rest to the last region search, a single
\* pattern's gap search has covered it.
LastSpan ==
  /\ phase = "coalesce"
  /\ \/ /\ ~asciiOnly /\ NextExceptional(scanAt) = Bytes(hay)
        /\ UNCHANGED <<lastHighEnd, gapSearched, pending>>
     \/ /\ asciiOnly /\ (GapMatch(scanAt) # NoMatch \/ GapHigh(scanAt) < 0)
        /\ lastHighEnd' = Bytes(hay) /\ gapSearched' = TRUE
        /\ pending' = Better(GapMatch(scanAt), pending)
  /\ phase' = "search"
  /\ UNCHANGED <<plan, cursor, spanStart, windowStart, windowEnd, scanAt, nextStart, best>>

\* The next span starts at byte at.
NextSpan(at) ==
  /\ phase = "coalesce"
  /\ \/ ~asciiOnly /\ at = NextExceptional(scanAt) /\ at < Bytes(hay)
     \/ asciiOnly /\ GapMatch(scanAt) = NoMatch /\ at = GapHigh(scanAt) /\ at >= 0

\* Mutated form: every span has a window of its own.
ApartAlways(at) == TRUE

\* The windows of the group and of the next span do not touch.
Apart(at) == WindowFrom(at) > windowEnd

\* A distant span is left for later without a look at it.
Distant(at) == Apart(at) /\ at - spanStart > LookaheadBytes

Coalesce ==
  /\ gapSearched' = asciiOnly
  /\ \E at \in 0..Bytes(hay) :
       /\ NextSpan(at)
       /\ \/ /\ Apart(at)
             /\ Distant(at) \/ ~Rejected(at, SpanEnd(at))
             /\ nextStart' = at
             /\ phase' = "search"
             /\ UNCHANGED <<windowEnd, lastHighEnd, scanAt>>
          \/ /\ ~Apart(at) /\ ~Rejected(at, SpanEnd(at))
             /\ windowEnd' = WindowTo(SpanEnd(at))
             /\ lastHighEnd' = SpanEnd(at) /\ scanAt' = SpanEnd(at)
             /\ UNCHANGED <<nextStart, phase>>
  /\ UNCHANGED <<plan, cursor, spanStart, windowStart, pending, best>>

GiveUp ==
  /\ \E at \in 0..Bytes(hay) :
       NextSpan(at) /\ ~Distant(at) /\ Rejected(at, SpanEnd(at))
  /\ FallBack

-----------------------------------------------------------------------------
\* The region before the span, and what was found ahead.
Ahead ==
  IF cursor < spanStart THEN Better(AnswerIn(cursor, spanStart), pending) ELSE pending

\* The region's answer stands if it starts before the window, and else if the
\* window has none that is better.
GroupAnswer ==
  IF Ahead # NoMatch /\ Ahead.start < windowStart THEN Ahead
  ELSE Better(Ahead, AnswerIn(windowStart, windowEnd))

AnswerGroup ==
  /\ phase = "search"
  /\ GroupAnswer # NoMatch
  /\ Return(GroupAnswer)

\* Behind the last group only the last region is left.
LastRegion ==
  /\ phase = "search"
  /\ GroupAnswer = NoMatch /\ nextStart < 0
  /\ Return(IF lastHighEnd < Bytes(hay) THEN AnswerIn(lastHighEnd, Bytes(hay)) ELSE NoMatch)

\* Mutated form: the next group's region begins at its span.
NextGroupAtSpan ==
  /\ phase = "search"
  /\ GroupAnswer = NoMatch /\ nextStart >= 0
  /\ pending' = NoMatch
  /\ cursor' = nextStart
  /\ spanStart' = nextStart
  /\ phase' = "group"
  /\ UNCHANGED <<plan, group, best>>

\* The gap between this group and the next: a match that the next window may
\* still improve on is kept.
NextGroup ==
  LET gap == IF gapSearched THEN NoMatch ELSE AnswerIn(lastHighEnd, nextStart) IN
  /\ phase = "search"
  /\ GroupAnswer = NoMatch /\ nextStart >= 0
  /\ \/ /\ gap # NoMatch /\ gap.start < WindowFrom(nextStart)
        /\ Return(gap)
     \/ /\ gap # NoMatch => gap.start >= WindowFrom(nextStart)
        /\ pending' = gap
        /\ cursor' = WindowFrom(nextStart)
        /\ spanStart' = nextStart
        /\ phase' = "group"
        /\ UNCHANGED <<plan, group, best>>

\* The search has returned.
Done == phase = "done" /\ UNCHANGED vars

Next == \/ AdmitSet \/ AdmitSingle \/ Decline
        \/ OpenGroup \/ LastSpan \/ Coalesce \/ GiveUp
        \/ AnswerGroup \/ LastRegion \/ NextGroup \/ Done

Spec == Init /\ [][Next]_vars

-----------------------------------------------------------------------------
OnBoundary(at) == \E u \in 0..hay.n : hay.off[u] = at

(***************************************************************************)
(* No cut falls inside an encoding, although the window's bounds are sums  *)
(* of byte counts: a cut unit would be decoded as malformed bytes.  The    *)
(* one exception is harmless: after a match in a single pattern's gap the  *)
(* spans behind it are not looked at, and the window may end in one.       *)
(***************************************************************************)
CutsBetweenUnits ==
  phase \in {"group", "coalesce", "search"} =>
    /\ OnBoundary(cursor) /\ OnBoundary(spanStart)
    /\ OnBoundary(windowStart) /\ OnBoundary(lastHighEnd)
    /\ phase = "search" => (asciiOnly /\ pending # NoMatch) \/ OnBoundary(windowEnd)

(***************************************************************************)
(* Between groups nothing is lost: no match starts before the cursor, and  *)
(* a pending match is the leftmost of those that end before the next span. *)
(***************************************************************************)
NothingLost ==
  phase = "group" =>
    /\ \A id \in Ids(pats), u \in 0..hay.n :
         Occurs(pats, hay, id, u) => hay.off[u] >= cursor
    /\ pending # NoMatch => pending = AnswerIn(cursor, spanStart)

(***************************************************************************)
(* Whatever is returned occurs, and nothing is returned only if nothing    *)
(* occurs: no cut loses the only match there is.                           *)
(***************************************************************************)
ReportsMatch ==
  phase = "done" =>
    \/ /\ best = NoMatch
       /\ \A id \in Ids(pats), u \in 0..hay.n : ~Occurs(pats, hay, id, u)
    \/ \E id \in Ids(pats), u \in 0..hay.n :
         best = [pattern |-> id, start |-> hay.off[u]] /\ Occurs(pats, hay, id, u)

(***************************************************************************)
(* "Find returns the leftmost match across the pattern set, or ok=false    *)
(* when no pattern occurs" (matcher.go:64).                                *)
(***************************************************************************)
LeftmostMatch == phase = "done" => IsAnswer(pats, hay, best)

(***************************************************************************)
(* For a single pattern that is so: the gap search, which stops at its     *)
(* first match, never gives an earlier one away.                           *)
(***************************************************************************)
SingleIsLeftmost == asciiOnly => LeftmostMatch

(***************************************************************************)
(* The only match that is passed over for a later one starts behind the    *)
(* group's last span and does not end within the group's window.           *)
(***************************************************************************)
OnlyTrailingIsMissed ==
  phase = "done" /\ ~IsAnswer(pats, hay, best) =>
    LET m == AnswerIn(0, Bytes(hay))
        end == hay.off[UnitAt(hay, m.start) + Len(pats[m.pattern])]
    IN  lastHighEnd <= m.start /\ m.start < windowEnd /\ windowEnd < end

(***************************************************************************)
(* What makes the loops end, and keeps the partition from searching again  *)
(* what it has searched: each span that is joined to a group lies behind   *)
(* the one before, and the next group's region begins behind the window of *)
(* the last.                                                               *)
(***************************************************************************)
SpansMoveOn ==
  [][/\ phase = "coalesce" /\ phase' = "coalesce" => scanAt' > scanAt
     /\ phase = "search" /\ phase' = "group" =>
          spanStart' > lastHighEnd /\ cursor' > windowEnd]_vars
=============================================================================
