----------------------------- MODULE LiteralFind -----------------------------
(***************************************************************************)
(* The routes of findWithWidth for one pattern that begins in ASCII,       *)
(* before any of those for other patterns.  All of them look for a few     *)
(* bytes of the literal, work out where a match with these bytes begins,   *)
(* and confirm it; they differ in which bytes, in how far they look and in *)
(* what they conclude when nothing is found.                               *)
(*                                                                         *)
(* Which bytes are rare is a matter of speed: where the rarity of a byte   *)
(* or a sample of the haystack decides, any route may be taken.            *)
(*                                                                         *)
(* One step is a block or a byte of a run, a skip, or the verdict on where *)
(* it ended.                                                               *)
(***************************************************************************)
EXTENDS Literal

CONSTANTS StaticMin,   \* staticASCIIAnchorMin, 16
          SampleMax,   \* the longest prefix whose bytes are sampled, 64
          RunBlocks    \* the bytes of a vector, 64 or 32; 0 without vectors

VARIABLES route,    \* the executor chosen
          anchor,   \* the offset of the byte it looks for, or the offsets,
                    \* or the bytes of its vectors
          phase,    \* "first", "skip", "check" or "done"
          at,
          run, runStart,   \* the bytes of the current run, and the first of them
          answer    \* Pending also if another executor takes over

plan == <<needle, pats, fixed, hay, route, anchor>>
runs == <<run, runStart>>

Value(i) == IF IsLetter(needle[i + 1][1]) THEN Lower(needle[i + 1][1]) ELSE needle[i + 1][1]

Unique(i) == \A j \in 0..(fixed - 1) : Value(j) = Value(i) => j = i

\* makeStaticASCIIByteAnchor: the odd one out among bytes of one kind.
StaticAnchor(i) ==
  /\ fixed = Len(needle) /\ fixed >= StaticMin
  /\ Unique(i) /\ \A j, k \in 0..(fixed - 1) \ {i} : Value(j) = Value(k)

\* asciiByteAnchor and chooseASCIIByteAnchor: a byte unique in the prefix
\* that the sample has not met.
SampledAnchor(i) == fixed <= SampleMax /\ Unique(i)

ByteAnchors ==
  IF Bytes(hay) >= LongMin
    THEN {i \in 0..(fixed - 1) : SampledAnchor(i) \/ StaticAnchor(i)}
    ELSE {}

\* makeASCIIOnlyProbe
OnlyProbe ==
  <<0, IF OnlyLong THEN Len(needle) - 1 ELSE Len(needle) \div 2, Len(needle) - 1>>

\* The order in which findWithWidth tries them.
Routes ==
  IF IsRun THEN {<<"run", block>> : block \in RunBlocks}
  ELSE IF Probes # {}
    THEN {<<"probe", p>> : p \in Probes}
           \cup (IF HasPair THEN {<<"pair", <<0, PairAt, PairAt>>>>} ELSE {})
           \cup (IF fixed >= 3 THEN {<<"byte", i>> : i \in ByteAnchors} ELSE {})
    ELSE IF AsciiOnly /\ (Bytes(hay) <= LongMin \/ OnlyLong)
      THEN {<<"only", OnlyProbe>>}
      ELSE {}

-----------------------------------------------------------------------------
Answer(m) == answer' = m /\ phase' = "done" /\ UNCHANGED <<plan, at, runs>>

MatchAt(s) == [pattern |-> 0, start |-> s]

\* asciiFixedAt: a literal with a pair is first tried where the haystack begins.
First ==
  /\ phase = "first"
  /\ \/ PatternAt(0) /\ Answer(MatchAt(0))
     \/ ~PatternAt(0) /\ phase' = "skip" /\ UNCHANGED <<plan, at, runs, answer>>

-----------------------------------------------------------------------------
(***************************************************************************)
(* findASCIIRunBytes.  A block is taken apart into the gaps between the    *)
(* bytes that do not belong to the run; only the one at its front goes on  *)
(* with the run that reached it.                                           *)
(***************************************************************************)
Equal(i) == ByteIs(hay.bytes[i], 0)

BlockEnd == at + anchor
InBlocks == anchor > 0 /\ BlockEnd <= Bytes(hay)

Gaps ==
  {g \in (at..BlockEnd) \X (at..BlockEnd) :
     /\ g[1] < g[2] /\ \A i \in g[1]..(g[2] - 1) : Equal(i)
     /\ g[1] > at => ~Equal(g[1] - 1)
     /\ g[2] < BlockEnd => ~Equal(g[2])}

GoesOn(first) == first = at /\ run > 0
Length(g) == g[2] - g[1] + (IF GoesOn(g[1]) THEN run ELSE 0)
From(first) == IF GoesOn(first) THEN runStart ELSE first

LongGaps == {g \in Gaps : Length(g) >= Len(needle)}

RunBlock ==
  /\ phase = "skip" /\ route = "run" /\ InBlocks
  /\ \/ \E g \in LongGaps :
          /\ \A o \in LongGaps : g[1] <= o[1]
          /\ Answer(MatchAt(From(g[1])))
     \/ /\ LongGaps = {}
        /\ \/ \E g \in Gaps : g[2] = BlockEnd /\ run' = Length(g) /\ runStart' = From(g[1])
           \/ ~Equal(BlockEnd - 1) /\ run' = 0 /\ UNCHANGED runStart
        /\ at' = BlockEnd
        /\ UNCHANGED <<plan, phase, answer>>

\* Behind the last whole block, or without vectors.
RunByte ==
  /\ phase = "skip" /\ route = "run" /\ ~InBlocks /\ at < Bytes(hay)
  /\ \/ /\ Equal(at) /\ run + 1 >= Len(needle)
        /\ Answer(MatchAt(From(at)))
     \/ /\ Equal(at) => run + 1 < Len(needle)
        /\ IF Equal(at) THEN run' = run + 1 /\ runStart' = From(at)
                        ELSE run' = 0 /\ UNCHANGED runStart
        /\ at' = at + 1
        /\ UNCHANGED <<plan, phase, answer>>

-----------------------------------------------------------------------------
Limit ==
  CASE route \in {"run", "byte"} -> Bytes(hay)
    [] route = "probe"           -> ProbeLimit(anchor)
    [] route \in {"pair", "only"} -> Bytes(hay) - Len(needle) + 1

High(i) == hay.bytes[i] \notin Ascii

\* Where the scan must stop; a table of the vectors may admit more.
Stop(i) ==
  CASE route = "byte" -> ByteIs(hay.bytes[i], anchor)
    [] route = "only" -> High(i) \/ ProbeAt(i, anchor)
    [] OTHER          -> ProbeAt(i, anchor)

Skip ==
  /\ phase = "skip" /\ route # "run" /\ at < Limit
  /\ \E s \in at..Limit :
       /\ \A i \in at..(s - 1) : ~Stop(i)
       /\ at' = s
  /\ phase' = IF at' < Limit THEN "check" ELSE "skip"
  /\ UNCHANGED <<plan, runs, answer>>

\* Where a match begins that has the bytes found.
Start ==
  CASE route = "byte"  -> at - anchor
    [] route = "probe" -> StartAt(at, anchor)
    [] OTHER           -> at

\* What is not ASCII is another executor's.
NotAscii == route = "only" /\ High(at)

\* findASCIIByteAnchor looks at the probe first, if the literal fits.
Confirmed ==
  /\ Start >= 0 /\ ~NotAscii
  /\ IF route \in {"pair", "only"} THEN PatternAt(Start) ELSE AnchorMatches(Start)
  /\ route = "byte" /\ ~VerifyTokens /\ Start + Len(needle) <= Bytes(hay)
       => \A p \in Probes : ProbeAt(Start, p)

Accept == phase = "check" /\ Confirmed /\ Answer(MatchAt(Start))

Reject ==
  /\ phase = "check" /\ ~Confirmed /\ ~NotAscii
  /\ phase' = "skip" /\ at' = at + 1
  /\ UNCHANGED <<plan, runs, answer>>

\* findASCIIOnlyAnchor is not the one to answer: a high byte may be a part of a
\* match.  Behind its limit it has yet to look for one.
MustHandOver == \E i \in (IF Limit < 0 THEN {} ELSE Limit..(Bytes(hay) - 1)) : High(i)

HandOver ==
  /\ \/ phase = "check" /\ NotAscii
     \/ phase = "skip" /\ route = "only" /\ at >= Limit /\ MustHandOver
  /\ phase' = "done"
  /\ UNCHANGED <<plan, at, runs, answer>>

Exhausted ==
  /\ phase = "skip" /\ at >= Limit
  /\ ~(route = "only" /\ MustHandOver)
  /\ Answer(NoMatch)

Next == \/ First \/ RunBlock \/ RunByte \/ Skip \/ Accept \/ Reject
        \/ HandOver \/ Exhausted
=============================================================================
