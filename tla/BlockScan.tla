------------------------------ MODULE BlockScan ------------------------------
(***************************************************************************)
(* The vector wrappers of root_amd64.go and triple_bucket_amd64.go.  Each  *)
(* looks for the first position of a haystack that a screen admits: blocks *)
(* of 64 bytes where the processor has AVX-512, blocks of 32 where it has  *)
(* AVX2, and a loop over bytes for what no block covers.  They differ in   *)
(* how far a kernel looks behind its block and in what bounds the blocks.  *)
(*                                                                         *)
(* Which bytes a screen admits is the business of ByteFilter and Literal.  *)
(* Here a screen is a set of positions: those it has to stop at, and those *)
(* where the tables of a vector kernel admit too much.  What the modules   *)
(* of the executors assume of a skip (MaySkipTo, Stop) is LandsAtFirst.    *)
(***************************************************************************)
EXTENDS Integers, Sequences, FiniteSets, FiniteSetsExt

CONSTANTS Wide, Narrow,  \* the bytes of a block: 64 and 32
          Scans,         \* the wrappers, see IsScan
          MaxSize, MaxFrom, MaxHits  \* bounds of what is searched

(***************************************************************************)
(* A wrapper.  Its kernels read "ahead" bytes behind a position they       *)
(* decide, one number for each pass of blocks.  It leaves the last "slack" *)
(* positions undecided, and reads the byte "lead" behind the position it   *)
(* reports.  Its blocks are bounded by the bytes that remain ("window"),   *)
(* by the positions to decide ("starts"), or by both ("carried": a kernel  *)
(* that holds the block behind the one it decides).  A window keeps its    *)
(* blocks off the undecided positions by what it reads; where the starts   *)
(* bound the blocks, what is read behind them is left undecided.           *)
(***************************************************************************)
IsScan(s) ==
  /\ s.bound \in {"window", "starts", "carried"}
  /\ s.ahead \in Seq(Nat) /\ s.ahead # <<>>
  /\ s.slack \in Nat /\ s.lead \in {0, 1}
  /\ {s.narrow, s.overlap, s.exact} \subseteq BOOLEAN
  /\ \A i \in DOMAIN s.ahead :
       IF s.bound = "window" THEN s.slack <= s.ahead[i] ELSE s.ahead[i] <= s.slack
  /\ s.overlap => s.bound = "starts"

ASSUME BlockAssumption ==
  /\ Narrow \in Nat \ {0} /\ Wide \in Nat /\ Wide > Narrow
  /\ \A s \in Scans : IsScan(s)
  /\ {MaxSize, MaxFrom, MaxHits} \subseteq Nat

VARIABLES scan, cpu, size, from,
          hits,     \* the positions to stop at
          aliases,  \* the positions that only a kernel admits
          loop,     \* "enter", "blocks", "overlap", "bytes" or "done"
          pass,     \* the pass of blocks, an index of scan.ahead
          block,    \* the bytes of a block in this pass
          full,     \* where its last block ends
          cursor,   \* the byte to decide next
          reach,    \* the end of the furthest byte loaded
          stop      \* the position returned

search == <<scan, cpu, size, from, hits, aliases>>
blockVars == <<search, loop, pass, block, full, cursor, reach, stop>>

-----------------------------------------------------------------------------
Ahead == scan.ahead[pass]
End == size - scan.slack
Larger(a, b) == IF a >= b THEN a ELSE b
Nowhere == IF scan.lead = 1 THEN size ELSE Larger(from, End)

WholeBlocks(n, b) == (n \div b) * b

\* Mutated forms: the look-ahead forgotten; the cap forgotten.
WindowFullToEnd(b) == WholeBlocks(size - cursor, b)
CarriedFullUncapped(b) == WholeBlocks(size - cursor - b, b)

(***************************************************************************)
(* The bytes of whole blocks from the cursor.  A window must leave what is *)
(* read behind its last block; a carried block is a block less.            *)
(***************************************************************************)
WindowFull(b) == WholeBlocks(size - cursor - Ahead, b)
StartsFull(b) == WholeBlocks(End - cursor, b)
CarriedFull(b) ==
  LET room == WholeBlocks(size - cursor - b, b)
  IN IF room > End - cursor THEN StartsFull(b) ELSE room

FullOf(b) == CASE scan.bound = "window" -> WindowFull(b)
               [] scan.bound = "starts" -> StartsFull(b)
               [] scan.bound = "carried" -> CarriedFull(b)

HasWide == cpu = "avx512"
HasNarrow == cpu \in {"avx512", "avx2"} /\ scan.narrow
BlockSize == IF HasWide /\ FullOf(Wide) >= Wide THEN Wide
             ELSE IF HasNarrow /\ FullOf(Narrow) >= Narrow THEN Narrow ELSE 0

\* The first lane of a block at "a" that its kernel admits.
Lanes(a) == {p \in a..(a + block - 1) : p - scan.lead \in hits \cup aliases}
LoadedTo(a) == a + block + (IF scan.bound = "carried" THEN block ELSE Ahead)

-----------------------------------------------------------------------------
BlockInit ==
  /\ scan \in Scans /\ cpu \in {"avx512", "avx2", "none"}
  /\ size \in 0..MaxSize /\ from \in 0..(IF size < MaxFrom THEN size ELSE MaxFrom)
  /\ \E n \in 0..MaxHits : hits \in kSubset(n, from..(End - 1 - scan.lead))
  /\ aliases \in {{}} \cup {{p} : p \in (from..(size - 1)) \ hits}
  /\ loop = "enter" /\ pass = 1 /\ block = 0 /\ full = 0
  /\ cursor = from + scan.lead /\ reach = 0 /\ stop = from

NextPass == IF pass < Len(scan.ahead) THEN loop' = "enter" /\ pass' = pass + 1
            ELSE loop' = "bytes" /\ UNCHANGED pass

EnterBlocks ==
  /\ loop = "enter" /\ BlockSize > 0
  /\ loop' = "blocks" /\ block' = BlockSize /\ full' = cursor + FullOf(BlockSize)
  /\ UNCHANGED <<search, pass, cursor, reach, stop>>

NoBlocks ==
  /\ loop = "enter" /\ BlockSize = 0
  /\ NextPass
  /\ UNCHANGED <<search, block, full, cursor, reach, stop>>

StopAt(p) ==
  /\ stop' = p - scan.lead
  /\ loop' = "done"
  /\ UNCHANGED <<pass, cursor>>

LoadBlock ==
  /\ loop = "blocks" /\ cursor < full
  /\ reach' = Larger(reach, LoadedTo(cursor))
  /\ IF Lanes(cursor) # {} THEN StopAt(Min(Lanes(cursor)))
     ELSE cursor' = cursor + block /\ UNCHANGED <<loop, pass, stop>>
  /\ UNCHANGED <<search, block, full>>

MustOverlap == scan.overlap /\ block = Wide /\ full # End

LeaveBlocks ==
  /\ loop = "blocks" /\ cursor = full
  /\ IF MustOverlap THEN loop' = "overlap" /\ UNCHANGED pass ELSE NextPass
  /\ UNCHANGED <<search, block, full, cursor, reach, stop>>

(***************************************************************************)
(* probeSkipBytes and asciiOnlyProbeSkipBytes decide the rest of the       *)
(* positions by one more block, which ends with them.                      *)
(***************************************************************************)
TailAt == End - block

Overlap ==
  /\ loop = "overlap"
  /\ reach' = Larger(reach, LoadedTo(TailAt))
  /\ IF Lanes(TailAt) # {} THEN StopAt(Min(Lanes(TailAt)))
     ELSE cursor' = End /\ loop' = "bytes" /\ UNCHANGED <<pass, stop>>
  /\ UNCHANGED <<search, block, full>>

\* The bytes behind the cursor are read unguarded only where there is slack for them.
Byte ==
  /\ loop = "bytes" /\ cursor < End
  /\ reach' = Larger(reach, cursor + 1 + (IF scan.slack >= Ahead THEN Ahead ELSE 0))
  /\ IF cursor - scan.lead \in (IF scan.exact THEN hits ELSE hits \cup aliases) THEN StopAt(cursor)
     ELSE cursor' = cursor + 1 /\ UNCHANGED <<loop, pass, stop>>
  /\ UNCHANGED <<search, block, full>>

Exhausted ==
  /\ loop = "bytes" /\ cursor >= End
  /\ loop' = "done" /\ stop' = Nowhere
  /\ UNCHANGED <<search, pass, block, full, cursor, reach>>

\* The wrapper has returned.
BlockDone == loop = "done" /\ UNCHANGED blockVars

BlockNext ==
  \/ EnterBlocks \/ NoBlocks \/ LoadBlock \/ LeaveBlocks
  \/ Overlap \/ Byte \/ Exhausted \/ BlockDone

BlockSpec == BlockInit /\ [][BlockNext]_blockVars

-----------------------------------------------------------------------------
(***************************************************************************)
(* Whatever the processor, and wherever blocks and bytes meet, a wrapper   *)
(* passes over no position of its screen and ends at one that a kernel     *)
(* admits, or at its end: what the executors assume of a skip.             *)
(***************************************************************************)
LandsAtFirst ==
  loop = "done" =>
    /\ stop \in from..Nowhere
    /\ hits \cap (from..(stop - 1)) = {}
    /\ stop = Nowhere \/ stop \in hits \cup aliases

\* No block, overlapped or carried, is loaded beyond the haystack, and no byte
\* is read there: the kernels take pointers, which nothing else checks.
LoadsInBounds == reach <= size
=============================================================================
