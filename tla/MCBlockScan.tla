---------------------------- MODULE MCBlockScan ----------------------------
(***************************************************************************)
(* Blocks of four and two bytes.  The wrappers of root_amd64.go by their   *)
(* shape; what they differ in otherwise is the bytes their screens admit.  *)
(* Some may look further behind a position than a block, as far as the     *)
(* offsets in a pattern do.                                                *)
(***************************************************************************)
EXTENDS BlockScan

Window(ahead, slack, narrow, exact) ==
  [bound |-> "window", ahead |-> ahead, slack |-> slack, lead |-> 0,
   narrow |-> narrow, overlap |-> FALSE, exact |-> exact]
Starts(ahead, slack, narrow, overlap) ==
  [bound |-> "starts", ahead |-> <<ahead>>, slack |-> slack, lead |-> 0,
   narrow |-> narrow, overlap |-> overlap, exact |-> TRUE]

MCScans ==
  { Window(<<0>>, 0, TRUE, TRUE),       \* rootSkipASCII, literalSkipASCII
    Window(<<0>>, 0, FALSE, TRUE),      \* literalSkipExactASCII
    Window(<<1>>, 0, TRUE, TRUE),       \* filterSkipGeneralBytes, pairSetSkipBytes
    Window(<<1>>, 0, FALSE, FALSE),     \* pairShuftiSkipBytes
    Window(<<1>>, 1, TRUE, TRUE),       \* pairSkipASCII
    Window(<<1>>, 1, FALSE, FALSE),     \* asciiPairAnchorSkipBytes
    Window(<<2>>, 2, TRUE, TRUE),       \* tripleSkipBytes, triplePairSkipBytes
    Window(<<2>>, 2, FALSE, FALSE),     \* tripleShuftiSkipBytes
    Window(<<3, 2>>, 2, FALSE, FALSE),  \* tripleBucketSkipBytes
    Window(<<4>>, 1, FALSE, FALSE),     \* rawByteMultiAnchorSkipBytes
    [Window(<<0>>, 0, TRUE, TRUE) EXCEPT !.lead = 1],  \* pairSecondSkipBytes
    Starts(2, 2, TRUE, TRUE),           \* probeSkipBytes
    Starts(5, 5, TRUE, TRUE),           \* the same, by the ends of a long prefix
    Starts(2, 3, TRUE, TRUE),           \* the same, with the probe for Each
    Starts(2, 2, FALSE, TRUE),          \* asciiOnlyProbeSkipBytes
    Starts(3, 3, FALSE, FALSE),         \* pairPairSkipBytes
    Starts(5, 5, FALSE, FALSE),         \* the same, with pairs far apart
    [Starts(2, 2, FALSE, FALSE) EXCEPT !.bound = "carried"],
    [Starts(1, 6, FALSE, FALSE) EXCEPT !.bound = "carried"] }  \* asciiPairSkipBytes
=============================================================================
