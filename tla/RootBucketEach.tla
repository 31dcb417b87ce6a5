---------------------------- MODULE RootBucketEach ----------------------------
(***************************************************************************)
(* eachRootBucket of each_root.go, for a few patterns whose roots are all  *)
(* screened by triples.  A start that the screen nominates   *)
(* is decided by itself: by comparing words of bytes with certificates of  *)
(* the patterns, if the haystack is ASCII for as long as the longest of    *)
(* them, and by walking down the trie otherwise.                           *)
(*                                                                         *)
(* One step is a skip, a look at the certificates, one unit of a walk, or  *)
(* what follows from the verdict.                                          *)
(***************************************************************************)
EXTENDS ByteFilter

CONSTANTS EachSizes,     \* the numbers of patterns that come here, 3..5
          EachMinBytes,  \* rootBucketEachMinBytes, 67
          CertSizes,     \* the numbers of patterns that have certificates, 4..5
          CertMaxUnits,  \* rootASCIIWordMaxUnits, 24
          WordBytes      \* the bytes of a word, 8

VARIABLES pats, maxUnits,
          triples, prefixes,   \* the screen
          certs,               \* the certificates, if the plan has them
          hay,
          phase,               \* "skip", "confirm", "walk", "judge" or "done"
          at,
          pos, node,           \* matchAtStart: behind the units of the node
          match, width,        \* the verdict on the start at
          turn, last, result   \* history, and what Each returned

plan == <<pats, maxUnits, triples, prefixes, certs, hay>>
yields == <<turn, last, result>>
vars == <<plan, phase, at, pos, node, match, width, yields>>

-----------------------------------------------------------------------------
\* asciiTokenKind: the token's ASCII spellings are one byte or one letter.
AsciiBytes(t) == {b \in Ascii : <<b>> \in Forms[t]}

IsAsciiKind(t) ==
  \/ Cardinality(AsciiBytes(t)) = 1
  \/ /\ Cardinality(AsciiBytes(t)) = 2
     /\ \A b, c \in AsciiBytes(t) : IsLetter(b) /\ Lower(b) = Lower(c)

\* A certificate has a byte for every unit, of a letter the lower case.
CertByte(t) ==
  IF Cardinality(AsciiBytes(t)) = 1
    THEN [value |-> CHOOSE b \in AsciiBytes(t) : TRUE, fold |-> FALSE]
    ELSE [value |-> Lower(CHOOSE b \in AsciiBytes(t) : TRUE), fold |-> TRUE]

(***************************************************************************)
(* makeRootASCIIWordCerts: all of the patterns, or no certificates at all. *)
(***************************************************************************)
Certified(p, m) ==
  /\ Cardinality(Ids(p)) \in CertSizes
  /\ EmptyIds(p) = {} /\ m <= CertMaxUnits
  /\ \A t \in UsedTokens(p) : IsAsciiKind(t)

Certs(p, m) ==
  IF Certified(p, m)
    THEN [id \in Ids(p) |-> [i \in DOMAIN p[id] |-> CertByte(p[id][i])]]
    ELSE <<>>

-----------------------------------------------------------------------------
\* What newSearchPlan makes of the patterns.
PlanInit ==
  /\ maxUnits \in {Len(pats[id]) : id \in Ids(pats)} /\ IsMaxUnits(pats, maxUnits)
  /\ triples = TripleFilter(pats).values
  /\ prefixes = BucketPrefixes(pats)
  /\ certs = Certs(pats, maxUnits)

\* rootBucketEachFilter
Bucketed ==
  /\ EmptyIds(pats) = {} /\ Cardinality(Ids(pats)) \in EachSizes
  /\ ~OpaqueContinuation(pats) /\ BucketUsable(pats)

LongEnough == Bytes(hay) >= EachMinBytes

\* The screen may stop anywhere, and must where a match may begin.
MaySkipTo(s) == \A i \in at..(s - 1) : ~BucketStop(hay, triples, prefixes, i)

\* Mutated form: a match of three bytes at the end is given up.
InRoomForPrefix(s) == s + 3 < Bytes(hay)

\* No match is shorter than a triple.
InRoom(s) == s + 2 < Bytes(hay)

Skip ==
  /\ phase = "skip" /\ InRoom(at)
  /\ \E s \in at..(Bytes(hay) - 1) : MaySkipTo(s) /\ at' = s
  /\ phase' = IF InRoom(at') THEN "confirm" ELSE "skip"
  /\ UNCHANGED <<plan, pos, node, match, width, yields>>

-----------------------------------------------------------------------------
(***************************************************************************)
(* matchRootASCIIWordCertData.  The haystack's words are zero behind       *)
(* maxUnits bytes, a certificate's are zero behind its units; in the last  *)
(* word of a certificate only its own units are compared.                  *)
(***************************************************************************)
Known ==
  /\ certs # <<>> /\ at + maxUnits <= Bytes(hay)
  /\ \A i \in 0..(maxUnits - 1) : hay.bytes[at + i] \in Ascii

HaystackByte(i) == IF i < maxUnits THEN hay.bytes[at + i] ELSE 0

CertOf(id, i) ==
  IF i < Len(certs[id]) THEN certs[id][i + 1] ELSE [value |-> 0, fold |-> FALSE]

Words(id) == (Len(certs[id]) + WordBytes - 1) \div WordBytes

\* Mutated form: whole words are compared.
ComparedWhole(id, word, lane) == TRUE

\* Whether the lane of a word is compared: the last word may be a part of one.
Compared(id, word, lane) ==
  word = Words(id) - 1 /\ Len(certs[id]) % WordBytes # 0 => lane < Len(certs[id]) % WordBytes

CertMatches(id) ==
  \A word \in 0..(Words(id) - 1), lane \in 0..(WordBytes - 1) :
    LET i == word * WordBytes + lane IN
    Compared(id, word, lane) =>
      (IF CertOf(id, i).fold THEN Lower(HaystackByte(i)) ELSE HaystackByte(i)) = CertOf(id, i).value

\* In the order of the patterns.
Confirm ==
  /\ phase = "confirm"
  /\ \/ /\ ~Known
        /\ phase' = "walk" /\ pos' = at /\ node' = <<>> /\ match' = -1 /\ width' = 0
     \/ /\ Known /\ phase' = "judge"
        /\ \/ /\ \A id \in Ids(pats) : ~CertMatches(id)
              /\ match' = -1 /\ width' = 0
           \/ \E id \in Ids(pats) :
                /\ CertMatches(id) /\ \A other \in Ids(pats) : CertMatches(other) => id <= other
                /\ match' = id /\ width' = Len(certs[id])
        /\ UNCHANGED <<pos, node>>
  /\ UNCHANGED <<plan, at, yields>>

-----------------------------------------------------------------------------
(***************************************************************************)
(* matchAtStart.  Inside a unit, where the screen may have stopped, there  *)
(* is a continuation byte, which has no token in these plans.              *)
(***************************************************************************)
UnitHere == {u \in 0..(hay.n - 1) : hay.off[u] = pos}

\* The output spans all that was read from the start.
EndsAtStart(s, out) == out.pattern >= 0 /\ out.units = Len(s)

WalkUnit ==
  /\ phase = "walk" /\ Len(node) < maxUnits
  /\ \E u \in UnitHere :
       /\ node' = Append(node, hay.tok[u]) /\ node' \in Nodes(pats)
       /\ pos' = hay.off[u + 1]
  /\ \E out \in Outputs(pats) :
       /\ IsOutput(pats, node', out)
       /\ IF EndsAtStart(node', out) /\ (match = -1 \/ out.pattern < match)
            THEN match' = out.pattern /\ width' = pos' - at
            ELSE UNCHANGED <<match, width>>
  /\ UNCHANGED <<plan, phase, at, yields>>

WalkEnds ==
  /\ phase = "walk"
  /\ Len(node) < maxUnits => \A u \in UnitHere : Append(node, hay.tok[u]) \notin Nodes(pats)
  /\ phase' = "judge"
  /\ UNCHANGED <<plan, at, pos, node, match, width, yields>>

-----------------------------------------------------------------------------
NextByte ==
  /\ phase = "judge" /\ match = -1
  /\ phase' = "skip" /\ at' = at + 1
  /\ UNCHANGED <<plan, pos, node, match, width, yields>>

Yield ==
  /\ phase = "judge" /\ match >= 0
  /\ turn' = ~turn
  /\ last' = [pattern |-> match, start |-> at, width |-> width]
  /\ \/ phase' = "skip" /\ at' = at + width /\ UNCHANGED result
     \/ phase' = "done" /\ result' = "false" /\ UNCHANGED at
  /\ UNCHANGED <<plan, pos, node, match, width>>

Exhausted ==
  /\ phase = "skip" /\ ~InRoom(at)
  /\ phase' = "done" /\ result' = "true"
  /\ UNCHANGED <<plan, at, pos, node, match, width, turn, last>>

Next == \/ Skip \/ Confirm \/ WalkUnit \/ WalkEnds
        \/ NextByte \/ Yield \/ Exhausted

-----------------------------------------------------------------------------
(***************************************************************************)
(* The verdict on a start is that of the automaton, whether words or the   *)
(* trie gave it: the lowest of all patterns that occur there, however long *)
(* they are, with its width there; none inside a unit.                     *)
(***************************************************************************)
VerdictIsRight ==
  phase = "judge" =>
    LET here == {u \in 0..hay.n : hay.off[u] = at}
        ids  == {id \in Ids(pats) : \E u \in here : Occurs(pats, hay, id, u)}
    IN  IF match = -1 THEN ids = {}
        ELSE /\ match \in ids /\ \A id \in ids : match <= id
             /\ \A u \in here : at + width = hay.off[u + Len(pats[match])]
=============================================================================
