----------------------------- MODULE ScreenedEach -----------------------------
(***************************************************************************)
(* Matcher.Each where one scan of the haystack goes on across the yields:  *)
(* its dispatch to eachRootBucket (RootBucketEach), for a few patterns,    *)
(* and to eachASCIIProbe (LiteralEach), for one.  Both have to enumerate   *)
(* what the loop that starts a new search behind every match does.         *)
(***************************************************************************)
EXTENDS Literal

CONSTANTS SetInputs,      \* sets of patterns, and the haystacks for them
          EachSizes, EachMinBytes, CertSizes, CertMaxUnits, WordBytes   \* of RootBucketEach

ASSUME ScreenedAssumption ==
  /\ \A input \in SetInputs :
       /\ \A p \in input.patterns : IsPatternSet(p) /\ UsedTokens(p) \subseteq DOMAIN Forms
       /\ \A h \in input.haystacks : IsSpelled(h)
  /\ EachMinBytes \in Nat /\ CertMaxUnits \in Nat /\ WordBytes \in Nat \ {0}

VARIABLES phase, at,
          turn, last, result,                   \* history, and what Each returned
          probe, nextStart,                     \* those of eachASCIIProbe
          maxUnits, triples, prefixes, certs,   \* those of eachRootBucket
          pos, node, match, width

literal == <<needle, fixed, probe, nextStart>>
bucket == <<maxUnits, triples, prefixes, certs, pos, node, match, width>>
vars == <<pats, hay, phase, at, turn, last, result, literal, bucket>>

L == INSTANCE LiteralEach
R == INSTANCE RootBucketEach

NoYield == [pattern |-> -1, start |-> -1, width |-> 0]

\* One pattern: rootBucketEachFilter is not for it.
InitLiteral ==
  /\ \E input \in Inputs :
       /\ needle \in input.needles
       /\ PlanInit
       /\ hay \in input.haystacks
  /\ L!EachesProbe
  /\ maxUnits = 0 /\ triples = {} /\ prefixes = {} /\ certs = <<>>

InitBucket ==
  /\ \E input \in SetInputs :
       /\ pats \in input.patterns
       /\ R!Bucketed /\ R!PlanInit
       /\ hay \in input.haystacks
  /\ R!LongEnough
  /\ needle = <<>> /\ fixed = 0 /\ probe = <<>>

Init ==
  /\ InitLiteral \/ InitBucket
  /\ phase = "skip" /\ at = 0 /\ nextStart = 0
  /\ pos = 0 /\ node = <<>> /\ match = -1 /\ width = 0
  /\ turn = FALSE /\ last = NoYield /\ result = "none"

EachLiteral == Cardinality(Ids(pats)) = 1 /\ L!Next /\ UNCHANGED bucket
EachBucket == Cardinality(Ids(pats)) > 1 /\ R!Next /\ UNCHANGED literal

\* Each has returned.
Done == phase = "done" /\ UNCHANGED vars

Next == EachLiteral \/ EachBucket \/ Done

Spec == Init /\ [][Next]_vars

-----------------------------------------------------------------------------
(***************************************************************************)
(* The verdict on a start is that of the automaton, whether words or the   *)
(* trie gave it: the lowest of all patterns that occur there, however long *)
(* they are, with its width there; none inside a unit.                     *)
(***************************************************************************)
VerdictIsRight == R!VerdictIsRight

\* The unit the next match may start at.
Resumed ==
  IF last = NoYield THEN 0
  ELSE CHOOSE u \in 0..hay.n : hay.off[u] = last.start + last.width

(***************************************************************************)
(* A scan that goes on across the yields gives the matches that repeated   *)
(* calls of Find would, with their widths in the haystack: wherever a      *)
(* probe lies in its pattern and however wide what precedes it is, and     *)
(* although every start is decided by itself in a mixture of ASCII and     *)
(* other starts.                                                           *)
(***************************************************************************)
Contract == INSTANCE EachContract WITH from <- Resumed

ImplementsEach == Contract!Spec
=============================================================================
