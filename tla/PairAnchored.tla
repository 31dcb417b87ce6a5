---------------------------- MODULE PairAnchored ----------------------------
(***************************************************************************)
(* findASCIIPairAnchored of plan.go: a set of patterns in a haystack that  *)
(* is ASCII throughout.  Every pattern that ASCII can spell has an anchor, *)
(* two adjacent bytes somewhere inside it.  A scan stops where any anchor  *)
(* may be, and the automaton is run once from each start that an anchor    *)
(* there points to.  Anchors lie at different distances from their starts, *)
(* so the matches are not found in the order of their starts.              *)
(*                                                                         *)
(* One step is one skip, the test of one anchor, one unit of its replay or *)
(* the step to the next byte.                                              *)
(***************************************************************************)
EXTENDS ByteFilter

CONSTANTS PatternSets, Haystacks, Pending,
          AnchorSlots,   \* asciiPairAnchorSlots, 8
          MinBytes       \* asciiTripleMinBytes, 64

\* One of the patterns is the longest, as in any list, and the ASCII bytes of an
\* orbit are the two cases of one letter, or the same byte.
ASSUME PairAnchoredAssumption ==
  /\ \A p \in PatternSets :
       /\ IsPatternSet(p) /\ UsedTokens(p) \subseteq DOMAIN Forms
       /\ \E id \in Ids(p) : IsMaxUnits(p, Len(p[id]))
  /\ \A h \in Haystacks : IsSpelled(h)
  /\ \A t \in DOMAIN Forms : \A f, g \in Forms[t] :
       f[1] \in Ascii /\ g[1] \in Ascii => Lower(f[1]) = Lower(g[1])
  /\ AnchorSlots \in Nat /\ MinBytes \in Nat

VARIABLES pats,
          anchorAt,   \* the anchors of the plan: pattern |-> offset of its pair
          hay,
          phase,      \* "skip", "check", "replay" or "done"
          at,
          left,       \* the anchors not tested yet at byte at
          start, read, state, found,   \* the replay and the pattern it has found
          best

args == <<pats, anchorAt, hay>>
replay == <<start, read, state, found>>
vars == <<args, phase, at, left, replay, best>>

Lowest(ids) == CHOOSE id \in ids : \A other \in ids : id <= other

AllAscii == \A i \in 0..(Bytes(hay) - 1) : hay.bytes[i] \in Ascii \ {0}

\* asciiFoldSpelling: ASCII has one byte for every token, up to bit five.
Spellable(p, id) == \A i \in DOMAIN p[id] : HasAsciiForm(p[id][i])

FoldByte(t) == CHOOSE b \in {Lower(f[1]) : f \in {g \in Forms[t] : g[1] \in Ascii}} : TRUE

\* makeASCIIPairAnchors; which pair it takes is a matter of speed.
AnchoredIds(p) == {id \in Ids(p) : p[id] # <<>> /\ Spellable(p, id)}

Anchorable(p) ==
  /\ HasAsciiTriples(p)
  /\ Cardinality(AnchoredIds(p)) \in 1..AnchorSlots
  /\ \A id \in AnchoredIds(p) : Len(p[id]) > 1

Anchors(p) ==
  {f \in [AnchoredIds(p) -> 0..255 \cap UNION {0..(Len(p[id]) - 2) : id \in AnchoredIds(p)}] :
     \A id \in DOMAIN f : f[id] <= Len(p[id]) - 2}

\* With the vectors, findWithWidth comes here if all of the haystack is ASCII.
Init ==
  /\ pats \in PatternSets
  /\ Anchorable(pats) /\ ~OpaqueContinuation(pats)
  /\ anchorAt \in Anchors(pats)
  /\ hay \in Haystacks
  /\ Bytes(hay) >= MinBytes /\ AllAscii
  /\ phase = "skip" /\ at = 0 /\ left = {}
  /\ start = 0 /\ read = 0 /\ state = <<>> /\ found = -1
  /\ best = IF EmptyIds(pats) = {} THEN NoMatch
            ELSE [pattern |-> Lowest(EmptyIds(pats)), start |-> 0]

-----------------------------------------------------------------------------
\* asciiPairAnchorMatches.  Bit five does not count, in a letter or otherwise.
Matches(id, s) ==
  \A i \in 0..1 : Lower(hay.bytes[s + i]) = FoldByte(pats[id][anchorAt[id] + 1 + i])

\* The table that is scanned with admits every anchor, and more.
MaySkipTo(s) ==
  \A i \in at..(s - 1) : i + 1 < Bytes(hay) => \A id \in DOMAIN anchorAt : ~Matches(id, i)

\* maxAt
MaxAt == CHOOSE m \in {anchorAt[id] : id \in DOMAIN anchorAt} :
           \A id \in DOMAIN anchorAt : anchorAt[id] <= m

\* Mutated form: the anchors are met in the order of their starts.
SettledAtOnce == best # NoMatch /\ at > best.start

Settled == best # NoMatch /\ at > best.start + MaxAt

\* Where replayASCIIAnchorStart ends: maxUnits bytes from its start.
MaxUnits == CHOOSE m \in {Len(pats[id]) : id \in Ids(pats)} : IsMaxUnits(pats, m)

Limit == IF start + MaxUnits > Bytes(hay) THEN Bytes(hay) ELSE start + MaxUnits

\* Mutated form: the first output decides.
PrefersFirst(id) == found = -1

Prefers(id) == found = -1 \/ id < found

Improves ==
  /\ found >= 0
  /\ \/ best = NoMatch
     \/ start < best.start
     \/ start = best.start /\ found < best.pattern

-----------------------------------------------------------------------------
Return ==
  /\ phase' = "done"
  /\ UNCHANGED <<args, at, left, replay, best>>

ReturnSettled ==
  /\ phase = "skip" /\ at + 1 < Bytes(hay) /\ Settled
  /\ Return

Skip ==
  /\ phase = "skip" /\ at + 1 < Bytes(hay) /\ ~Settled
  /\ \E s \in at..Bytes(hay) :
       /\ MaySkipTo(s)
       /\ at' = s
       /\ phase' = IF s + 1 < Bytes(hay) THEN "check" ELSE "done"
       /\ left' = DOMAIN anchorAt
  /\ UNCHANGED <<args, replay, best>>

\* The anchors are tested in the order of the patterns.
Admitted(id) ==
  /\ Matches(id, at)
  /\ at >= anchorAt[id]
  /\ best = NoMatch \/ at - anchorAt[id] <= best.start

CheckAnchor ==
  /\ phase = "check" /\ left # {}
  /\ left' = left \ {Lowest(left)}
  /\ \/ ~Admitted(Lowest(left)) /\ UNCHANGED <<phase, replay>>
     \/ /\ Admitted(Lowest(left))
        /\ phase' = "replay"
        /\ start' = at - anchorAt[Lowest(left)]
        /\ read' = 0 /\ state' = <<>> /\ found' = -1
  /\ UNCHANGED <<args, at, best>>

\* Of the outputs that reach back to the start, the lowest pattern counts.
ReplayUnit ==
  /\ phase = "replay" /\ start + read < Limit
  /\ read' = read + 1
  /\ \E next \in Nodes(pats) :
       IsAdvance(pats, state, hay.tok[start + read], next) /\ state' = next
  /\ \E out \in Outputs(pats) :
       /\ IsOutput(pats, state', out)
       /\ IF out.units = read' /\ Prefers(out.pattern)
            THEN found' = out.pattern ELSE UNCHANGED found
  /\ UNCHANGED <<args, phase, at, left, start, best>>

EndReplay ==
  /\ phase = "replay" /\ start + read = Limit
  /\ phase' = "check"
  /\ best' = IF Improves THEN [pattern |-> found, start |-> start] ELSE best
  /\ UNCHANGED <<args, at, left, replay>>

NextByte ==
  /\ phase = "check" /\ left = {}
  /\ phase' = "skip" /\ at' = at + 1
  /\ UNCHANGED <<args, left, replay, best>>

Finish ==
  /\ phase = "skip" /\ at + 1 >= Bytes(hay)
  /\ Return

\* Find has returned.
Done == phase = "done" /\ UNCHANGED vars

Next == \/ ReturnSettled \/ Skip \/ CheckAnchor \/ ReplayUnit \/ EndReplay
        \/ NextByte \/ Finish \/ Done

Spec == Init /\ [][Next]_vars

-----------------------------------------------------------------------------
(***************************************************************************)
(* An occurrence is decided once its anchor has been passed, wherever the  *)
(* scan has stopped: best is at least as good.                             *)
(***************************************************************************)
AnchorsDecide ==
  \A id \in DOMAIN anchorAt, u \in 0..(hay.n - 1) :
    Occurs(pats, hay, id, u) /\ u + anchorAt[id] < at
      => best # NoMatch /\ Before(best.start, best.pattern, u, id)

(***************************************************************************)
(* One replay decides for every pattern at its start, also for those whose *)
(* own anchors are yet to come: a non-empty best occurs, and no lower      *)
(* pattern occurs there.                                                   *)
(***************************************************************************)
LowestAtStart ==
  best # NoMatch =>
    /\ Occurs(pats, hay, best.pattern, best.start)
    /\ pats[best.pattern] # <<>> =>
         \A id \in Ids(pats) : Occurs(pats, hay, id, best.start) => best.pattern <= id

(***************************************************************************)
(* What the scan may rely on when it returns: every anchor passed has been *)
(* decided, for its start once and for all.                                *)
(***************************************************************************)
BestSoFar == AnchorsDecide /\ LowestAtStart

(***************************************************************************)
(* Matches found out of order notwithstanding, the scan implements the     *)
(* contract of Find.                                                       *)
(***************************************************************************)
Contract == INSTANCE FindContract WITH
  answer <- IF phase = "done" THEN best ELSE Pending

ImplementsFind == Contract!Spec
=============================================================================
