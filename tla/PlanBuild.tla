------------------------------ MODULE PlanBuild ------------------------------
(***************************************************************************)
(* newSearchPlan and finish of plan.go: from a list of patterns to the     *)
(* automaton that every executor reads.  Letters become tokens, tokens     *)
(* become a trie, and finish turns the trie into an automaton: failure     *)
(* links in breadth-first order, the one output that matters at each node, *)
(* and a dense table when it is small enough.                              *)
(*                                                                         *)
(* One step is one iteration of one of the loops.  Where the code ranges   *)
(* over a Go map the order is arbitrary: any edge left may be next.        *)
(***************************************************************************)
EXTENDS FoldPlan, FiniteSets, FiniteSetsExt, Functions

CONSTANTS Letters,        \* runes and malformed bytes
          SimpleFold,     \* unicode.SimpleFold: the next letter of the orbit
          Width,          \* the bytes of a letter's encoding
          PatternLists,   \* the arguments: slices of strings of letters
          MaxDense,       \* maxDensePlanTransitions, 1 << 20
          NoTable         \* the nil slice

ASSUME BuildAssumption ==
  /\ IsFiniteSet(Letters)
  /\ SimpleFold \in [Letters -> Letters]
  /\ \A x, y \in Letters : SimpleFold[x] = SimpleFold[y] => x = y
  /\ Width \in [Letters -> Nat \ {0}]
  /\ \A list \in PatternLists :
       /\ list \in [DOMAIN list -> Seq(Letters)]
       /\ IsFiniteSet(DOMAIN list) /\ DOMAIN list = 0..(Cardinality(DOMAIN list) - 1)
  /\ MaxDense \in Nat

VARIABLES patterns, exact,                        \* the arguments
          tokenOf, nextToken,                     \* runes and byteTokens
          nodes, empty, maxUnits, maxBytes,       \* fields of the plan
          dense,
          phase,
          patternID, at, state, bytes,            \* locals of newSearchPlan
          queue, head, todo, token, failure       \* locals of finish

args == <<patterns, exact>>
fields == <<tokenOf, nextToken, empty, maxUnits, maxBytes>>
inserting == <<patternID, at, state, bytes>>
linking == <<queue, head, todo, token, failure>>
vars == <<args, fields, nodes, dense, phase, inserting, linking>>

NewNode == [edges |-> <<>>, failure |-> 0, output |-> NoOutput]

\* A map or slice that also holds y, at the new key x.
With(f, x, y) == [z \in DOMAIN f \cup {x} |-> IF z = x THEN y ELSE f[z]]

NodeIds == DOMAIN nodes
Edges(n) == DOMAIN nodes[n].edges

Init ==
  /\ patterns \in PatternLists
  /\ exact \in BOOLEAN
  /\ exact => \A id \in DOMAIN patterns : \A i \in DOMAIN patterns[id] :
                Width[patterns[id][i]] = 1
  /\ tokenOf = [x \in Letters |-> 0]
  /\ nextToken = 1
  /\ nodes = [n \in {0} |-> NewNode]
  /\ empty = -1 /\ maxUnits = 0 /\ maxBytes = 0
  /\ dense = NoTable
  /\ phase = "insert"
  /\ patternID = 0 /\ at = 0 /\ state = 0 /\ bytes = 0
  /\ queue = <<>> /\ head = 0 /\ todo = {} /\ token = 0 /\ failure = 0

-----------------------------------------------------------------------------
\* The letters that the loop of runeToken and maxFoldRuneWidth visits: once
\* around the orbit, from r back to r.
Orbit(r) ==
  LET member[k \in 0..Cardinality(Letters)] ==
        IF k = 0 THEN r ELSE SimpleFold[member[k - 1]]
  IN  Range(member)

\* Mutated form: the walk around the orbit stops after one step.
MembersOneStep(r) == IF exact THEN {r} ELSE {r, SimpleFold[r]}

\* What a pattern letter stands for: in an exact plan only itself.
Members(r) == IF exact THEN {r} ELSE Orbit(r)

\* Mutated form: the width of the letter as the pattern spells it.
UnitBytesAsSpelled(r) == IF exact THEN 1 ELSE Width[r]

\* maxFoldRuneWidth, and one byte for a unit of an exact plan.
UnitBytes(r) ==
  IF exact THEN 1 ELSE Max({Width[x] : x \in Orbit(r)})

\* Mutated form: the lowest index first, the length only among equals.
PreferLowest(candidate, current) ==
  /\ candidate.pattern >= 0
  /\ current.pattern < 0 \/ candidate.pattern < current.pattern

PreferOutput(candidate, current) ==
  /\ candidate.pattern >= 0
  /\ \/ current.pattern < 0
     \/ candidate.units > current.units
     \/ candidate.units = current.units /\ candidate.pattern < current.pattern

Pattern == patterns[patternID]

InsertEmpty ==
  /\ phase = "insert"
  /\ patternID \in DOMAIN patterns
  /\ Pattern = <<>>
  /\ empty' = IF empty < 0 \/ patternID < empty THEN patternID ELSE empty
  /\ patternID' = patternID + 1
  /\ UNCHANGED <<args, tokenOf, nextToken, maxUnits, maxBytes, nodes, dense,
                 phase, at, state, bytes, linking>>

\* patternToken: a letter seen for the first time names its whole orbit.
InsertUnit ==
  LET r == Pattern[at + 1]
      known == tokenOf[r] # 0
      tok == IF known THEN tokenOf[r] ELSE nextToken
  IN
  /\ phase = "insert"
  /\ patternID \in DOMAIN patterns
  /\ at < Len(Pattern)
  /\ tokenOf' = IF known THEN tokenOf
                ELSE [x \in Letters |-> IF x \in Members(r) THEN tok ELSE tokenOf[x]]
  /\ nextToken' = IF known THEN nextToken ELSE nextToken + 1
  /\ bytes' = bytes + UnitBytes(r)
  /\ \/ /\ tok \in Edges(state)
        /\ state' = nodes[state].edges[tok]
        /\ UNCHANGED nodes
     \/ /\ tok \notin Edges(state)
        /\ state' = Cardinality(NodeIds)
        /\ nodes' = With([nodes EXCEPT ![state].edges = With(@, tok, state')],
                         state', NewNode)
  /\ at' = at + 1
  /\ UNCHANGED <<args, empty, maxUnits, maxBytes, dense, phase, patternID, linking>>

EndPattern ==
  LET terminal == [pattern |-> patternID, units |-> at] IN
  /\ phase = "insert"
  /\ patternID \in DOMAIN patterns
  /\ at > 0 /\ at = Len(Pattern)
  /\ nodes' = IF PreferOutput(terminal, nodes[state].output)
                THEN [nodes EXCEPT ![state].output = terminal]
                ELSE nodes
  /\ maxUnits' = IF at > maxUnits THEN at ELSE maxUnits
  /\ maxBytes' = IF bytes > maxBytes THEN bytes ELSE maxBytes
  /\ patternID' = patternID + 1
  /\ at' = 0 /\ state' = 0 /\ bytes' = 0
  /\ UNCHANGED <<args, tokenOf, nextToken, empty, dense, phase, linking>>

-----------------------------------------------------------------------------
BeginFinish ==
  /\ phase = "insert"
  /\ patternID \notin DOMAIN patterns
  /\ phase' = "enqueue"
  /\ todo' = Edges(0)
  /\ UNCHANGED <<args, fields, nodes, dense, inserting, queue, head, token, failure>>

\* The root's children keep the failure link they were made with: the root.
EnqueueRootChild ==
  /\ phase = "enqueue"
  /\ \E tok \in todo :
       /\ queue' = Append(queue, nodes[0].edges[tok])
       /\ todo' = todo \ {tok}
  /\ UNCHANGED <<args, fields, nodes, dense, phase, inserting, head, token, failure>>

\* The next node of the queue, or the table if there is none.
NextHead ==
  /\ phase \in {"enqueue", "link"}
  /\ todo = {}
  /\ \/ /\ head < Len(queue)
        /\ phase' = "link"
        /\ head' = head + 1
        /\ todo' = Edges(queue[head'])
        /\ UNCHANGED dense
     \/ /\ head = Len(queue)
        /\ head' = 0
        /\ \/ /\ nextToken > 1 /\ Cardinality(NodeIds) <= MaxDense \div nextToken
              /\ phase' = "table"
              /\ dense' = [n \in {0} |-> [tok \in 0..(nextToken - 1) |->
                          IF tok \in Edges(0) THEN nodes[0].edges[tok] ELSE 0]]
           \/ /\ ~(nextToken > 1 /\ Cardinality(NodeIds) <= MaxDense \div nextToken)
              /\ phase' = "built"
              /\ UNCHANGED dense
        /\ UNCHANGED todo
  /\ UNCHANGED <<args, fields, nodes, inserting, queue, token, failure>>

PickChild ==
  /\ phase = "link"
  /\ token' \in todo
  /\ todo' = todo \ {token'}
  /\ failure' = nodes[queue[head]].failure
  /\ phase' = "fall"
  /\ UNCHANGED <<args, fields, nodes, dense, inserting, queue, head>>

Child == nodes[queue[head]].edges[token]

\* Mutated form: the same suffix again.
FallAgain ==
  /\ phase = "fall"
  /\ failure # 0 /\ token \notin Edges(failure)
  /\ failure' = nodes[queue[head]].failure
  /\ UNCHANGED <<args, fields, nodes, dense, phase, inserting, queue, head, todo, token>>

\* No edge for the token: try the next shorter suffix.
Fall ==
  /\ phase = "fall"
  /\ failure # 0 /\ token \notin Edges(failure)
  /\ failure' = nodes[failure].failure
  /\ UNCHANGED <<args, fields, nodes, dense, phase, inserting, queue, head, todo, token>>

Link ==
  /\ phase = "fall"
  /\ failure = 0 \/ token \in Edges(failure)
  /\ LET next == IF token \in Edges(failure) THEN nodes[failure].edges[token] ELSE 0
         target == IF failure = 0 /\ next = Child THEN 0 ELSE next
         inherited == nodes[target].output
     IN  nodes' = [nodes EXCEPT ![Child].failure = target,
                                ![Child].output =
                                  IF PreferOutput(inherited, @) THEN inherited ELSE @]
  /\ queue' = Append(queue, Child)
  /\ phase' = "link"
  /\ UNCHANGED <<args, fields, dense, inserting, head, todo, token, failure>>

\* Mutated form: every row starts from the root's.
FillRowFromRoot ==
  /\ phase = "table"
  /\ head < Len(queue)
  /\ head' = head + 1
  /\ LET n == queue[head'] IN
     dense' = With(dense, n, [tok \in 0..(nextToken - 1) |->
                                IF tok \in Edges(n) THEN nodes[n].edges[tok] ELSE dense[0][tok]])
  /\ UNCHANGED <<args, fields, nodes, phase, inserting, queue, todo, token, failure>>

\* A row is its failure's row, overwritten by the node's own edges.
FillRow ==
  /\ phase = "table"
  /\ head < Len(queue)
  /\ head' = head + 1
  /\ LET n == queue[head'] IN
     dense' = With(dense, n, [tok \in 0..(nextToken - 1) |->
                                IF tok \in Edges(n) THEN nodes[n].edges[tok]
                                ELSE dense[nodes[n].failure][tok]])
  /\ UNCHANGED <<args, fields, nodes, phase, inserting, queue, todo, token, failure>>

EndTable ==
  /\ phase = "table"
  /\ head = Len(queue)
  /\ phase' = "built"
  /\ UNCHANGED <<args, fields, nodes, dense, inserting, linking>>

\* The plan is immutable from here on.
Built == phase = "built" /\ UNCHANGED vars

Next == \/ InsertEmpty \/ InsertUnit \/ EndPattern
        \/ BeginFinish \/ EnqueueRootChild \/ NextHead
        \/ PickChild \/ Fall \/ Link
        \/ FillRow \/ EndTable \/ Built

Spec == Init /\ [][Next]_vars

\* One goroutine builds the plan.
FairSpec == Spec /\ WF_vars(Next)

\* advance: by the table, or else along the failure links.
Advance(n, tok) ==
  LET walk[m \in NodeIds] ==
        IF tok \in Edges(m) THEN nodes[m].edges[tok]
        ELSE IF m = 0 THEN 0 ELSE walk[nodes[m].failure]
  IN  IF dense # NoTable THEN dense[n][tok] ELSE walk[n]

-----------------------------------------------------------------------------
\* The tokens on the way from the root to each node.
Path ==
  LET path[n \in NodeIds] ==
        IF n = 0 THEN <<>>
        ELSE LET m == CHOOSE m \in NodeIds : \E tok \in Edges(m) : nodes[m].edges[tok] = n
                 t == CHOOSE tok \in Edges(m) : nodes[m].edges[tok] = n
             IN  Append(path[m], t)
  IN  path

\* The patterns as the executors see them.
TokenPats == [id \in DOMAIN patterns |-> [i \in DOMAIN patterns[id] |-> tokenOf[patterns[id][i]]]]

Linked == {0} \cup Range(queue)

\* The bytes of a text.
Spelled(text) ==
  LET sum[i \in 0..Len(text)] == IF i = 0 THEN 0 ELSE sum[i - 1] + Width[text[i]]
  IN  sum[Len(text)]

(***************************************************************************)
(* Two letters share a token exactly when they fold to each other, however *)
(* many patterns named their orbit, and through whichever member first.    *)
(***************************************************************************)
TokensAreOrbits ==
  \A x, y \in Letters : tokenOf[x] # 0 => (tokenOf[y] = tokenOf[x] <=> y \in Members(x))

(***************************************************************************)
(* The comment above planOutput: one terminal per node is enough, and it   *)
(* is the longest, of equals the lowest, of all the patterns that end      *)
(* there, the inherited ones included, as soon as the node is linked.      *)
(***************************************************************************)
OutputIsPreferred ==
  LET path == Path IN
  phase # "insert" =>
    \A n \in Linked : IsOutput(TokenPats, path[n], nodes[n].output)

(***************************************************************************)
(* The finished plan is the automaton the executors assume (FoldPlan): its *)
(* nodes are the prefixes, once each, and advance, from the table or from  *)
(* the links, finds the longest node that ends the text.                   *)
(***************************************************************************)
PlanIsAutomaton ==
  LET path == Path IN
  phase = "built" =>
    /\ Range(path) = Nodes(TokenPats) /\ IsInjective(path)
    /\ \A n \in NodeIds, tok \in 0..(nextToken - 1) :
         IsAdvance(TokenPats, path[n], tok, path[IF tok = 0 THEN 0 ELSE Advance(n, tok)])
    /\ IsMaxUnits(TokenPats, maxUnits)
    /\ IF EmptyIds(TokenPats) = {} THEN empty = -1
       ELSE empty \in EmptyIds(TokenPats) /\ \A id \in EmptyIds(TokenPats) : empty <= id

(***************************************************************************)
(* No spelling of a pattern, with other members of its letters' orbits, is *)
(* wider than maxBytes: windows of maxBytes never cut a match.             *)
(***************************************************************************)
WindowsCoverMatches ==
  phase = "built" =>
    \A id \in DOMAIN patterns : \A text \in [DOMAIN patterns[id] -> Letters] :
      (\A i \in DOMAIN text : tokenOf[text[i]] = TokenPats[id][i]) =>
        Spelled(text) <= maxBytes

\* Every plan gets built: no failure walk and no queue goes on for ever.
EveryPlanIsBuilt == <>(phase = "built")
=============================================================================
