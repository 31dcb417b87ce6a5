----------------------------- MODULE PlanCache ------------------------------
(***************************************************************************)
(* The process-wide cache of single-needle plans: cachedSinglePlan.        *)
(*                                                                         *)
(* Any number of goroutines call it at once, without a lock.  The shared   *)
(* state is one "recent" atomic pointer and a direct-mapped array of       *)
(* atomic pointers.  Each Load and each Store is one step; compiling the   *)
(* plan happens between two of them and is seen by nobody else.            *)
(*                                                                         *)
(* An entry is the record its pointer leads to.  It is never written after *)
(* it was stored, so the model keeps the record in place of the pointer.   *)
(***************************************************************************)
CONSTANTS Callers,     \* goroutines
          Needles,
          Slots,       \* the indexes of singlePlanCache
          SlotOf,      \* singlePlanCacheIndex: the slot each needle hashes to
          NoNeedle,
          NoEntry      \* the nil pointer

\* An entry {needle, plan}; the plan is known by the needle it was compiled
\* from.
Entries == [needle : Needles, plan : Needles]

ASSUME CacheAssumption ==
  /\ SlotOf \in [Needles -> Slots]
  /\ NoNeedle \notin Needles
  /\ NoEntry \notin Entries

VARIABLES recent,     \* recentSinglePlan
          slot,       \* singlePlanCache
          pc,         \* where each caller is in cachedSinglePlan
          want,       \* the argument of its call
          entry,      \* its local variable entry, whose plan it returns
          missed      \* history: the unshared needles each caller compiled

cacheVars == <<recent, slot, pc, want, entry, missed>>

\* The needles whose slot no other needle hashes to.
Unshared ==
  {n \in Needles : \A m \in Needles : SlotOf[m] = SlotOf[n] => m = n}

Locations ==
  {"idle", "loadRecent", "loadSlot", "warmRecent",
   "compile", "storeSlot", "storeRecent", "return"}

CacheTypeOK ==
  /\ recent \in Entries \cup {NoEntry}
  /\ slot \in [Slots -> Entries \cup {NoEntry}]
  /\ pc \in [Callers -> Locations]
  /\ want \in [Callers -> Needles \cup {NoNeedle}]
  /\ entry \in [Callers -> Entries \cup {NoEntry}]
  /\ missed \in [Callers -> SUBSET Needles]

CacheInit ==
  /\ recent = NoEntry
  /\ slot = [i \in Slots |-> NoEntry]
  /\ pc = [c \in Callers |-> "idle"]
  /\ want = [c \in Callers |-> NoNeedle]
  /\ entry = [c \in Callers |-> NoEntry]
  /\ missed = [c \in Callers |-> {}]

Goto(c, location) == pc' = [pc EXCEPT ![c] = location]

\* Mutated form: whatever entry the slot holds will do.
HitAny(e, needle) == e # NoEntry

\* entry != nil && entry.needle == needle
Hit(e, needle) == e # NoEntry /\ e.needle = needle

-----------------------------------------------------------------------------
Call(c) ==
  \E n \in Needles :
    /\ pc[c] = "idle"
    /\ want' = [want EXCEPT ![c] = n]
    /\ Goto(c, "loadRecent")
    /\ UNCHANGED <<recent, slot, entry, missed>>

LoadRecent(c) ==
  /\ pc[c] = "loadRecent"
  /\ \/ /\ Hit(recent, want[c])
        /\ entry' = [entry EXCEPT ![c] = recent]
        /\ Goto(c, "return")
     \/ /\ ~Hit(recent, want[c])
        /\ Goto(c, "loadSlot")
        /\ UNCHANGED entry
  /\ UNCHANGED <<recent, slot, want, missed>>

LoadSlot(c) ==
  LET found == slot[SlotOf[want[c]]] IN
  /\ pc[c] = "loadSlot"
  /\ \/ /\ Hit(found, want[c])
        /\ entry' = [entry EXCEPT ![c] = found]
        /\ Goto(c, "warmRecent")
     \/ /\ ~Hit(found, want[c])
        /\ Goto(c, "compile")
        /\ UNCHANGED entry
  /\ UNCHANGED <<recent, slot, want, missed>>

\* Mutated form: after warming the recent entry, look again.
WarmRecentAndRetry(c) ==
  /\ pc[c] = "warmRecent"
  /\ recent' = entry[c]
  /\ Goto(c, "loadRecent")
  /\ UNCHANGED <<slot, want, entry, missed>>

\* The slot hit is made the recent entry, then its plan is returned.
WarmRecent(c) ==
  /\ pc[c] = "warmRecent"
  /\ recent' = entry[c]
  /\ Goto(c, "return")
  /\ UNCHANGED <<slot, want, entry, missed>>

\* Mutated form: the entry is published before its plan is there.
CompileLater(c) ==
  /\ pc[c] = "compile"
  /\ entry' = [entry EXCEPT ![c] = [needle |-> want[c], plan |-> NoNeedle]]
  /\ Goto(c, "storeSlot")
  /\ UNCHANGED <<recent, slot, want, missed>>

\* Mutated form: the new plan goes into the recent entry only.
CompileForRecent(c) ==
  /\ pc[c] = "compile"
  /\ entry' = [entry EXCEPT ![c] = [needle |-> want[c], plan |-> want[c]]]
  /\ missed' = [missed EXCEPT ![c] = @ \cup ({want[c]} \cap Unshared)]
  /\ Goto(c, "storeRecent")
  /\ UNCHANGED <<recent, slot, want>>

\* newSearchPlan, and the entry that holds its plan, built before any Store.
Compile(c) ==
  /\ pc[c] = "compile"
  /\ entry' = [entry EXCEPT ![c] = [needle |-> want[c], plan |-> want[c]]]
  /\ missed' = [missed EXCEPT ![c] = @ \cup ({want[c]} \cap Unshared)]
  /\ Goto(c, "storeSlot")
  /\ UNCHANGED <<recent, slot, want>>

\* Mutated form: stored under another hash than it is looked up with.
StoreAnySlot(c) ==
  /\ pc[c] = "storeSlot"
  /\ \E i \in Slots : slot' = [slot EXCEPT ![i] = entry[c]]
  /\ Goto(c, "storeRecent")
  /\ UNCHANGED <<recent, want, entry, missed>>

StoreSlot(c) ==
  /\ pc[c] = "storeSlot"
  /\ slot' = [slot EXCEPT ![SlotOf[want[c]]] = entry[c]]
  /\ Goto(c, "storeRecent")
  /\ UNCHANGED <<recent, want, entry, missed>>

StoreRecent(c) ==
  /\ pc[c] = "storeRecent"
  /\ recent' = entry[c]
  /\ Goto(c, "return")
  /\ UNCHANGED <<slot, want, entry, missed>>

\* The caller searches with the plan and forgets it.
Return(c) ==
  /\ pc[c] = "return"
  /\ want' = [want EXCEPT ![c] = NoNeedle]
  /\ entry' = [entry EXCEPT ![c] = NoEntry]
  /\ Goto(c, "idle")
  /\ UNCHANGED <<recent, slot, missed>>

\* What cachedSinglePlan itself does, from its first Load to its last Store.
Step(c) ==
  \/ LoadRecent(c) \/ LoadSlot(c) \/ WarmRecent(c)
  \/ Compile(c) \/ StoreSlot(c) \/ StoreRecent(c)

CacheNext == \E c \in Callers : Call(c) \/ Step(c) \/ Return(c)

CacheSpec == CacheInit /\ [][CacheNext]_cacheVars

\* The Go scheduler runs every goroutine that can run.  Nothing is assumed of
\* Call and Return: a program may stop asking.
FairCacheSpec == CacheSpec /\ \A c \in Callers : WF_cacheVars(Step(c))

-----------------------------------------------------------------------------
(***************************************************************************)
(* The comment above singlePlanCache: a collision only replaces a cached   *)
(* compilation, "it never changes matching state or results".  Whatever    *)
(* the others stored meanwhile, the plan a call returns was compiled from  *)
(* the call's own needle.                                                  *)
(***************************************************************************)
ReturnsOwnPlan ==
  \A c \in Callers : pc[c] = "return" => entry[c] # NoEntry /\ entry[c].plan = want[c]

(***************************************************************************)
(* The array is direct mapped: slot i only ever holds a needle that hashes *)
(* to i, so a needle has one place to be found in and one to be replaced   *)
(* in.  No Load checks this; it rests on every Store.                      *)
(***************************************************************************)
DirectMapped ==
  \A i \in Slots : slot[i] # NoEntry => SlotOf[slot[i].needle] = i

Cached(n) == slot[SlotOf[n]] # NoEntry /\ slot[SlotOf[n]].needle = n

(***************************************************************************)
(* The two Stores after a miss come in the order slot, recent.  So a needle*)
(* without a colliding one that is seen in recent is in its slot too: the  *)
(* recent pointer never holds the only cached copy of a plan, to be lost   *)
(* to the next needle.                                                     *)
(***************************************************************************)
RecentIsInItsSlot ==
  recent # NoEntry /\ recent.needle \in Unshared => Cached(recent.needle)

(***************************************************************************)
(* What the cache is for: of a needle without a colliding one, a caller    *)
(* compiles the plan at most once, however the stores of the others fall   *)
(* between its loads.  With C callers a needle costs at most C plans.      *)
(***************************************************************************)
CompilesOnce ==
  [][\A c \in Callers :
       pc[c] = "loadSlot" /\ pc'[c] = "compile" /\ want[c] \in Unshared
         => want[c] \notin missed[c]]_cacheVars

(***************************************************************************)
(* Every call returns, whatever the other callers store meanwhile: there   *)
(* is no lock and no retry in cachedSinglePlan.                            *)
(***************************************************************************)
CallReturns(c) == pc[c] = "loadRecent" ~> pc[c] = "return"

(***************************************************************************)
(* The cache is invisible: the calls and their answers are those of a      *)
(* library that compiles the needle of each call.                          *)
(***************************************************************************)
Lookup == INSTANCE LookupContract WITH
  plan <- [c \in Callers |->
             IF pc[c] = "return" THEN entry[c].plan ELSE NoNeedle]

ImplementsLookup == Lookup!Spec
=============================================================================
