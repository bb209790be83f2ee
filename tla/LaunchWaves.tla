----------------------------- MODULE LaunchWaves -----------------------------
(***************************************************************************)
(* Ordering app launches (workspace-core/src/launch.rs, waves): Kahn's     *)
(* algorithm over the slots of a project, one wave per iteration.          *)
(*                                                                         *)
(* The input is any project: slots with or without a name and with any     *)
(* list of names to launch after, repeated, unknown and cyclic ones        *)
(* included.  Waves are sets: the order of launches inside a wave, the     *)
(* project's order of slots, is left out, and so are the labels in errors. *)
(***************************************************************************)
EXTENDS Naturals, Sequences, FiniteSets

CONSTANTS
  Slots,   \* slot ids of the project
  Names,   \* slot names
  Afters,  \* the lists of names LaunchSpec.after may hold
  NULL     \* no name

ASSUME SlotsAssumption  == IsFiniteSet(Slots)
ASSUME NamesAssumption  == NULL \notin Names
ASSUME AftersAssumption == Afters \subseteq Seq(Names)

VARIABLES
  name,       \* AppSlot.name
  after,      \* LaunchSpec.after, empty for a slot without a launch spec
  inDegree,   \* in_degree: dependencies of a slot not yet in a wave
  remaining,  \* slots not yet peeled off
  ready,      \* the wave being peeled off
  waves,      \* the waves so far
  result      \* "validating", "peeling", then "ok" or an error

input == <<name, after>>
vars  == <<name, after, inDegree, remaining, ready, waves, result>>

-----------------------------------------------------------------------------
(* The dependency graph *)

\* by_name, once names are known to be unique
ById(n) == CHOOSE s \in Slots : name[s] = n

DuplicateName == \E s, t \in Slots : s # t /\ name[s] # NULL /\ name[s] = name[t]

UnknownDependency ==
  \E s \in Slots : \E i \in DOMAIN after[s] : \A d \in Slots : name[d] # after[s][i]

\* The entries of a slot's list that name a slot of T.
Entries(s, T) == {i \in DOMAIN after[s] : ById(after[s][i]) \in T}
Deps(s)       == {ById(after[s][i]) : i \in DOMAIN after[s]}

Placed == UNION {waves[k] : k \in DOMAIN waves}

-----------------------------------------------------------------------------
(* The algorithm *)

Init ==
  /\ name \in [Slots -> Names \cup {NULL}]
  /\ after \in [Slots -> Afters]
  /\ inDegree = [s \in Slots |-> 0]
  /\ remaining = 0
  /\ ready = {}
  /\ waves = << >>
  /\ result = "validating"

\* Names are checked over all slots before any dependency is.
Reject ==
  /\ result = "validating"
  /\ \/ DuplicateName /\ result' = "DuplicateName"
     \/ ~DuplicateName /\ UnknownDependency /\ result' = "UnknownDependency"
  /\ UNCHANGED <<name, after, inDegree, remaining, ready, waves>>

Degree(s) == Len(after[s])

Start ==
  /\ result = "validating" /\ ~DuplicateName /\ ~UnknownDependency
  /\ inDegree' = [s \in Slots |-> Degree(s)]
  /\ remaining' = Cardinality(Slots)
  /\ ready' = {s \in Slots : inDegree'[s] = 0}
  /\ result' = "peeling"
  /\ UNCHANGED <<name, after, waves>>

\* mutants: one dependency is enough; one slot a wave
FreedByOne(degree)  == {s \in Slots \ (Placed \cup ready) : degree[s] < Degree(s) \/ degree[s] = 0}
FreedSingly(degree) ==
  LET free == {s \in Slots \ (Placed \cup ready) : degree[s] = 0}
  IN  IF free = {} THEN {} ELSE {CHOOSE s \in free : TRUE}

\* The slots all of whose dependencies are in this wave or an earlier one.
Freed(degree) == {s \in Slots \ (Placed \cup ready) : degree[s] = 0}

Peel ==
  /\ result = "peeling" /\ ready # {}
  /\ remaining' = remaining - Cardinality(ready)
  /\ inDegree' = [s \in Slots |-> inDegree[s] - Cardinality(Entries(s, ready))]
  /\ ready' = Freed(inDegree')
  /\ waves' = Append(waves, ready)
  /\ UNCHANGED <<name, after, result>>

\* mutant: only a project none of whose slots can start is cyclic
OutcomeOfStart == IF waves = << >> /\ Slots # {} THEN "Cycle" ELSE "ok"
Outcome == IF remaining > 0 THEN "Cycle" ELSE "ok"

Finish ==
  /\ result = "peeling" /\ ready = {}
  /\ result' = Outcome
  /\ UNCHANGED <<name, after, inDegree, remaining, ready, waves>>

Next == Reject \/ Start \/ Peel \/ Finish

Spec == Init /\ [][Next]_vars

-----------------------------------------------------------------------------
(* Properties *)

Results == {"validating", "peeling", "ok", "DuplicateName", "UnknownDependency", "Cycle"}

TypeOK ==
  /\ name \in [Slots -> Names \cup {NULL}]
  /\ after \in [Slots -> Afters]
  /\ inDegree \in [Slots -> Nat]
  /\ remaining \in Nat
  /\ ready \subseteq Slots
  /\ waves \in Seq(SUBSET Slots)
  /\ result \in Results

\* The counters of launch.rs (unsigned, decremented without a check) are exact:
\* in_degree counts the list entries not yet satisfied, remaining the slots not
\* yet peeled off.  So neither can underflow, whatever lists repeat.
CountersExact ==
  result = "peeling" =>
    /\ remaining = Cardinality(Slots \ Placed)
    /\ \A s \in Slots : inDegree[s] = Cardinality(Entries(s, Slots \ Placed))

\* A wave holds only slots whose dependencies are all in earlier waves: "wave
\* N+1 starts only when every slot it depends on is ready" rests on it.
DependenciesFirst ==
  \A k \in DOMAIN waves : \A s \in waves[k] : \A d \in Deps(s) :
    \E j \in DOMAIN waves : j < k /\ d \in waves[j]

\* No slot waits longer than it must: it is in the first wave, or depends on
\* one of the wave before its own.
NoNeedlessWait ==
  \A k \in DOMAIN waves : k > 1 =>
    \A s \in waves[k] : \E d \in Deps(s) : d \in waves[k - 1]

\* Every slot is launched once: waves are never empty and share no slot, and a
\* plan without error holds every slot.
EachOnce ==
  /\ \A k \in DOMAIN waves : waves[k] # {}
  /\ \A j, k \in DOMAIN waves : j # k => waves[j] \cap waves[k] = {}
  /\ result = "ok" => Placed = Slots

\* The verdict is the right one.  Slots are circular when each of them depends
\* on one of them; a project without such slots gets a plan, one with them the
\* error.
Circular(T) == T # {} /\ \A s \in T : Deps(s) \cap T # {}

VerdictExact ==
  /\ result = "ok"    => \A T \in SUBSET Slots : ~Circular(T)
  /\ result = "Cycle" => \E T \in SUBSET Slots : Circular(T)
=============================================================================
