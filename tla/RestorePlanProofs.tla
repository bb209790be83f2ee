-------------------------- MODULE RestorePlanProofs --------------------------
(***************************************************************************)
(* What a restore works out before it acts, for projects of any size.      *)
(*                                                                         *)
(* LaunchWaves orders every project correctly: for any number of slots and *)
(* any lists.  The counters are exact (CountersExact), so a slot is freed  *)
(* exactly when its last dependency is placed, and the rest follows.       *)
(*                                                                         *)
(* Reconcile matches slots and windows one to one and loses no pair to a   *)
(* worse one, for any number of slots, windows and agreements.             *)
(***************************************************************************)
EXTENDS LaunchWaves, Reconcile, FiniteSetTheorems, TLAPS

\* What is known of the input once it was accepted: every entry names a slot.
Accepted == result \in {"peeling", "ok", "Cycle"} =>
              \A s \in Slots : \A i \in DOMAIN after[s] :
                 ById(after[s][i]) \in Slots

\* The wave being peeled off holds exactly the free slots.
ReadyIsFree ==
  /\ ready \cap Placed = {}
  /\ result = "peeling" =>
       ready = {s \in Slots \ Placed : Entries(s, Slots \ Placed) = {}}

\* A slot of the wave being peeled off depends on the wave before it.
ReadyIsDue ==
  result = "peeling" /\ Len(waves) > 0 =>
     \A s \in ready : Deps(s) \cap waves[Len(waves)] # {}

\* Nothing is placed before the loop starts, and nothing is left at its end.
Ends ==
  /\ result = "validating" => waves = << >> /\ ready = {}
  /\ result = "ok" => Placed = Slots
  /\ result = "Cycle" => /\ Slots \ Placed # {}
                         /\ \A s \in Slots \ Placed : Deps(s) \ Placed # {}

\* What the loop keeps.
Loop == /\ TypeOK /\ Accepted /\ CountersExact /\ ReadyIsFree /\ ReadyIsDue
        /\ Ends /\ DependenciesFirst /\ NoNeedlessWait /\ EachOnce

-----------------------------------------------------------------------------
(* Lemmas *)

\* The entries of a list form a finite set, and so do those that meet a set.
LEMMA EntriesFinite ==
  ASSUME TypeOK, NEW s \in Slots, NEW T
  PROVE  /\ IsFiniteSet(DOMAIN after[s])
         /\ Cardinality(DOMAIN after[s]) = Degree(s)
         /\ IsFiniteSet(Entries(s, T))
         /\ Entries(s, T) \subseteq DOMAIN after[s]
         /\ Cardinality(Entries(s, T)) \in Nat
<1>1. after[s] \in Seq(Names)
  BY AftersAssumption DEF TypeOK
<1>2. DOMAIN after[s] = 1 .. Len(after[s]) /\ Len(after[s]) \in Nat
  BY <1>1
<1>3. IsFiniteSet(DOMAIN after[s]) /\ Cardinality(DOMAIN after[s]) = Len(after[s])
  BY <1>2, FS_Interval
<1>4. Entries(s, T) \subseteq DOMAIN after[s]
  BY DEF Entries
<1>5. IsFiniteSet(Entries(s, T))
  BY <1>3, <1>4, FS_Subset
<1> QED
  BY <1>3, <1>4, <1>5, FS_CardinalityType DEF Degree

\* Peeling a wave off takes exactly its entries out of the count.
LEMMA EntriesSplit ==
  ASSUME TypeOK, NEW s \in Slots, NEW T, NEW R, R \subseteq T
  PROVE  Cardinality(Entries(s, T \ R))
           = Cardinality(Entries(s, T)) - Cardinality(Entries(s, R))
<1>1. Entries(s, T \ R) = Entries(s, T) \ Entries(s, R)
  BY DEF Entries
<1>2. Entries(s, T) \cap Entries(s, R) = Entries(s, R)
  BY DEF Entries
<1>3. IsFiniteSet(Entries(s, T))
  BY EntriesFinite
<1> QED
  BY <1>1, <1>2, <1>3, FS_Difference

\* A count of no entries means there are none.
LEMMA NoEntries ==
  ASSUME TypeOK, NEW s \in Slots, NEW T
  PROVE  Cardinality(Entries(s, T)) = 0 <=> Entries(s, T) = {}
BY EntriesFinite, FS_EmptySet

\* Every name of an accepted project is the name of one slot.
LEMMA ValidNames ==
  ASSUME TypeOK, ~UnknownDependency, NEW s \in Slots, NEW i \in DOMAIN after[s]
  PROVE  ById(after[s][i]) \in Slots
BY DEF UnknownDependency, ById

\* The waves after one more was peeled off.
LEMMA PlacedGrows ==
  ASSUME TypeOK, Peel
  PROVE  /\ Placed' = Placed \cup ready
         /\ Len(waves') = Len(waves) + 1
         /\ DOMAIN waves' = DOMAIN waves \cup {Len(waves) + 1}
         /\ DOMAIN waves = 1 .. Len(waves)
         /\ Len(waves) \in Nat
         /\ \A k \in DOMAIN waves : waves'[k] = waves[k]
         /\ waves'[Len(waves) + 1] = ready
<1>1. waves \in Seq(SUBSET Slots) /\ ready \in SUBSET Slots /\ waves' = Append(waves, ready)
  BY DEF TypeOK, Peel
<1>2. /\ Len(waves') = Len(waves) + 1
      /\ DOMAIN waves' = DOMAIN waves \cup {Len(waves) + 1}
      /\ DOMAIN waves = 1 .. Len(waves)
      /\ Len(waves) \in Nat
      /\ \A k \in DOMAIN waves : waves'[k] = waves[k]
      /\ waves'[Len(waves) + 1] = ready
  BY <1>1
<1>3. Placed' = Placed \cup ready
  BY <1>2 DEF Placed
<1> QED
  BY <1>2, <1>3

\* What Degree, TypeOK and the rest say of an accepted list's targets.
LEMMA DepsInSlots ==
  ASSUME TypeOK, Accepted, result \in {"peeling", "ok", "Cycle"}, NEW s \in Slots
  PROVE  /\ Deps(s) \subseteq Slots
         /\ \A T : Entries(s, T) = {} <=> Deps(s) \cap T = {}
BY DEF Accepted, Deps, Entries

-----------------------------------------------------------------------------
(* One step per action *)

LEMMA StartKeeps ==
  ASSUME Loop, Start
  PROVE  Loop'
<1> USE DEF Start
<1>1. waves = << >> /\ ready = {} /\ Placed = {} /\ Placed' = {}
  BY DEF Loop, Ends, Placed
<1>2. \A s \in Slots : /\ Len(after[s]) \in Nat
                       /\ DOMAIN after[s] = 1 .. Len(after[s])
  BY AftersAssumption DEF Loop, TypeOK
<1>3. TypeOK'
  <2>1. inDegree' \in [Slots -> Nat]
    BY <1>2 DEF Degree
  <2>2. remaining' \in Nat
    BY SlotsAssumption, FS_CardinalityType
  <2> QED
    BY <2>1, <2>2 DEF Loop, TypeOK, Results
<1>4. Accepted'
  BY ValidNames DEF Loop, Accepted, ById
<1>5. \A s \in Slots : /\ Entries(s, Slots)' = DOMAIN after[s]
                       /\ Entries(s, Slots \ Placed)' = DOMAIN after[s]
  <2> SUFFICES ASSUME NEW s \in Slots
               PROVE  /\ Entries(s, Slots)' = DOMAIN after[s]
                      /\ Entries(s, Slots \ Placed)' = DOMAIN after[s]
    OBVIOUS
  <2>1. \A i \in DOMAIN after[s] : ById(after[s][i]) \in Slots
    BY ValidNames DEF Loop
  <2>2. Entries(s, Slots)' = Entries(s, Slots) /\ Entries(s, Slots \ Placed)' = Entries(s, Slots)
    BY <1>1 DEF Entries, ById
  <2> QED
    BY <2>1, <2>2 DEF Entries
<1>6. CountersExact'
  BY <1>1, <1>5, EntriesFinite DEF Loop, CountersExact, Degree
<1>7. ReadyIsFree'
  <2>1. \A s \in Slots : Len(after[s]) = 0 <=> Entries(s, Slots \ Placed)' = {}
    <3>1. \A n \in Nat : n = 0 <=> 1 .. n = {}
      <4>1. \A n \in Nat : n # 0 => 1 \in 1 .. n
        OBVIOUS
      <4>2. 1 .. 0 = {}
        OBVIOUS
      <4> QED
        BY <4>1, <4>2
    <3> QED
      BY <1>2, <1>5, <3>1
  <2> QED
    BY <1>1, <2>1 DEF ReadyIsFree, Degree
<1>8. /\ ReadyIsDue' /\ Ends' /\ DependenciesFirst' /\ NoNeedlessWait' /\ EachOnce'
  BY <1>1 DEF ReadyIsDue, Ends, DependenciesFirst, NoNeedlessWait, EachOnce
<1> QED
  BY <1>3, <1>4, <1>6, <1>7, <1>8 DEF Loop

LEMMA PeelKeeps ==
  ASSUME Loop, Peel
  PROVE  Loop'
<1> DEFINE rest == Slots \ Placed
<1>1. /\ TypeOK /\ Accepted /\ CountersExact /\ ReadyIsFree /\ ReadyIsDue
      /\ result = "peeling" /\ result' = "peeling" /\ ready # {}
      /\ UNCHANGED <<name, after>>
  BY DEF Loop, Peel
<1>2. /\ Placed' = Placed \cup ready
      /\ DOMAIN waves' = DOMAIN waves \cup {Len(waves) + 1}
      /\ DOMAIN waves = 1 .. Len(waves)
      /\ Len(waves) \in Nat
      /\ Len(waves') = Len(waves) + 1
      /\ \A k \in DOMAIN waves : waves'[k] = waves[k]
      /\ waves'[Len(waves) + 1] = ready
  BY <1>1, PlacedGrows
<1>3. ready \subseteq rest /\ Placed \subseteq Slots /\ Slots \ Placed' = rest \ ready
  BY <1>1, <1>2 DEF TypeOK, ReadyIsFree, Placed
<1>4. \A s \in Slots : /\ Deps(s)' = Deps(s)
                       /\ Entries(s, Slots \ Placed)' = Entries(s, rest \ ready)
                       /\ Len(after[s]) \in Nat
  BY <1>1, <1>3, AftersAssumption DEF Entries, Deps, ById, TypeOK
<1>5. CountersExact'
  <2>1. remaining' = Cardinality(rest \ ready)
    <3>1. IsFiniteSet(rest) /\ rest \cap ready = ready
      BY <1>3, SlotsAssumption, FS_Subset
    <3>2. Cardinality(rest \ ready) = Cardinality(rest) - Cardinality(rest \cap ready)
      BY <3>1, FS_Difference
    <3> QED
      BY <1>1, <3>1, <3>2 DEF Peel, CountersExact
  <2>2. ASSUME NEW s \in Slots
        PROVE  inDegree'[s] = Cardinality(Entries(s, rest \ ready))
    BY <1>1, <1>3, EntriesSplit DEF Peel, CountersExact
  <2> QED
    BY <1>3, <1>4, <2>1, <2>2 DEF CountersExact
<1>6. TypeOK'
  <2>1. \A s \in Slots : Cardinality(Entries(s, rest \ ready)) \in Nat
    BY <1>1, EntriesFinite
  <2>2. inDegree' \in [Slots -> Nat]
    BY <1>1, <1>4, <1>5, <2>1 DEF CountersExact, Peel
  <2>3. remaining' \in Nat
    BY <1>1, <1>5, SlotsAssumption, FS_Subset, FS_CardinalityType DEF CountersExact
  <2> QED
    BY <1>1, <2>2, <2>3 DEF TypeOK, Peel, Freed, Results
<1>7. ReadyIsFree'
  <2>1. \A s \in Slots : inDegree'[s] = 0 <=> Entries(s, rest \ ready) = {}
    <3>1. \A s \in Slots : Cardinality(Entries(s, rest \ ready)) = 0
                            <=> Entries(s, rest \ ready) = {}
      BY <1>1, NoEntries
    <3> QED
      BY <1>1, <1>4, <1>5, <3>1 DEF CountersExact
  <2> QED
    BY <1>1, <1>2, <1>3, <1>4, <2>1 DEF ReadyIsFree, Peel, Freed
<1>8. ReadyIsDue'
  <2> SUFFICES ASSUME NEW s \in ready'
               PROVE  Deps(s) \cap ready # {}
    BY <1>2, <1>4, <1>6 DEF ReadyIsDue, TypeOK
  <2>1. s \in rest \ ready /\ Entries(s, rest \ ready) = {}
    BY <1>1, <1>3, <1>4, <1>7 DEF ReadyIsFree
  <2>2. Entries(s, rest) # {}
    BY <1>1, <2>1 DEF ReadyIsFree
  <2> QED
    BY <2>1, <2>2 DEF Entries, Deps
<1>9. Ends'
  BY <1>1 DEF Ends
<1>10. ASSUME NEW s \in ready, NEW d \in Deps(s)
       PROVE  \E j \in DOMAIN waves : d \in waves[j]
  <2>1. s \in Slots /\ Entries(s, rest) = {}
    BY <1>1 DEF ReadyIsFree
  <2>2. d \in Slots /\ d \notin rest
    BY <1>1, <2>1, DepsInSlots
  <2> QED
    BY <2>2 DEF Placed
<1>11. DependenciesFirst'
  <2> SUFFICES ASSUME NEW k \in DOMAIN waves', NEW s \in waves'[k], NEW d \in Deps(s)
               PROVE  \E j \in DOMAIN waves' : j < k /\ d \in waves'[j]
    BY <1>1, <1>2, <1>4, <1>6 DEF DependenciesFirst, Deps, ById
  <2>1. CASE k \in DOMAIN waves
    BY <1>2, <2>1 DEF Loop, DependenciesFirst
  <2>2. CASE k = Len(waves) + 1
    BY <1>2, <1>10, <2>2
  <2> QED
    BY <1>2, <2>1, <2>2
<1>12. NoNeedlessWait'
  <2> SUFFICES ASSUME NEW k \in DOMAIN waves', k > 1, NEW s \in waves'[k]
               PROVE  \E d \in Deps(s) : d \in waves'[k - 1]
    BY <1>1, <1>4 DEF NoNeedlessWait, Deps, ById
  <2>1. CASE k \in DOMAIN waves
    BY <1>2, <2>1 DEF Loop, NoNeedlessWait
  <2>2. CASE k = Len(waves) + 1
    <3>1. k - 1 = Len(waves) /\ k - 1 \in DOMAIN waves /\ waves'[k] = ready
      BY <1>2, <2>2
    <3>2. waves'[k - 1] = waves[Len(waves)]
      BY <1>2, <3>1
    <3>3. s \in ready /\ Len(waves) > 0
      BY <1>2, <2>2, <3>1
    <3> QED
      BY <1>1, <3>2, <3>3 DEF ReadyIsDue
  <2> QED
    BY <1>2, <2>1, <2>2
<1>13. EachOnce'
  <2>1. \A k \in DOMAIN waves : waves[k] \cap ready = {}
    BY <1>1 DEF ReadyIsFree, Placed
  <2> QED
    BY <1>1, <1>2, <2>1 DEF Loop, EachOnce
<1> QED
  BY <1>1, <1>5, <1>6, <1>7, <1>8, <1>9, <1>11, <1>12, <1>13 DEF Loop, Accepted, ById

LEMMA FinishKeeps ==
  ASSUME Loop, Finish
  PROVE  Loop'
<1>1. /\ TypeOK /\ Accepted /\ CountersExact /\ ReadyIsFree
      /\ result = "peeling" /\ ready = {} /\ result' = Outcome
      /\ UNCHANGED <<name, after, inDegree, remaining, ready, waves>>
  BY DEF Loop, Finish
<1>2. Placed \subseteq Slots /\ UNCHANGED Placed
  BY <1>1 DEF TypeOK, Placed
<1>3. Cardinality(Slots \ Placed) = 0 <=> Slots \ Placed = {}
  BY SlotsAssumption, FS_Subset, FS_EmptySet
<1>4. \A s \in Slots \ Placed : Deps(s) \ Placed # {}
  BY <1>1 DEF ReadyIsFree, Entries, Deps
<1>5. remaining \in Nat /\ remaining = Cardinality(Slots \ Placed)
  BY <1>1 DEF TypeOK, CountersExact
<1>6. Ends' /\ EachOnce'
  <2>1. \A s \in Slots : Deps(s)' = Deps(s)
    BY <1>1 DEF Deps, ById
  <2>2. Ends'
    BY <1>1, <1>2, <1>3, <1>4, <1>5, <2>1 DEF Ends, Outcome
  <2>3. result' = "ok" => Placed' = Slots
    BY <2>2 DEF Ends
  <2> QED
    BY <1>1, <2>2, <2>3 DEF EachOnce, Loop
<1>7. TypeOK' /\ Accepted' /\ CountersExact'
  BY <1>1 DEF TypeOK, Results, Outcome, Accepted, ById, CountersExact
<1>8. ReadyIsFree' /\ ReadyIsDue' /\ DependenciesFirst' /\ NoNeedlessWait'
  BY <1>1, <1>2 DEF Loop, ReadyIsFree, ReadyIsDue, DependenciesFirst, NoNeedlessWait,
                    Outcome, Deps, ById
<1> QED
  BY <1>6, <1>7, <1>8 DEF Loop

LEMMA RejectKeeps ==
  ASSUME Loop, Reject
  PROVE  Loop'
<1>1. /\ waves = << >> /\ ready = {} /\ result = "validating"
      /\ result' \in {"DuplicateName", "UnknownDependency"}
      /\ UNCHANGED <<name, after, inDegree, remaining, ready, waves>>
  BY DEF Loop, Ends, Reject
<1> QED
  BY <1>1 DEF Loop, TypeOK, Results, Accepted, CountersExact, ReadyIsFree, ReadyIsDue, Ends,
              Placed, DependenciesFirst, NoNeedlessWait, EachOnce

LEMMA StutterKeeps ==
  ASSUME Loop, UNCHANGED vars
  PROVE  Loop'
<1>1. UNCHANGED <<name, after, inDegree, remaining, ready, waves, result>>
  BY DEF vars
<1>2. TypeOK' /\ Accepted' /\ EachOnce'
  BY <1>1 DEF Loop, TypeOK, Accepted, EachOnce, Placed, ById
<1>3. CountersExact'
  BY <1>1 DEF Loop, CountersExact, Placed, Entries, ById
<1>4. ReadyIsFree' /\ ReadyIsDue' /\ Ends'
  BY <1>1 DEF Loop, ReadyIsFree, ReadyIsDue, Ends, Placed, Entries, Deps, ById
<1>5. DependenciesFirst' /\ NoNeedlessWait'
  BY <1>1 DEF Loop, DependenciesFirst, NoNeedlessWait, Deps, ById
<1> QED
  BY <1>2, <1>3, <1>4, <1>5 DEF Loop

LEMMA InitLoop == Init => Loop
<1> SUFFICES ASSUME Init PROVE Loop
  OBVIOUS
<1>1. TypeOK
  BY DEF Init, TypeOK, Results
<1> QED
  BY <1>1 DEF Init, Loop, Accepted, CountersExact, ReadyIsFree, ReadyIsDue, Ends, Placed,
              DependenciesFirst, NoNeedlessWait, EachOnce

-----------------------------------------------------------------------------
(* Theorems *)

\* The loop of launch.rs keeps its counters and its waves in order, whatever
\* the project.
THEOREM LoopInvariant == Spec => []Loop
<1>1. Loop /\ [Next]_vars => Loop'
  BY StartKeeps, PeelKeeps, FinishKeeps, RejectKeeps, StutterKeeps DEF Next
<1> QED
  BY InitLoop, <1>1, PTL DEF Spec

\* The unsigned counters never underflow: they are naturals after every step.
THEOREM TypeCorrect == Spec => []TypeOK
BY LoopInvariant, PTL DEF Loop

\* in_degree and remaining count exactly what is left to do.
THEOREM CountersAreExact == Spec => []CountersExact
BY LoopInvariant, PTL DEF Loop

\* Every dependency of a slot is in an earlier wave than the slot.
THEOREM WavesRespectDependencies == Spec => []DependenciesFirst
BY LoopInvariant, PTL DEF Loop

\* No slot is in a later wave than its dependencies require.
THEOREM WavesAreEarliest == Spec => []NoNeedlessWait
BY LoopInvariant, PTL DEF Loop

\* A plan launches each slot of the project once.
THEOREM EverySlotOnce == Spec => []EachOnce
BY LoopInvariant, PTL DEF Loop

\* Slots that wait for each other in a circle are never planned.
NeverPlaced == \A T \in SUBSET Slots : Circular(T) => T \cap Placed = {}

\* A project gets a plan if no slots wait for each other in a circle, and the
\* error for a cycle if some do.
THEOREM VerdictIsExact == Spec => []VerdictExact
<1>1. Init => NeverPlaced
  BY DEF Init, NeverPlaced, Placed
<1>2. Loop /\ NeverPlaced /\ [Next]_vars => NeverPlaced'
  <2> SUFFICES ASSUME Loop, NeverPlaced, [Next]_vars, NEW T \in SUBSET Slots, Circular(T)'
               PROVE  T \cap Placed' = {}
    BY DEF NeverPlaced
  <2>1. Circular(T) /\ T \cap Placed = {}
    <3>1. UNCHANGED <<name, after>>
      BY DEF Next, Reject, Start, Peel, Finish, vars
    <3>2. Circular(T)
      BY <3>1 DEF Circular, Deps, ById
    <3> QED
      BY <3>2 DEF NeverPlaced
  <2>2. CASE Peel
    <3>1. \A s \in ready : Deps(s) \subseteq Placed
      BY <2>2, DepsInSlots DEF Loop, Peel, ReadyIsFree
    <3>2. T \cap ready = {}
      BY <2>1, <3>1 DEF Circular
    <3>3. Placed' = Placed \cup ready
      BY <2>2, PlacedGrows DEF Loop
    <3> QED
      BY <2>1, <3>2, <3>3
  <2>3. CASE UNCHANGED waves
    BY <2>1, <2>3 DEF Placed
  <2> QED
    BY <2>2, <2>3 DEF Next, Reject, Start, Finish, vars
<1>3. Loop /\ NeverPlaced => VerdictExact
  <2> SUFFICES ASSUME Loop, NeverPlaced PROVE VerdictExact
    OBVIOUS
  <2>1. ASSUME result = "ok", NEW T \in SUBSET Slots
        PROVE  ~Circular(T)
    BY <2>1 DEF Loop, Ends, NeverPlaced, Circular
  <2>2. ASSUME result = "Cycle"
        PROVE  Circular(Slots \ Placed)
    BY <2>2, DepsInSlots DEF Loop, Ends, Circular
  <2>3. Slots \ Placed \in SUBSET Slots
    OBVIOUS
  <2> QED
    BY <2>1, <2>2, <2>3 DEF VerdictExact
<1> QED
  BY LoopInvariant, <1>1, <1>2, <1>3, PTL DEF Spec

-----------------------------------------------------------------------------
(* The matching of slots and windows before a restore. *)

Offered == {p \in Identities \X Candidates : Scored(p)}

\* Pairs leave the list from the front, so what was visited scores at least as
\* high as what was not.
VisitedFirst == \A p \in Offered \ pairs, q \in pairs : Score(p) >= Score(q)

\* A pair visited and passed over lost to one that was matched.
PassedOver ==
  \A p \in Offered \ pairs : \E m \in matched : /\ m[1] = p[1] \/ m[2] = p[2]
                                                /\ Score(m) >= Score(p)

Matching == /\ MatchTypeOK /\ OneToOne
            /\ pairs \subseteq Offered
            /\ matched \subseteq Offered \ pairs
            /\ VisitedFirst /\ PassedOver
            /\ done => pairs = {}

-----------------------------------------------------------------------------

\* Scores are naturals.
LEMMA ScoreType ==
  ASSUME MatchTypeOK, NEW p \in Identities \X Windows
  PROVE  Score(p) \in Nat
BY EvidencesAssumption DEF MatchTypeOK, Score, Points

LEMMA InitMatching == MatchInit => Matching
BY DEF MatchInit, Matching, MatchTypeOK, OneToOne, Offered, Candidates, VisitedFirst, PassedOver

LEMMA VisitKeeps ==
  ASSUME Matching, Visit
  PROVE  Matching'
<1>1. PICK p \in pairs :
         /\ \A q \in pairs \ {p} : Precedes(p, q)
         /\ pairs' = pairs \ {p}
         /\ matched' = IF Taken(p) THEN matched ELSE matched \cup {p}
  BY DEF Visit, Paired
<1>2. /\ UNCHANGED <<agree, here, owner, done>>
      /\ UNCHANGED <<Offered, Candidates>>
      /\ \A q : Score(q)' = Score(q)
  BY DEF Visit, Paired, Offered, Candidates, Scored, Score, Points
<1>3. /\ p \in Offered /\ Offered \subseteq Identities \X Windows
      /\ \A q \in Offered : Score(q) \in Nat
  BY ScoreType DEF Matching, Offered, Candidates
<1>4. \A q \in pairs : Score(p) >= Score(q)
  BY <1>1, <1>3 DEF Precedes, Matching
<1>5. Offered \ pairs' = (Offered \ pairs) \cup {p}
  BY <1>1, <1>3
<1>6. MatchTypeOK' /\ (pairs \subseteq Offered)' /\ (matched \subseteq Offered \ pairs)'
      /\ (done => pairs = {})'
  BY <1>1, <1>2, <1>3, <1>5 DEF Matching, MatchTypeOK
<1>7. OneToOne'
  BY <1>1, <1>3 DEF Matching, OneToOne, Taken
<1>8. VisitedFirst'
  BY <1>1, <1>2, <1>4, <1>5 DEF Matching, VisitedFirst
<1>9. PassedOver'
  <2>1. \E m \in matched' : (m[1] = p[1] \/ m[2] = p[2]) /\ Score(m) >= Score(p)
    <3>1. CASE Taken(p)
      BY <1>1, <3>1 DEF Taken, Matching, VisitedFirst
    <3>2. CASE ~Taken(p)
      BY <1>1, <1>3, <3>2
    <3> QED
      BY <3>1, <3>2
  <2>2. matched \subseteq matched'
    BY <1>1
  <2> QED
    BY <1>2, <1>5, <2>1, <2>2 DEF Matching, PassedOver
<1> QED
  BY <1>6, <1>7, <1>8, <1>9 DEF Matching

LEMMA RestKeeps ==
  ASSUME Matching, MatchEnd \/ UNCHANGED matchVars
  PROVE  Matching'
<1>1. UNCHANGED <<agree, here, owner, pairs, matched>> /\ done' \in BOOLEAN
      /\ (done' => pairs = {})
  <2>1. CASE MatchEnd
    BY <2>1 DEF MatchEnd
  <2>2. CASE UNCHANGED matchVars
    <3>1. UNCHANGED <<agree, here, owner, pairs, matched>> /\ done' = done
      BY <2>2 DEF matchVars
    <3> QED
      BY <3>1, Zenon DEF Matching, MatchTypeOK
  <2> QED
    BY <2>1, <2>2
<1>2. UNCHANGED <<Offered, Candidates>> /\ \A q : Score(q)' = Score(q)
  BY <1>1 DEF Offered, Candidates, Scored, Score, Points
<1> QED
  BY <1>1, <1>2 DEF Matching, MatchTypeOK, OneToOne, VisitedFirst, PassedOver

THEOREM MatchingInvariant == MatchSpec => []Matching
<1>1. Matching /\ [MatchNext]_matchVars => Matching'
  BY VisitKeeps, RestKeeps DEF MatchNext
<1> QED
  BY InitMatching, <1>1, PTL DEF MatchSpec

\* Each window satisfies at most one slot, and each slot has one window.
THEOREM MatchingOneToOne == MatchSpec => []OneToOne
BY MatchingInvariant, PTL DEF Matching

\* No pair that could match is lost to a worse one.
THEOREM BestPairsWin == MatchSpec => []NoBetterPairLost
<1>1. Matching => NoBetterPairLost
  BY DEF Matching, NoBetterPairLost, PassedOver, Offered
<1> QED
  BY MatchingInvariant, <1>1, PTL

\* A match needs the executable, the class, or initial class and title together.
THEOREM MatchesNeedEvidence == MatchSpec => []EnoughEvidence
<1>1. Matching => EnoughEvidence
  BY EvidencesAssumption
  DEF Matching, MatchTypeOK, EnoughEvidence, Offered, Candidates, Scored, Score, Points
<1> QED
  BY MatchingInvariant, <1>1, PTL
=============================================================================
