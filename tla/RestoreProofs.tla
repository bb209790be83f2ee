---------------------------- MODULE RestoreProofs ----------------------------
(***************************************************************************)
(* A restore run keeps its promises, for any number of runs, slots and     *)
(* windows, any dependencies, failures, timeouts and lagging receivers.    *)
(***************************************************************************)
EXTENDS Restore, FiniteSetTheorems, TLAPS

Failing == {"failed", "timeout"}

\* A slot has a window exactly while its status says so.
WindowsGiven ==
  \A s \in Slots :
    /\ status[s] \in {"kept", "adopted", "claimed"} => window[s] # NULL
    /\ status[s] \notin {"kept", "adopted", "claimed", "ready"} => window[s] = NULL

\* Where a slot stands goes with the phase and the wave of its run.
OnTime ==
  \A s \in Slots :
    /\ status[s] = "kept" => phase[RunOf(s)] = "adopting"
    /\ status[s] \in Running \cup Settled =>
         phase[RunOf(s)] # "adopting" /\ App[s].wave <= wave[RunOf(s)]
    /\ App[s].wave < wave[RunOf(s)] => status[s] \in Settled \cup {"adopted", "left"}

Phases == \A r \in Runs : /\ phase[r] = "adopting" => wave[r] = 1
                          /\ phase[r] = "finished" => Over(r)

\* In a run, no two slots are given the same window.
Distinct == \A s, t \in Slots : s # t /\ RunOf(s) = RunOf(t) /\ window[s] # NULL
                                => window[s] # window[t]

\* The slots whose failure the main task has recorded, and those it counted.
Bad(r)  == {s \in Fellows(r) : \/ status[s] = "skipped"
                               \/ status[s] \in Failing /\ App[s].wave < wave[r]}
Good(r) == {s \in Fellows(r) : status[s] = "ready" /\ App[s].wave < wave[r]}

Recorded == \A r \in Runs : failed[r] = {App[s].label : s \in Bad(r)}
Counted  == \A r \in Runs : completed[r] = Cardinality(Good(r))

Inv == /\ TypeOK /\ WindowsGiven /\ OnTime /\ Phases /\ Distinct /\ RegistryExact
       /\ Recorded /\ Counted /\ DependenciesSettled

-----------------------------------------------------------------------------
(* Lemmas *)

LEMMA AppType ==
  ASSUME NEW s \in Slots
  PROVE  /\ App[s] \in Apps
         /\ RunOf(s) \in Runs
         /\ App[s].wave \in Nat \ {0}
         /\ App[s].label \in Labels
         /\ App[s].wants \subseteq Windows
         /\ App[s].readiness \in {"window", "delay", "command"}
         /\ Needs(s) \subseteq Slots
         /\ \A d \in Needs(s) : /\ RunOf(d) = RunOf(s) /\ d # s
                                /\ App[d].wave < App[s].wave
                                /\ App[d].label \in App[s].after
<1>1. App[s] \in Apps
  BY AppAssumption
<1>2. /\ RunOf(s) \in Runs /\ App[s].wave \in Nat \ {0} /\ App[s].label \in Labels
      /\ App[s].wants \subseteq Windows
      /\ App[s].readiness \in {"window", "delay", "command"}
      /\ App[s].after \subseteq Labels
  BY <1>1 DEF Apps, RunOf
<1>3. ASSUME NEW d \in Needs(s)
      PROVE  d \in Slots /\ RunOf(d) = RunOf(s) /\ App[d].wave < App[s].wave /\ d # s
  BY <1>2, <1>3, WaveAssumption DEF Needs, Fellows
<1>4. ASSUME NEW d \in Needs(s)
      PROVE  App[d].label \in App[s].after
  BY <1>2, <1>3, <1>4, LabelAssumption, NullAssumption DEF Needs
<1> QED
  BY <1>1, <1>2, <1>3, <1>4

LEMMA FellowsFinite == \A r : IsFiniteSet(Fellows(r)) /\ Fellows(r) \subseteq Slots
BY SlotsAssumption, FS_Subset DEF Fellows

\* A task that goes on or ends changes nothing of the main tasks' bookkeeping:
\* its wave is the current one.
LEMMA TaskMoves ==
  ASSUME Inv, NEW s \in Slots, status[s] \in Running,
         NEW st \in Running \cup (Settled \ {"skipped"}),
         status' = [status EXCEPT ![s] = st],
         UNCHANGED run
  PROVE  /\ App[s].wave = wave[RunOf(s)] /\ phase[RunOf(s)] = "launching"
         /\ Recorded' /\ Counted' /\ DependenciesSettled'
         /\ \A t \in Slots : t # s => status'[t] = status[t]
         /\ status'[s] = st
         /\ OnTime' /\ Phases'
<1>1. /\ UNCHANGED <<phase, wave, failed, completed>>
      /\ \A t \in Slots : t # s => status'[t] = status[t]
      /\ status'[s] = st /\ st \notin {"kept", "skipped"}
      /\ status[s] \notin Settled \cup {"kept", "adopted", "left"}
  BY DEF run, Inv, TypeOK, Running, Settled
<1>2. App[s].wave = wave[RunOf(s)] /\ RunOf(s) \in Runs /\ ~(App[s].wave < wave[RunOf(s)])
  <2>1. App[s].wave <= wave[RunOf(s)] /\ ~(App[s].wave < wave[RunOf(s)])
    BY <1>1 DEF Inv, OnTime
  <2>2. wave[RunOf(s)] \in Nat /\ App[s].wave \in Nat /\ RunOf(s) \in Runs
    BY AppType DEF Inv, TypeOK
  <2> QED
    BY <2>1, <2>2
<1>3. phase[RunOf(s)] = "launching"
  <2>1. phase[RunOf(s)] # "adopting"
    BY DEF Inv, OnTime
  <2>2. phase[RunOf(s)] # "finished"
    BY <1>2, AppType DEF Inv, Phases, Over, Fellows, TypeOK
  <2> QED
    BY <1>2, <2>1, <2>2 DEF Inv, TypeOK
<1>4. \A r \in Runs : Bad(r)' = Bad(r) /\ Good(r)' = Good(r)
  BY <1>1, <1>2 DEF Bad, Good, Fellows, Settled, Failing
<1>5. Recorded' /\ Counted'
  BY <1>1, <1>4 DEF Inv, Recorded, Counted
<1>6. DependenciesSettled'
  BY <1>1, AppType DEF Inv, DependenciesSettled, Running, Settled
<1>7. OnTime'
  BY <1>1, <1>2, <1>3 DEF Inv, OnTime
<1>8. Phases'
  BY <1>1 DEF Inv, Phases, Over
<1> QED
  BY <1>1, <1>2, <1>3, <1>5, <1>6, <1>7, <1>8

\* The window of a slot that neither had one nor gets one.
LEMMA NoWindowMoves ==
  ASSUME Inv, NEW s \in Slots, status[s] \in {"launching", "waiting", "probing"},
         NEW st \in {"waiting", "probing"} \cup Settled,
         status' = [status EXCEPT ![s] = st],
         UNCHANGED <<window, claimed>>
  PROVE  RegistryExact' /\ Distinct' /\ WindowsGiven'
<1>1. /\ \A t \in Slots : t # s => status'[t] = status[t]
      /\ status'[s] = st /\ window[s] = NULL
  BY DEF Inv, TypeOK, WindowsGiven
<1>2. \A t \in Slots : Holds(t)' <=> Holds(t)
  BY <1>1 DEF Holds
<1>3. RegistryExact'
  BY <1>2 DEF Inv, RegistryExact
<1> QED
  BY <1>1, <1>3 DEF Inv, WindowsGiven, Distinct, Settled

-----------------------------------------------------------------------------
(* One step per action *)

LEMMA ExecuteKeeps ==
  ASSUME Inv, NEW s \in Slots, Execute(s)
  PROVE  Inv'
<1>1. PICK st \in {"failed", AfterExec(s)} : status' = [status EXCEPT ![s] = st]
  BY DEF Execute
<1>2. st \in {"waiting", "probing", "ready", "failed"}
  BY AppType DEF AfterExec
<1>3. /\ status[s] = "launching" /\ UNCHANGED <<window, run, claimed, owner, env>>
      /\ inbox' = IF status'[s] = "waiting" THEN inbox ELSE [inbox EXCEPT ![s] = << >>]
  BY DEF Execute
<1>4. TypeOK'
  BY <1>1, <1>2, <1>3 DEF Inv, TypeOK, Statuses, Running, Settled, run, env
<1> QED
  BY <1>1, <1>2, <1>3, <1>4, TaskMoves, NoWindowMoves DEF Inv, Running, Settled

LEMMA TimeoutKeeps ==
  ASSUME Inv, NEW s \in Slots, Timeout(s)
  PROVE  Inv'
<1>1. /\ status' = [status EXCEPT ![s] = "timeout"] /\ status[s] = "waiting"
      /\ UNCHANGED <<window, run, claimed, owner, env>>
      /\ inbox' = [inbox EXCEPT ![s] = << >>]
  BY DEF Timeout
<1>2. TypeOK'
  BY <1>1 DEF Inv, TypeOK, Statuses, Running, Settled, run, env
<1> QED
  BY <1>1, <1>2, TaskMoves, NoWindowMoves DEF Inv, Running, Settled

LEMMA ProbeKeeps ==
  ASSUME Inv, NEW s \in Slots, ProbeReturns(s)
  PROVE  Inv'
<1>1. PICK st \in {"ready", "timeout"} : status' = [status EXCEPT ![s] = st]
  BY DEF ProbeReturns
<1>2. status[s] = "probing" /\ UNCHANGED <<window, inbox, run, claimed, owner, env>>
  BY DEF ProbeReturns
<1>3. TypeOK'
  BY <1>1, <1>2 DEF Inv, TypeOK, Statuses, Running, Settled, run, env
<1> QED
  BY <1>1, <1>2, <1>3, TaskMoves, NoWindowMoves DEF Inv, Running, Settled

LEMMA CorrelateKeeps ==
  ASSUME Inv, NEW s \in Slots, Correlate(s)
  PROVE  Inv'
<1>1. /\ status' = [status EXCEPT ![s] = "ready"] /\ status[s] = "claimed"
      /\ UNCHANGED <<window, inbox, run, claimed, env>>
      /\ owner' = [owner EXCEPT ![window[s]] = s]
  BY DEF Correlate
<1>2. TypeOK'
  BY <1>1 DEF Inv, TypeOK, Statuses, Running, Settled, run, env
<1>3. /\ \A t \in Slots : t # s => status'[t] = status[t]
      /\ status'[s] = "ready" /\ window[s] # NULL
  BY <1>1 DEF Inv, TypeOK, WindowsGiven
<1>4. WindowsGiven'
  BY <1>1, <1>3 DEF Inv, WindowsGiven
<1>5. RegistryExact' /\ Distinct'
  <2>1. \A t \in Slots : Holds(t)' <=> Holds(t)
    BY <1>1, <1>3 DEF Holds
  <2> QED
    BY <1>1, <2>1 DEF Inv, RegistryExact, Distinct
<1> QED
  BY <1>1, <1>2, <1>4, <1>5, TaskMoves DEF Inv, Running, Settled

LEMMA ReceiveKeeps ==
  ASSUME Inv, NEW s \in Slots, Receive(s)
  PROVE  Inv'
<1> DEFINE w == Head(inbox[s])
<1>1. /\ status[s] = "waiting" /\ w \in Windows /\ Tail(inbox[s]) \in Seq(Windows)
      /\ window[s] = NULL /\ RunOf(s) \in Runs
      /\ UNCHANGED <<run, owner, env>>
  <2>1. status[s] = "waiting" /\ inbox[s] # << >> /\ UNCHANGED <<run, owner, env>>
    BY DEF Receive
  <2>2. inbox[s] \in Seq(Windows)
    BY DEF Inv, TypeOK
  <2>3. w \in Windows /\ Tail(inbox[s]) \in Seq(Windows)
    BY <2>1, <2>2
  <2>4. window[s] = NULL
    BY <2>1 DEF Inv, WindowsGiven
  <2> QED
    BY <2>1, <2>3, <2>4, AppType
<1>2. CASE ~Claimable(s, w)
  <2>1. /\ inbox' = [inbox EXCEPT ![s] = Tail(@)]
        /\ UNCHANGED <<status, window, claimed>>
    BY <1>2 DEF Receive
  <2>2. TypeOK'
    BY <1>1, <2>1 DEF Inv, TypeOK, run, env
  <2>3. Recorded' /\ Counted' /\ DependenciesSettled' /\ OnTime' /\ Phases'
    BY <1>1, <2>1 DEF Inv, Recorded, Bad, Counted, Good, DependenciesSettled, OnTime, Phases,
                      Over, run
  <2> QED
    BY <2>1, <2>2, <2>3 DEF Inv, WindowsGiven, Distinct, RegistryExact, Holds
<1>3. CASE Claimable(s, w)
  <2>1. /\ status' = [status EXCEPT ![s] = "claimed"]
        /\ window' = [window EXCEPT ![s] = w]
        /\ claimed' = [claimed EXCEPT ![RunOf(s)][w] = s]
        /\ inbox' = [inbox EXCEPT ![s] = << >>]
    BY <1>3 DEF Receive
  <2>2. TypeOK'
    BY <1>1, <2>1 DEF Inv, TypeOK, Statuses, Running, run, env
  <2>3. /\ phase[RunOf(s)] = "launching"
        /\ Recorded' /\ Counted' /\ DependenciesSettled' /\ OnTime' /\ Phases'
    BY <1>1, <2>1, TaskMoves DEF Running
  <2>4. w # NULL /\ claimed[RunOf(s)][w] = NULL
    BY <1>1, <1>3, NullAssumption DEF Claimable
  <2>5. /\ \A t \in Slots : t # s => status'[t] = status[t] /\ window'[t] = window[t]
        /\ status'[s] = "claimed" /\ window'[s] = w
    BY <2>1 DEF Inv, TypeOK
  <2>6. \A t \in Slots : RunOf(t) = RunOf(s) => window[t] # w
    <3>1. ASSUME NEW t \in Slots, RunOf(t) = RunOf(s), window[t] = w
          PROVE  FALSE
      <4>1. ~Holds(t)
        BY <1>1, <2>4, <3>1, NullAssumption DEF Inv, RegistryExact
      <4>2. status[t] # "kept"
        BY <2>3, <3>1 DEF Inv, OnTime
      <4> QED
        BY <2>4, <3>1, <4>1, <4>2 DEF Inv, WindowsGiven, Holds
    <3> QED
      BY <3>1
  <2>7. Distinct' /\ WindowsGiven'
    BY <2>4, <2>5, <2>6 DEF Inv, Distinct, WindowsGiven
  <2>8. RegistryExact'
    <3> SUFFICES ASSUME NEW r \in Runs, NEW v \in Windows, NEW t \in Slots
                 PROVE  claimed'[r][v] = t <=> RunOf(t) = r /\ Holds(t)' /\ window'[t] = v
      BY DEF RegistryExact
    <3>1. claimed'[r][v] = IF r = RunOf(s) /\ v = w THEN s ELSE claimed[r][v]
      BY <1>1, <2>1 DEF Inv, TypeOK
    <3>2. claimed[r][v] = t <=> RunOf(t) = r /\ Holds(t) /\ window[t] = v
      BY DEF Inv, RegistryExact
    <3>3. Holds(s)' /\ ~Holds(s) /\ (t # s => (Holds(t)' <=> Holds(t)))
      BY <1>1, <2>4, <2>5 DEF Holds
    <3> QED
      BY <2>5, <2>6, <3>1, <3>2, <3>3
  <2> QED
    BY <2>2, <2>3, <2>7, <2>8 DEF Inv
<1> QED
  BY <1>2, <1>3

\* Steps that change nothing but what receivers hold and what is on the screen.
LEMMA AroundKeeps ==
  ASSUME Inv, UNCHANGED <<status, window, run, claimed, owner>>,
         inbox' \in [Slots -> Seq(Windows)], opened' \subseteq Windows, lags' \in Nat
  PROVE  Inv'
<1>1. UNCHANGED <<status, window, phase, wave, failed, completed, claimed, owner>>
  BY DEF run
<1>2. TypeOK'
  BY <1>1 DEF Inv, TypeOK
<1>3. Recorded' /\ Counted' /\ DependenciesSettled' /\ OnTime' /\ Phases'
  BY <1>1 DEF Inv, Recorded, Bad, Counted, Good, DependenciesSettled, OnTime, Phases, Over
<1>4. WindowsGiven' /\ Distinct' /\ RegistryExact'
  BY <1>1 DEF Inv, WindowsGiven, Distinct, RegistryExact, Holds
<1> QED
  BY <1>2, <1>3, <1>4 DEF Inv

LEMMA OpenKeeps ==
  ASSUME Inv, NEW w \in Windows, Open(w)
  PROVE  Inv'
<1>1. inbox' \in [Slots -> Seq(Windows)]
  BY DEF Inv, TypeOK, Open
<1> QED
  BY <1>1, AroundKeeps DEF Inv, TypeOK, Open

LEMMA LagKeeps ==
  ASSUME Inv, NEW s \in Slots, Lag(s)
  PROVE  Inv'
<1>1. inbox' \in [Slots -> Seq(Windows)]
  <2>1. Tail(inbox[s]) \in Seq(Windows)
    BY DEF Inv, TypeOK, Lag
  <2> QED
    BY <2>1 DEF Inv, TypeOK, Lag
<1> QED
  BY <1>1, AroundKeeps DEF Inv, TypeOK, Lag

LEMMA StutterKeeps ==
  ASSUME Inv, UNCHANGED vars
  PROVE  Inv'
BY AroundKeeps DEF Inv, TypeOK, vars, run

LEMMA AdoptKeeps ==
  ASSUME Inv, NEW s \in Slots, Adopt(s)
  PROVE  Inv'
<1>1. /\ status[s] = "kept" /\ phase[RunOf(s)] = "adopting"
      /\ status' = [status EXCEPT ![s] = "adopted"]
      /\ owner' = [owner EXCEPT ![window[s]] = s]
      /\ claimed' = [claimed EXCEPT ![RunOf(s)][window[s]] = s]
      /\ UNCHANGED <<window, inbox, phase, wave, failed, completed, opened, lags>>
  BY DEF Adopt, run, env
<1>2. /\ window[s] # NULL /\ window[s] \in Windows /\ RunOf(s) \in Runs
      /\ \A t \in Slots : t # s => status'[t] = status[t]
      /\ status'[s] = "adopted"
  BY <1>1, AppType DEF Inv, TypeOK, WindowsGiven
<1>3. TypeOK'
  BY <1>1, <1>2 DEF Inv, TypeOK, Statuses
<1>4. WindowsGiven' /\ Distinct'
  BY <1>1, <1>2 DEF Inv, WindowsGiven, Distinct
<1>5. OnTime' /\ Phases'
  BY <1>1, <1>2 DEF Inv, OnTime, Phases, Over, Running, Settled
<1>6. Recorded' /\ Counted'
  <2>1. \A r \in Runs : Bad(r)' = Bad(r) /\ Good(r)' = Good(r)
    BY <1>1, <1>2 DEF Bad, Good, Fellows, Failing
  <2> QED
    BY <1>1, <2>1 DEF Inv, Recorded, Counted
<1>7. DependenciesSettled'
  BY <1>1, <1>2, AppType DEF Inv, DependenciesSettled, Running, Settled
<1>8. RegistryExact'
  <2> SUFFICES ASSUME NEW r \in Runs, NEW v \in Windows, NEW t \in Slots
               PROVE  claimed'[r][v] = t <=> RunOf(t) = r /\ Holds(t)' /\ window'[t] = v
    BY DEF RegistryExact
  <2>1. claimed'[r][v] = IF r = RunOf(s) /\ v = window[s] THEN s ELSE claimed[r][v]
    BY <1>1, <1>2 DEF Inv, TypeOK
  <2>2. claimed[r][v] = t <=> RunOf(t) = r /\ Holds(t) /\ window[t] = v
    BY DEF Inv, RegistryExact
  <2>3. Holds(s)' /\ ~Holds(s) /\ (t # s => (Holds(t)' <=> Holds(t)))
    BY <1>1, <1>2 DEF Holds
  <2>4. \A u \in Slots : u # s /\ RunOf(u) = RunOf(s) => window[u] # window[s]
    BY <1>2 DEF Inv, Distinct
  <2> QED
    BY <1>1, <2>1, <2>2, <2>3, <2>4
<1> QED
  BY <1>3, <1>4, <1>5, <1>6, <1>7, <1>8 DEF Inv

LEMMA BeginLaunchKeeps ==
  ASSUME Inv, NEW r \in Runs, BeginLaunch(r)
  PROVE  Inv'
<1>1. /\ phase[r] = "adopting" /\ \A s \in Fellows(r) : status[s] # "kept"
      /\ phase' = [phase EXCEPT ![r] = "launching"]
      /\ UNCHANGED <<status, window, inbox, wave, failed, completed, claimed, owner, opened, lags>>
  BY DEF BeginLaunch, env
<1>2. /\ phase' \in [Runs -> {"adopting", "launching", "finished"}]
      /\ phase'[r] = "launching" /\ \A q \in Runs : q # r => phase'[q] = phase[q]
  BY <1>1 DEF Inv, TypeOK
<1>3. TypeOK'
  BY <1>1, <1>2 DEF Inv, TypeOK
<1>4. OnTime' /\ Phases'
  BY <1>1, <1>2, AppType DEF Inv, OnTime, Phases, Over, Fellows
<1>5. Recorded' /\ Counted' /\ DependenciesSettled'
  BY <1>1 DEF Inv, Recorded, Bad, Counted, Good, DependenciesSettled
<1>6. WindowsGiven' /\ Distinct' /\ RegistryExact'
  BY <1>1 DEF Inv, WindowsGiven, Distinct, RegistryExact, Holds
<1> QED
  BY <1>3, <1>4, <1>5, <1>6 DEF Inv

LEMMA FinishKeeps ==
  ASSUME Inv, NEW r \in Runs, Finish(r)
  PROVE  Inv'
<1>1. /\ phase[r] = "launching" /\ Over(r)
      /\ phase' = [phase EXCEPT ![r] = "finished"]
      /\ UNCHANGED <<status, window, inbox, wave, failed, completed, claimed, owner, opened, lags>>
  BY DEF Finish, env
<1>2. /\ phase' \in [Runs -> {"adopting", "launching", "finished"}]
      /\ phase'[r] = "finished" /\ \A q \in Runs : q # r => phase'[q] = phase[q]
  BY <1>1 DEF Inv, TypeOK
<1>3. TypeOK'
  BY <1>1, <1>2 DEF Inv, TypeOK
<1>4. OnTime' /\ Phases'
  BY <1>1, <1>2 DEF Inv, OnTime, Phases, Over
<1>5. Recorded' /\ Counted' /\ DependenciesSettled'
  BY <1>1 DEF Inv, Recorded, Bad, Counted, Good, DependenciesSettled
<1>6. WindowsGiven' /\ Distinct' /\ RegistryExact'
  BY <1>1 DEF Inv, WindowsGiven, Distinct, RegistryExact, Holds
<1> QED
  BY <1>3, <1>4, <1>5, <1>6 DEF Inv

\* A planned slot whose turn it is: its needs are settled, and if it is not
\* blocked none of them failed.
LEMMA TurnReached ==
  ASSUME Inv, NEW s \in Slots, Reached(s)
  PROVE  /\ \A d \in Needs(s) : status[d] \in Settled \cup {"adopted", "left"}
         /\ ~Blocked(s) => \A d \in Needs(s) : status[d] \in {"adopted", "ready", "left"}
<1> SUFFICES ASSUME NEW d \in Needs(s)
             PROVE  /\ status[d] \in Settled \cup {"adopted", "left"}
                    /\ ~Blocked(s) => status[d] \in {"adopted", "ready", "left"}
  OBVIOUS
<1>1. /\ d \in Slots /\ RunOf(d) = RunOf(s) /\ RunOf(s) \in Runs
      /\ App[d].wave < wave[RunOf(d)]
      /\ App[d].label \in App[s].after
  BY AppType DEF Reached
<1>2. status[d] \in Settled \cup {"adopted", "left"}
  BY <1>1 DEF Inv, OnTime
<1>3. ASSUME status[d] \in {"failed", "timeout", "skipped"}
      PROVE  Blocked(s)
  <2>1. d \in Bad(RunOf(s))
    BY <1>1, <1>3 DEF Bad, Fellows, Failing
  <2>2. App[d].label \in failed[RunOf(s)]
    BY <1>1, <2>1 DEF Inv, Recorded
  <2> QED
    BY <1>1, <2>2 DEF Blocked
<1> QED
  BY <1>2, <1>3 DEF Settled

LEMMA SpawnKeeps ==
  ASSUME Inv, NEW s \in Slots, Spawn(s)
  PROVE  Inv'
<1>1. /\ Reached(s) /\ ~Blocked(s)
      /\ status' = [status EXCEPT ![s] = "launching"]
      /\ UNCHANGED <<window, inbox, phase, wave, failed, completed, claimed, owner, opened, lags>>
  BY DEF Spawn, run, env
<1>2. /\ status[s] = "planned" /\ status'[s] = "launching" /\ RunOf(s) \in Runs
      /\ phase[RunOf(s)] = "launching"
      /\ App[s].wave = wave[RunOf(s)] /\ App[s].wave <= wave[RunOf(s)]
      /\ \A t \in Slots : t # s => status'[t] = status[t]
  BY <1>1, AppType DEF Inv, TypeOK, Reached
<1>3. TypeOK'
  BY <1>1 DEF Inv, TypeOK, Statuses, Running
<1>4. OnTime' /\ Phases'
  BY <1>1, <1>2 DEF Inv, OnTime, Phases, Over, Settled
<1>5. Recorded' /\ Counted'
  <2>1. \A r \in Runs : Bad(r)' = Bad(r) /\ Good(r)' = Good(r)
    BY <1>1, <1>2 DEF Bad, Good, Fellows, Failing
  <2> QED
    BY <1>1, <2>1 DEF Inv, Recorded, Counted
<1>6. DependenciesSettled'
  <2>1. \A d \in Needs(s) : status'[d] \in {"adopted", "ready", "left"}
    BY <1>1, <1>2, AppType, TurnReached
  <2>2. \A t \in Slots : \A d \in Needs(t) :
          status[d] \in {"adopted", "ready", "left"} => status'[d] = status[d]
    BY <1>2, AppType
  <2> QED
    BY <1>2, <2>1, <2>2 DEF Inv, DependenciesSettled
<1>7. WindowsGiven' /\ Distinct' /\ RegistryExact'
  <2>1. \A t \in Slots : Holds(t)' <=> Holds(t)
    BY <1>1, <1>2 DEF Holds
  <2> QED
    BY <1>1, <1>2, <2>1 DEF Inv, WindowsGiven, Distinct, RegistryExact
<1> QED
  BY <1>3, <1>4, <1>5, <1>6, <1>7 DEF Inv

LEMMA SkipKeeps ==
  ASSUME Inv, NEW s \in Slots, Skip(s)
  PROVE  Inv'
<1>1. /\ Reached(s) /\ Blocked(s)
      /\ status' = [status EXCEPT ![s] = "skipped"]
      /\ failed' = [failed EXCEPT ![RunOf(s)] = @ \cup {App[s].label}]
      /\ UNCHANGED <<window, inbox, phase, wave, completed, claimed, owner, opened, lags>>
  BY DEF Skip, RememberSkipped, env
<1>2. /\ status[s] = "planned" /\ status'[s] = "skipped" /\ RunOf(s) \in Runs
      /\ phase[RunOf(s)] = "launching" /\ App[s].label \in Labels
      /\ App[s].wave = wave[RunOf(s)] /\ App[s].wave <= wave[RunOf(s)]
      /\ \A t \in Slots : t # s => status'[t] = status[t]
  BY <1>1, AppType DEF Inv, TypeOK, Reached
<1>3. TypeOK'
  BY <1>1, <1>2 DEF Inv, TypeOK, Statuses, Settled
<1>4. OnTime' /\ Phases'
  BY <1>1, <1>2 DEF Inv, OnTime, Phases, Over, Settled
<1>5. Counted'
  <2>1. \A r \in Runs : Good(r)' = Good(r)
    BY <1>1, <1>2 DEF Good, Fellows
  <2> QED
    BY <1>1, <2>1 DEF Inv, Counted
<1>6. Recorded'
  <2>1. \A r \in Runs : Bad(r)' = IF r = RunOf(s) THEN Bad(r) \cup {s} ELSE Bad(r)
    BY <1>1, <1>2 DEF Bad, Fellows, Failing
  <2>2. \A r \in Runs : failed'[r] = IF r = RunOf(s) THEN failed[r] \cup {App[s].label}
                                                    ELSE failed[r]
    BY <1>1, <1>2 DEF Inv, TypeOK
  <2> QED
    BY <2>1, <2>2 DEF Inv, Recorded
<1>7. DependenciesSettled'
  BY <1>2, AppType DEF Inv, DependenciesSettled, Running, Settled
<1>8. WindowsGiven' /\ Distinct' /\ RegistryExact'
  <2>1. \A t \in Slots : Holds(t)' <=> Holds(t)
    BY <1>1, <1>2 DEF Holds
  <2> QED
    BY <1>1, <1>2, <2>1 DEF Inv, WindowsGiven, Distinct, RegistryExact
<1> QED
  BY <1>3, <1>4, <1>5, <1>6, <1>7, <1>8 DEF Inv

LEMMA EndWaveKeeps ==
  ASSUME Inv, NEW r \in Runs, EndWave(r)
  PROVE  Inv'
<1>1. /\ phase[r] = "launching" /\ ~Over(r) /\ Joined(r)
      /\ failed' = [failed EXCEPT ![r] = @ \cup {App[s].label : s \in Failures(r)}]
      /\ completed' = [completed EXCEPT ![r] =
                         @ + Cardinality({s \in InWave(r) : status[s] = "ready"})]
      /\ wave' = [wave EXCEPT ![r] = @ + 1]
      /\ UNCHANGED <<status, window, inbox, phase, claimed, owner, opened, lags>>
  BY DEF EndWave, env
<1>2. /\ wave[r] \in Nat \ {0} /\ wave'[r] = wave[r] + 1
      /\ \A q \in Runs : q # r => wave'[q] = wave[q]
      /\ \A s \in Slots : App[s].wave \in Nat /\ RunOf(s) \in Runs
  BY <1>1, AppType DEF Inv, TypeOK
<1> DEFINE now == {s \in InWave(r) : status[s] = "ready"}
<1>3. /\ Good(r)' = Good(r) \cup now /\ Good(r) \cap now = {}
      /\ Bad(r)' = Bad(r) \cup Failures(r)
      /\ \A q \in Runs : q # r => Good(q)' = Good(q) /\ Bad(q)' = Bad(q)
  BY <1>1, <1>2 DEF Good, Bad, InWave, Fellows, Failures, Failing
<1>4. /\ IsFiniteSet(Good(r)) /\ IsFiniteSet(now)
      /\ Cardinality(now) \in Nat
      /\ Cardinality(Good(r) \cup now) = Cardinality(Good(r)) + Cardinality(now)
  <2>1. Good(r) \subseteq Fellows(r) /\ now \subseteq Fellows(r)
    BY DEF Good, InWave
  <2>2. IsFiniteSet(Good(r)) /\ IsFiniteSet(now)
    BY <2>1, FellowsFinite, FS_Subset
  <2>3. Cardinality({}) = 0
    BY FS_EmptySet
  <2>4. /\ Cardinality(Good(r)) \in Nat /\ Cardinality(now) \in Nat
    BY <2>2, FS_CardinalityType
  <2>5. Cardinality(Good(r) \cup now)
          = Cardinality(Good(r)) + Cardinality(now) - Cardinality(Good(r) \cap now)
    BY <2>2, FS_Union
  <2>6. Cardinality(Good(r) \cap now) = 0
    BY <1>3, <2>3
  <2> HIDE DEF now
  <2> QED
    BY <2>2, <2>4, <2>5, <2>6
<1>5. TypeOK'
  <2>1. {App[s].label : s \in Failures(r)} \subseteq Labels
    BY AppType DEF Failures, InWave, Fellows
  <2>2. failed' \in [Runs -> SUBSET Labels]
    BY <1>1, <2>1 DEF Inv, TypeOK
  <2>3. completed' \in [Runs -> Nat] /\ wave' \in [Runs -> Nat \ {0}]
    BY <1>1, <1>2, <1>4 DEF Inv, TypeOK
  <2> QED
    BY <1>1, <2>2, <2>3 DEF Inv, TypeOK
<1>6. Counted'
  <2>1. completed'[r] = completed[r] + Cardinality(now)
    BY <1>1 DEF Inv, TypeOK
  <2>2. \A q \in Runs : q # r => completed'[q] = completed[q]
    BY <1>1 DEF Inv, TypeOK
  <2> QED
    BY <1>3, <1>4, <2>1, <2>2 DEF Inv, Counted
<1>7. Recorded'
  <2>1. /\ failed'[r] = failed[r] \cup {App[s].label : s \in Failures(r)}
        /\ \A q \in Runs : q # r => failed'[q] = failed[q]
    BY <1>1 DEF Inv, TypeOK
  <2> QED
    BY <1>3, <2>1 DEF Inv, Recorded
<1>8. OnTime'
  <2> SUFFICES ASSUME NEW s \in Slots
               PROVE  /\ status[s] = "kept" => phase[RunOf(s)] = "adopting"
                      /\ status[s] \in Running \cup Settled =>
                           phase[RunOf(s)] # "adopting" /\ App[s].wave <= wave'[RunOf(s)]
                      /\ App[s].wave < wave'[RunOf(s)] =>
                           status[s] \in Settled \cup {"adopted", "left"}
    BY <1>1 DEF OnTime
  <2>1. CASE RunOf(s) # r
    BY <1>2, <2>1 DEF Inv, OnTime
  <2>2. CASE RunOf(s) = r
    <3>1. App[s].wave < wave'[r] => App[s].wave < wave[r] \/ s \in InWave(r)
      BY <1>2, <2>2 DEF InWave, Fellows
    <3>2. App[s].wave <= wave[r] => App[s].wave <= wave'[r]
      BY <1>2
    <3> QED
      BY <1>1, <2>2, <3>1, <3>2 DEF Inv, OnTime, Joined
  <2> QED
    BY <2>1, <2>2
<1>9. Phases'
  BY <1>1, <1>2 DEF Inv, Phases, Over, Fellows
<1>10. DependenciesSettled' /\ WindowsGiven' /\ Distinct' /\ RegistryExact'
  BY <1>1 DEF Inv, DependenciesSettled, WindowsGiven, Distinct, RegistryExact, Holds
<1> QED
  BY <1>5, <1>6, <1>7, <1>8, <1>9, <1>10 DEF Inv

LEMMA InitInv == Init => Inv
<1> SUFFICES ASSUME Init PROVE Inv
  OBVIOUS
<1>1. \A s \in Slots : /\ status[s] \in {"kept", "planned", "left"}
                       /\ window[s] # NULL <=> status[s] = "kept"
                       /\ RunOf(s) \in Runs
  BY AppType DEF Init, Planned
<1>2. TypeOK
  BY <1>1 DEF Init, TypeOK, Planned, Statuses
<1>3. WindowsGiven /\ Phases
  BY <1>1 DEF Init, WindowsGiven, Phases
<1>4. OnTime
  <2>1. \A s \in Slots : ~(App[s].wave < 1)
    BY AppType
  <2> QED
    BY <1>1, <2>1 DEF Init, OnTime, Running, Settled
<1>5. Distinct
  BY DEF Init, Matching, Distinct
<1>6. RegistryExact
  BY <1>1, NullAssumption DEF Init, RegistryExact, Holds
<1>7. Recorded /\ Counted
  <2>1. \A r \in Runs : Bad(r) = {} /\ Good(r) = {}
    BY <1>1 DEF Bad, Good, Fellows, Failing
  <2> QED
    BY <2>1, FS_EmptySet DEF Init, Recorded, Counted
<1>8. DependenciesSettled
  BY <1>1 DEF DependenciesSettled, Running, Settled
<1> QED
  BY <1>2, <1>3, <1>4, <1>5, <1>6, <1>7, <1>8 DEF Inv

-----------------------------------------------------------------------------
(* Theorems *)

\* Everything below holds at every moment of every restore.
THEOREM Invariance == Spec => []Inv
<1>1. Inv /\ [Next]_vars => Inv'
  <2> SUFFICES ASSUME Inv, [Next]_vars PROVE Inv'
    OBVIOUS
  <2>1. ASSUME NEW r \in Runs, MainStep(r) PROVE Inv'
    BY <2>1, AdoptKeeps, SkipKeeps, SpawnKeeps, BeginLaunchKeeps, EndWaveKeeps, FinishKeeps
    DEF MainStep, Fellows
  <2>2. ASSUME NEW s \in Slots, TaskStep(s) \/ ProbeReturns(s) \/ Lag(s) PROVE Inv'
    BY <2>2, ExecuteKeeps, ReceiveKeeps, CorrelateKeeps, TimeoutKeeps, ProbeKeeps, LagKeeps
    DEF TaskStep
  <2> QED
    BY <2>1, <2>2, OpenKeeps, StutterKeeps DEF Next
<1> QED
  BY InitInv, <1>1, PTL DEF Spec

THEOREM TypeCorrect == Spec => []TypeOK
BY Invariance, PTL DEF Inv

\* In a run a window satisfies at most one slot, and the registry names it.
THEOREM RegistryIsExact == Spec => []RegistryExact
BY Invariance, PTL DEF Inv

\* Nothing is launched while a slot it waits for is unsettled, or after one of
\* them failed.
THEOREM LaunchesWait == Spec => []DependenciesSettled
BY Invariance, PTL DEF Inv

\* The report of a finished run covers every slot of its plan.
THEOREM ReportIsComplete == Spec => []ReportComplete
<1>1. Inv => ReportComplete
  <2> SUFFICES ASSUME Inv, NEW r \in Runs, phase[r] = "finished"
               PROVE  /\ completed[r] = Cardinality({s \in Fellows(r) : status[s] = "ready"})
                      /\ failed[r] = {App[s].label : s \in
                           {t \in Fellows(r) : status[t] \in Settled \ {"ready"}}}
                      /\ \A s \in Fellows(r) : status[s] \in Settled \cup {"adopted", "left"}
    BY DEF ReportComplete
  <2>1. \A s \in Fellows(r) : App[s].wave < wave[r] /\ RunOf(s) = r /\ s \in Slots
    BY DEF Inv, Phases, Over, Fellows
  <2>2. Good(r) = {s \in Fellows(r) : status[s] = "ready"}
    BY <2>1 DEF Good
  <2>3. Bad(r) = {t \in Fellows(r) : status[t] \in Settled \ {"ready"}}
    BY <2>1 DEF Bad, Settled, Failing
  <2>4. \A s \in Fellows(r) : status[s] \in Settled \cup {"adopted", "left"}
    BY <2>1 DEF Inv, OnTime
  <2> QED
    BY <2>2, <2>3, <2>4 DEF Inv, Counted, Recorded
<1> QED
  BY Invariance, <1>1, PTL

\* A run correlates nothing after its report, on which the state actor's guard
\* against a second restore of the project relies.
THEOREM CorrelationsPrecedeReport == Spec => NoLateCorrelation
<1> DEFINE Late == \A w \in Windows : owner'[w] # owner[w] =>
                     \E s \in Slots : owner'[w] = s /\ phase[RunOf(s)] # "finished"
<1>1. Inv /\ [Next]_vars => [Late]_vars
  <2> SUFFICES ASSUME Inv, Next, NEW w \in Windows, owner'[w] # owner[w]
               PROVE  \E s \in Slots : owner'[w] = s /\ phase[RunOf(s)] # "finished"
    OBVIOUS
  <2>1. ASSUME NEW s \in Slots, Adopt(s) \/ Correlate(s)
        PROVE  owner'[w] = s /\ phase[RunOf(s)] # "finished"
    <3>1. owner' = [owner EXCEPT ![window[s]] = s]
      BY <2>1 DEF Adopt, Correlate
    <3>2. owner'[w] = s
      BY <3>1 DEF Inv, TypeOK
    <3>3. CASE Adopt(s)
      BY <3>2, <3>3 DEF Adopt
    <3>4. CASE Correlate(s)
      <4>1. status[s] = "claimed" /\ status' = [status EXCEPT ![s] = "ready"] /\ UNCHANGED run
        BY <3>4 DEF Correlate
      <4>2. phase[RunOf(s)] = "launching"
        BY <4>1, TaskMoves DEF Running, Settled
      <4> QED
        BY <3>2, <4>2
    <3> QED
      BY <2>1, <3>3, <3>4
  <2>2. CASE UNCHANGED owner
    BY <2>2
  <2> QED
    BY <2>1, <2>2 DEF Next, MainStep, TaskStep, Fellows, Skip, Spawn, BeginLaunch, EndWave,
                      Finish, Execute, Receive, Timeout, ProbeReturns, Lag, Open
<1>2. Spec => [][Late]_vars
  BY Invariance, <1>1, PTL DEF Spec
<1> QED
  BY <1>2 DEF NoLateCorrelation
-----------------------------------------------------------------------------
(* A restore run implements RestoreContract *)

Held(s) == IF Outcome(s) = "ready" THEN window[s] ELSE NULL

\* Slots whose verdict and window are the same after a step.
Same(s) == Outcome(s)' = Outcome(s) /\ Held(s)' = Held(s)

LEMMA VerdictOf ==
  ASSUME NEW st
  PROVE  /\ Verdict(st) = "ready" <=> st \in {"kept", "adopted", "ready"}
         /\ Verdict(st) = "bad" <=> st \in {"timeout", "failed", "skipped"}
         /\ Verdict(st) = "left" <=> st = "left"
         /\ Verdict(st) = "open" <=> st \notin {"kept", "adopted", "left"} \cup Settled
<1>1. CASE st \in {"kept", "adopted", "ready"}
  <2>1. Verdict(st) = "ready"
    BY <1>1, Zenon DEF Verdict
  <2> QED
    BY <1>1, <2>1 DEF Settled
<1>2. CASE st \in {"timeout", "failed", "skipped"}
  <2>1. Verdict(st) = "bad"
    BY <1>2 DEF Verdict
  <2> QED
    BY <1>2, <2>1 DEF Settled
<1>3. CASE st = "left"
  <2>1. Verdict(st) = "left"
    BY <1>3 DEF Verdict
  <2> QED
    BY <1>3, <2>1 DEF Settled
<1>4. CASE st \notin {"kept", "adopted", "left"} \cup Settled
  <2>1. /\ st \notin {"kept", "adopted", "ready"}
        /\ st \notin {"timeout", "failed", "skipped"} /\ st # "left"
    BY <1>4 DEF Settled
  <2>2. Verdict(st) = "open"
    BY <2>1 DEF Verdict
  <2> QED
    BY <1>4, <2>1, <2>2
<1> QED
  BY <1>1, <1>2, <1>3, <1>4 DEF Settled

\* What the slots of a run look like to the contract when one of them changes.
LEMMA OneDecided ==
  ASSUME NEW s \in Slots, \A t \in Slots : t # s => Same(t),
         NEW o, NEW h, Outcome(s)' = o, Held(s)' = h
  PROVE  /\ [t \in Slots |-> Outcome(t)]' = [[t \in Slots |-> Outcome(t)] EXCEPT ![s] = o]
         /\ [t \in Slots |-> Held(t)]' = [[t \in Slots |-> Held(t)] EXCEPT ![s] = h]
BY DEF Same

\* A slot that turns bad: the contract's GoBad.
LEMMA TurnsBad ==
  ASSUME Inv, NEW s \in Slots, phase[RunOf(s)] # "finished",
         status[s] \in {"planned", "launching", "waiting", "probing"},
         \A d \in Needs(s) : status[d] \in Settled \cup {"adopted", "left"},
         NEW st \in {"timeout", "failed", "skipped"},
         status' = [status EXCEPT ![s] = st],
         UNCHANGED <<window, phase>>
  PROVE  Contract!GoBad(s)
<1>1. /\ status'[s] = st /\ \A t \in Slots : t # s => status'[t] = status[t]
      /\ RunOf(s) \in Runs /\ Needs(s) \subseteq Slots
  BY AppType DEF Inv, TypeOK
<1>2. Outcome(s) = "open" /\ Outcome(s)' = "bad"
  BY <1>1, VerdictOf DEF Outcome, Settled
<1>3. \A d \in Needs(s) : Outcome(d) # "open"
  BY VerdictOf DEF Outcome, Settled
<1>4. \A t \in Slots : t # s => Same(t)
  BY <1>1 DEF Same, Outcome, Held
<1>5. Held(s) = NULL /\ Held(s)' = NULL
  BY <1>2 DEF Held
<1>6. /\ [t \in Slots |-> Outcome(t)]' = [[t \in Slots |-> Outcome(t)] EXCEPT ![s] = "bad"]
      /\ [t \in Slots |-> Held(t)]' = [t \in Slots |-> Held(t)]
  BY <1>2, <1>4, <1>5, OneDecided
<1>7. Contract!Due(s)
  BY <1>1, <1>2, <1>3 DEF Contract!Due, RunOf
<1> QED
  BY <1>6, <1>7 DEF Contract!GoBad, Held

\* A slot that becomes ready: the contract's BecomeReady.
LEMMA TurnsReady ==
  ASSUME Inv, NEW s \in Slots, status[s] \in {"launching", "probing", "claimed"},
         phase[RunOf(s)] # "finished",
         status' = [status EXCEPT ![s] = "ready"],
         UNCHANGED <<window, phase>>
  PROVE  Contract!BecomeReady(s)
<1>1. /\ status'[s] = "ready" /\ \A t \in Slots : t # s => status'[t] = status[t]
      /\ RunOf(s) \in Runs /\ Needs(s) \subseteq Slots
      /\ window[s] \in Windows \cup {NULL}
  BY AppType DEF Inv, TypeOK
<1>2. Outcome(s) = "open" /\ Outcome(s)' = "ready"
  BY <1>1, VerdictOf DEF Outcome, Settled
<1>3. \A d \in Needs(s) : Outcome(d) # "open" /\ Outcome(d) # "bad"
  <2>1. \A d \in Needs(s) : status[d] \in {"adopted", "ready", "left"}
    BY DEF Inv, DependenciesSettled, Running
  <2> QED
    BY <2>1, VerdictOf DEF Outcome, Settled
<1>4. \A t \in Slots : t # s => Same(t)
  BY <1>1 DEF Same, Outcome, Held
<1>5. Held(s)' = window[s]
  BY <1>2 DEF Held
<1>6. /\ [t \in Slots |-> Outcome(t)]' = [[t \in Slots |-> Outcome(t)] EXCEPT ![s] = "ready"]
      /\ [t \in Slots |-> Held(t)]' = [[t \in Slots |-> Held(t)] EXCEPT ![s] = window[s]]
  BY <1>2, <1>4, <1>5, OneDecided
<1>7. Contract!Due(s)
  BY <1>1, <1>2, <1>3 DEF Contract!Due, RunOf
<1>8. ASSUME window[s] # NULL, NEW t \in Slots, RunOf(t) = RunOf(s)
      PROVE  Held(t) # window[s]
  <2>1. CASE t = s
    BY <1>2, <1>8, <2>1 DEF Held
  <2>2. CASE t # s
    BY <1>8, <2>2 DEF Held, Inv, Distinct
  <2> QED
    BY <2>1, <2>2
<1>9. window[s] # NULL => Contract!Free(RunOf(s), window[s])
  BY <1>8 DEF Contract!Free, RunOf, Held
<1> QED
  BY <1>1, <1>3, <1>6, <1>7, <1>9 DEF Contract!BecomeReady, Held, RunOf

\* A step in which no verdict is given and no run ends is none to the contract.
LEMMA NothingDecided ==
  ASSUME \A t \in Slots : Same(t),
         \A r \in Runs : phase'[r] = "finished" <=> phase[r] = "finished"
  PROVE  UNCHANGED Contract!vars
<1>1. UNCHANGED [t \in Slots |-> Outcome(t)]
  BY DEF Same
<1>2. UNCHANGED [t \in Slots |-> Held(t)]
  BY DEF Same
<1>3. UNCHANGED [r \in Runs |-> phase[r] = "finished"]
  <2>1. \A r \in Runs : (phase'[r] = "finished") = (phase[r] = "finished")
    OBVIOUS
  <2> QED
    BY <2>1
<1> QED
  BY <1>1, <1>2, <1>3 DEF Contract!vars, Held

\* A task that goes on without a verdict, or the main task that starts one.
LEMMA GoesOn ==
  ASSUME Inv, NEW s \in Slots, NEW st,
         status' = [status EXCEPT ![s] = st],
         UNCHANGED phase,
         \A t \in Slots : t # s => window'[t] = window[t],
         \/ status[s] = "kept" /\ st = "adopted" /\ window' = window
         \/ /\ status[s] \in {"planned", "launching", "waiting"}
            /\ st \in {"launching", "waiting", "probing", "claimed"}
  PROVE  UNCHANGED Contract!vars
<1>1. status'[s] = st /\ \A t \in Slots : t # s => status'[t] = status[t]
  BY DEF Inv, TypeOK
<1>2. \A t \in Slots : t # s => Same(t)
  BY <1>1 DEF Same, Outcome, Held
<1>3. Same(s)
  <2>1. CASE status[s] = "kept" /\ st = "adopted" /\ window' = window
    BY <1>1, <2>1, VerdictOf DEF Same, Outcome, Held
  <2>2. CASE /\ status[s] \in {"planned", "launching", "waiting"}
             /\ st \in {"launching", "waiting", "probing", "claimed"}
    <3>1. Outcome(s) = "open" /\ Outcome(s)' = "open"
      BY <1>1, <2>2, VerdictOf DEF Outcome, Settled
    <3> QED
      BY <3>1 DEF Same, Held
  <2> QED
    BY <2>1, <2>2
<1> QED
  BY <1>2, <1>3, NothingDecided

\* Whatever happens, a run does what the contract allows and promises no less.
THEOREM Refinement == Spec => KeepsContract
<1>1. Inv /\ Init => Contract!Init
  <2> SUFFICES ASSUME Inv, Init PROVE Contract!Init
    OBVIOUS
  <2>1. \A s \in Slots : /\ status[s] \in {"kept", "planned", "left"}
                         /\ window[s] # NULL <=> status[s] = "kept"
    BY DEF Init, Planned
  <2>2. \A s \in Slots : Outcome(s) \in {"open", "ready", "left"} /\ Held(s) = window[s]
    BY <2>1, VerdictOf DEF Outcome, Held, Settled
  <2>3. \A s \in Slots : /\ Held(s) \in Windows \cup {NULL}
                         /\ Outcome(s) # "ready" => Held(s) = NULL
    BY <2>2 DEF Held, Init
  <2>4. \A s, t \in Slots : s # t /\ RunOf(s) = RunOf(t) /\ Held(s) # NULL
                              => Held(s) # Held(t)
    BY <2>2 DEF Inv, Distinct
  <2>5. [r \in Runs |-> phase[r] = "finished"] = [r \in Runs |-> FALSE]
    BY DEF Init
  <2> QED
    BY <2>2, <2>3, <2>4, <2>5 DEF Contract!Init, Held, RunOf
<1>2. Inv /\ [Next]_vars => [Contract!Next]_(Contract!vars)
  <2> SUFFICES ASSUME Inv, [Next]_vars
               PROVE  Contract!Next \/ UNCHANGED Contract!vars
    OBVIOUS
  <2> USE DEF Contract!Next
  <2>1. ASSUME NEW s \in Slots, Adopt(s) \/ Spawn(s) \/ Receive(s)
        PROVE  UNCHANGED Contract!vars
    <3>1. CASE Adopt(s)
      BY <3>1, GoesOn DEF Adopt, run
    <3>2. CASE Spawn(s)
      BY <3>2, GoesOn DEF Spawn, Reached, run
    <3>3. CASE Receive(s) /\ Claimable(s, Head(inbox[s]))
      <4>1. /\ status' = [status EXCEPT ![s] = "claimed"] /\ status[s] = "waiting"
            /\ window' = [window EXCEPT ![s] = Head(inbox[s])] /\ UNCHANGED phase
        BY <3>3 DEF Receive, run
      <4>2. \A t \in Slots : t # s => window'[t] = window[t]
        BY <4>1 DEF Inv, TypeOK
      <4> QED
        BY <4>1, <4>2, GoesOn
    <3>4. CASE Receive(s) /\ ~Claimable(s, Head(inbox[s]))
      BY <3>4, NothingDecided DEF Receive, run, Same, Outcome, Held
    <3> QED
      BY <2>1, <3>1, <3>2, <3>3, <3>4
  <2>2. ASSUME NEW s \in Slots, Skip(s)
        PROVE  Contract!GoBad(s)
    <3>1. Reached(s) /\ status[s] = "planned" /\ phase[RunOf(s)] # "finished"
      BY <2>2 DEF Skip, Reached
    <3> QED
      BY <2>2, <3>1, TurnReached, TurnsBad DEF Skip
  <2>3. ASSUME NEW s \in Slots, Execute(s)
        PROVE  Contract!Next \/ UNCHANGED Contract!vars
    <3>1. PICK st \in {"failed", AfterExec(s)} : status' = [status EXCEPT ![s] = st]
      BY <2>3 DEF Execute
    <3>2. st \in {"waiting", "probing", "ready", "failed"}
      BY AppType DEF AfterExec
    <3>3. status[s] = "launching" /\ UNCHANGED <<window, run>> /\ UNCHANGED phase
      BY <2>3 DEF Execute, run
    <3>4. phase[RunOf(s)] = "launching"
      BY <3>1, <3>2, <3>3, TaskMoves DEF Running, Settled
    <3>5. \A d \in Needs(s) : status[d] \in {"adopted", "ready", "left"}
      BY <3>3 DEF Inv, DependenciesSettled, Running
    <3>6. CASE st = "failed"
      BY <3>1, <3>3, <3>4, <3>5, <3>6, TurnsBad DEF Settled
    <3>7. CASE st = "ready"
      BY <3>1, <3>3, <3>4, <3>7, TurnsReady
    <3>8. CASE st \in {"waiting", "probing"}
      BY <3>1, <3>3, <3>8, GoesOn
    <3> QED
      BY <3>2, <3>6, <3>7, <3>8
  <2>4. ASSUME NEW s \in Slots, Correlate(s)
        PROVE  Contract!BecomeReady(s)
    <3>1. /\ status[s] = "claimed" /\ status' = [status EXCEPT ![s] = "ready"]
          /\ UNCHANGED <<window, run>> /\ UNCHANGED phase
      BY <2>4 DEF Correlate, run
    <3>2. phase[RunOf(s)] = "launching"
      BY <3>1, TaskMoves DEF Running, Settled
    <3> QED
      BY <3>1, <3>2, TurnsReady
  <2>5. ASSUME NEW s \in Slots, Timeout(s) \/ ProbeReturns(s)
        PROVE  Contract!Next
    <3>1. PICK st \in {"ready", "timeout"} : status' = [status EXCEPT ![s] = st]
      BY <2>5 DEF Timeout, ProbeReturns
    <3>2. /\ status[s] \in {"waiting", "probing"} /\ UNCHANGED <<window, run>> /\ UNCHANGED phase
          /\ st = "ready" => status[s] = "probing"
      <4>1. CASE Timeout(s)
        BY <3>1, <4>1 DEF Timeout, run, Inv, TypeOK
      <4>2. CASE ProbeReturns(s)
        BY <4>2 DEF ProbeReturns, run
      <4> QED
        BY <2>5, <4>1, <4>2
    <3>3. phase[RunOf(s)] = "launching"
      BY <3>1, <3>2, TaskMoves DEF Running, Settled
    <3>4. \A d \in Needs(s) : status[d] \in {"adopted", "ready", "left"}
      BY <3>2 DEF Inv, DependenciesSettled, Running
    <3>5. CASE st = "timeout"
      BY <3>1, <3>2, <3>3, <3>4, <3>5, TurnsBad DEF Settled
    <3>6. CASE st = "ready"
      BY <3>1, <3>2, <3>3, <3>6, TurnsReady
    <3> QED
      BY <3>5, <3>6
  <2>6. ASSUME NEW r \in Runs, Finish(r)
        PROVE  Contract!End(r)
    <3>1. /\ phase[r] = "launching" /\ Over(r) /\ UNCHANGED <<status, window>>
          /\ phase' = [phase EXCEPT ![r] = "finished"]
      BY <2>6 DEF Finish
    <3>2. \A s \in Slots : RunOf(s) = r => status[s] \in Settled \cup {"adopted", "left"}
      BY <3>1 DEF Over, Fellows, Inv, OnTime
    <3>3. \A s \in Slots : RunOf(s) = r => Outcome(s) # "open"
      BY <3>2, VerdictOf DEF Outcome, Settled
    <3>4. /\ \A s \in Slots : Same(s)
      BY <3>1 DEF Same, Outcome, Held
    <3>5. UNCHANGED [t \in Slots |-> Outcome(t)] /\ UNCHANGED [t \in Slots |-> Held(t)]
      BY <3>4 DEF Same
    <3>6. \A q \in Runs : (phase'[q] = "finished") = (IF q = r THEN TRUE ELSE phase[q] = "finished")
      BY <3>1 DEF Inv, TypeOK
    <3>7. [q \in Runs |-> phase[q] = "finished"]'
            = [[q \in Runs |-> phase[q] = "finished"] EXCEPT ![r] = TRUE]
      BY <3>6
    <3> QED
      BY <3>1, <3>3, <3>5, <3>7 DEF Contract!End, Held, RunOf
  <2>7. ASSUME NEW r \in Runs, BeginLaunch(r)
        PROVE  UNCHANGED Contract!vars
    BY <2>7, NothingDecided DEF BeginLaunch, Same, Outcome, Held, Inv, TypeOK
  <2>8. ASSUME NEW r \in Runs, EndWave(r)
        PROVE  UNCHANGED Contract!vars
    BY <2>8, NothingDecided DEF EndWave, Same, Outcome, Held
  <2>9. ASSUME NEW s \in Slots, Lag(s)
        PROVE  UNCHANGED Contract!vars
    BY <2>9, NothingDecided DEF Lag, run, Same, Outcome, Held
  <2>10. ASSUME NEW w \in Windows, Open(w)
         PROVE  UNCHANGED Contract!vars
    BY <2>10, NothingDecided DEF Open, run, Same, Outcome, Held
  <2>11. CASE UNCHANGED vars
    BY <2>11, NothingDecided DEF vars, Same, Outcome, Held
  <2> QED
    BY <2>1, <2>2, <2>3, <2>4, <2>5, <2>6, <2>7, <2>8, <2>9, <2>10, <2>11
    DEF Next, MainStep, TaskStep, Fellows
<1> QED
  BY Invariance, InitInv, <1>1, <1>2, PTL DEF Spec, KeepsContract, Contract!Spec
=============================================================================
