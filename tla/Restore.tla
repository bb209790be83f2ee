------------------------------- MODULE Restore -------------------------------
(***************************************************************************)
(* Restore runs (workspace-daemon/src/launcher.rs): adopt the windows the  *)
(* plan found, then launch the missing slots wave by wave, one task per    *)
(* slot, and correlate the windows that open with the slots waiting.       *)
(*                                                                         *)
(* A run is a main task (adopt, spawn or skip the steps of a wave, join    *)
(* them) and the step tasks it spawned; they share the claim registry and  *)
(* listen on the event bus.  Runs of different projects overlap and share  *)
(* nothing but the bus.  The compositor opens any window at any time.      *)
(*                                                                         *)
(* Abstracted: the plan is an input (its waves are those LaunchWaves       *)
(* computes, its adoptions a matching as Reconcile makes it); time, so     *)
(* that a timeout may strike whenever a task waits; the layout pass and    *)
(* the dispatches, which change nothing here; the order of steps inside a  *)
(* wave.  A window opens once and stays.                                   *)
(***************************************************************************)
EXTENDS Naturals, Sequences, FiniteSets

CONSTANTS
  Runs,        \* restore runs, one per project being restored
  Slots,       \* slot ids, of all runs
  App,         \* per slot: what the plan knows of it, see Apps
  Windows,     \* window addresses
  Adoptable,   \* (slot, window) pairs the planner may match
  Labels,      \* slot labels, among them the slot names
  MaxLags,     \* how often a receiver may lag (bounds the model)
  NULL         \* None

\* A slot of the project: its run, name and label, the names it launches after,
\* its wave, how it becomes ready, the windows of its class (all of them when
\* it names no class), and whether it can be launched.  Nothing depends on
\* whether it is a service, except who runs its command.
Apps == [run : Runs, name : Labels \cup {NULL}, label : Labels, after : SUBSET Labels,
         wave : Nat \ {0}, readiness : {"window", "delay", "command"},
         wants : SUBSET Windows, launchable : BOOLEAN]

RunOf(s)  == App[s].run
Fellows(r) == {s \in Slots : RunOf(s) = r}

\* The slots a slot waits for, by name.
Needs(s)  == {d \in Fellows(RunOf(s)) : App[d].name \in App[s].after}

ASSUME SlotsAssumption == IsFiniteSet(Slots)
ASSUME AppAssumption   == App \in [Slots -> Apps]
ASSUME NullAssumption  == NULL \notin Labels /\ NULL \notin Windows /\ NULL \notin Slots
ASSUME LagsAssumption  == MaxLags \in Nat

\* AppSlot::label is the name where there is one.
ASSUME LabelAssumption == \A s \in Slots : App[s].name # NULL => App[s].label = App[s].name

\* What the planner guarantees (LaunchWaves, DependenciesFirst).
ASSUME WaveAssumption == \A s \in Slots : \A d \in Needs(s) : App[d].wave < App[s].wave

VARIABLES
  status,     \* per slot, see Statuses
  window,     \* per slot: the window adopted or claimed for it
  inbox,      \* per slot: window.opened events its receiver has not taken yet
  phase,      \* per run: "adopting", "launching", "finished"
  wave,       \* per run: the wave being launched
  failed,     \* per run: labels of the slots that did not become ready
  completed,  \* per run: launches that became ready
  claimed,    \* per run: the claim registry, address -> slot
  owner,      \* per window: the slot it was last correlated with
  opened,     \* windows on the screen
  lags        \* receivers that lagged so far

run  == <<phase, wave, failed, completed>>
env  == <<opened, lags>>
vars == <<status, window, inbox, phase, wave, failed, completed, claimed,
          owner, opened, lags>>

\* A slot is planned (kept: to be adopted, planned: to be launched, left: not
\* launchable), launched ("launching" until its command was executed), waits
\* for a window or a probe, has claimed a window, and ends.
Settled  == {"ready", "timeout", "failed", "skipped"}
Running  == {"launching", "waiting", "probing", "claimed"}
Statuses == {"kept", "adopted", "planned", "left"} \cup Running \cup Settled

-----------------------------------------------------------------------------
(* The plan *)

\* restore::plan: matched slots are adopted, the others launched; a slot with
\* neither a launch spec nor an executable is dropped from the plan.
Planned(adopt) ==
  [s \in Slots |-> IF adopt[s] # NULL THEN "kept"
                   ELSE IF App[s].launchable THEN "planned" ELSE "left"]

Matching(adopt) ==
  /\ \A s \in Slots : adopt[s] # NULL => <<s, adopt[s]>> \in Adoptable
  /\ \A s, t \in Slots : s # t /\ RunOf(s) = RunOf(t) /\ adopt[s] # NULL => adopt[s] # adopt[t]

Init ==
  /\ window \in [Slots -> Windows \cup {NULL}]
  /\ Matching(window)
  /\ status = Planned(window)
  /\ inbox = [s \in Slots |-> << >>]
  /\ phase = [r \in Runs |-> "adopting"]
  /\ wave = [r \in Runs |-> 1]
  /\ failed = [r \in Runs |-> {}]
  /\ completed = [r \in Runs |-> 0]
  /\ claimed = [r \in Runs |-> [w \in Windows |-> NULL]]
  /\ owner = [w \in Windows |-> NULL]
  /\ opened = {window[s] : s \in Slots} \ {NULL}
  /\ lags = 0

-----------------------------------------------------------------------------
(* The main task of a run *)

\* Each adopted window is correlated and entered in the registry.
Adopt(s) ==
  /\ status[s] = "kept" /\ phase[RunOf(s)] = "adopting"
  /\ status' = [status EXCEPT ![s] = "adopted"]
  /\ owner' = [owner EXCEPT ![window[s]] = s]
  /\ claimed' = [claimed EXCEPT ![RunOf(s)][window[s]] = s]
  /\ UNCHANGED <<window, inbox, run, env>>

BeginLaunch(r) ==
  /\ phase[r] = "adopting" /\ \A s \in Fellows(r) : status[s] # "kept"
  /\ phase' = [phase EXCEPT ![r] = "launching"]
  /\ UNCHANGED <<status, window, inbox, wave, failed, completed, claimed, owner, env>>

\* The step of a wave is next in the loop over its steps.
Reached(s) == /\ phase[RunOf(s)] = "launching" /\ status[s] = "planned"
              /\ App[s].wave = wave[RunOf(s)]

RememberSkipped(s) == failed' = [failed EXCEPT ![RunOf(s)] = @ \cup {App[s].label}]

\* mutant: failures are not looked at
NeverBlocked(s) == FALSE
Blocked(s) == App[s].after \cap failed[RunOf(s)] # {}

Skip(s) ==
  /\ Reached(s) /\ Blocked(s)
  /\ status' = [status EXCEPT ![s] = "skipped"]
  /\ RememberSkipped(s)
  /\ UNCHANGED <<window, inbox, phase, wave, completed, claimed, owner, env>>

\* The task is given a fresh receiver before it runs.
Spawn(s) ==
  /\ Reached(s) /\ ~Blocked(s)
  /\ status' = [status EXCEPT ![s] = "launching"]
  /\ UNCHANGED <<window, inbox, run, claimed, owner, env>>

InWave(r) == {s \in Fellows(r) : App[s].wave = wave[r]}

\* mutants: the main task waits until all are ready; timeouts are no failures
JoinedReady(r) == \A s \in InWave(r) : status[s] \in {"ready", "adopted", "left"}
FailuresSeen(r) == {s \in InWave(r) : status[s] = "failed"}

Joined(r)   == \A s \in InWave(r) : status[s] \in Settled \cup {"adopted", "left"}
Failures(r) == {s \in InWave(r) : status[s] \in {"failed", "timeout"}}

\* mutant: the last wave is not joined
OverEarly(r) == \A s \in Fellows(r) : App[s].wave <= wave[r] /\ status[s] # "planned"
Over(r) == \A s \in Fellows(r) : App[s].wave < wave[r]

\* All handles of the wave were awaited: their results are counted and the next
\* wave begins.
EndWave(r) ==
  /\ phase[r] = "launching" /\ ~Over(r) /\ Joined(r)
  /\ failed' = [failed EXCEPT ![r] = @ \cup {App[s].label : s \in Failures(r)}]
  /\ completed' = [completed EXCEPT ![r] =
                     @ + Cardinality({s \in InWave(r) : status[s] = "ready"})]
  /\ wave' = [wave EXCEPT ![r] = @ + 1]
  /\ UNCHANGED <<status, window, inbox, phase, claimed, owner, env>>

\* The report, RestoreFinished, is the last command a run sends.
Finish(r) ==
  /\ phase[r] = "launching" /\ Over(r)
  /\ phase' = [phase EXCEPT ![r] = "finished"]
  /\ UNCHANGED <<status, window, inbox, wave, failed, completed, claimed, owner, env>>

-----------------------------------------------------------------------------
(* The task of a step: run_step, wait_window, wait_probe *)

AfterExec(s) == CASE App[s].readiness = "delay"   -> "ready"
                  [] App[s].readiness = "command" -> "probing"
                  [] App[s].readiness = "window"  -> "waiting"

\* The command is run, by Hyprland or (a service) directly; either may fail.
Execute(s) ==
  /\ status[s] = "launching"
  /\ \E st \in {"failed", AfterExec(s)} : status' = [status EXCEPT ![s] = st]
  /\ inbox' = IF status'[s] = "waiting" THEN inbox ELSE [inbox EXCEPT ![s] = << >>]
  /\ UNCHANGED <<window, run, claimed, owner, env>>

\* mutant: only the slot itself is looked up, not the registry
UnclaimedBySelf(s, w) == window[s] = NULL
Claimable(s, w) == w \in App[s].wants /\ claimed[RunOf(s)][w] = NULL

\* One event is taken from the bus: a window of the wanted class that satisfies
\* no slot of this run is claimed under the registry's lock, others passed over.
Receive(s) ==
  /\ status[s] = "waiting" /\ inbox[s] # << >>
  /\ LET w == Head(inbox[s])
     IN  IF Claimable(s, w)
         THEN /\ status' = [status EXCEPT ![s] = "claimed"]
              /\ window' = [window EXCEPT ![s] = w]
              /\ claimed' = [claimed EXCEPT ![RunOf(s)][w] = s]
              /\ inbox' = [inbox EXCEPT ![s] = << >>]
         ELSE /\ inbox' = [inbox EXCEPT ![s] = Tail(@)]
              /\ UNCHANGED <<status, window, claimed>>
  /\ UNCHANGED <<run, owner, env>>

\* CorrelateRestore is sent before the task reports "ready".
Correlate(s) ==
  /\ status[s] = "claimed"
  /\ owner' = [owner EXCEPT ![window[s]] = s]
  /\ status' = [status EXCEPT ![s] = "ready"]
  /\ UNCHANGED <<window, inbox, run, claimed, env>>

Timeout(s) ==
  /\ status[s] = "waiting"
  /\ status' = [status EXCEPT ![s] = "timeout"]
  /\ inbox' = [inbox EXCEPT ![s] = << >>]
  /\ UNCHANGED <<window, run, claimed, owner, env>>

\* The probe command returned: with success, or without and too late to retry.
ProbeReturns(s) ==
  /\ status[s] = "probing"
  /\ \E st \in {"ready", "timeout"} : status' = [status EXCEPT ![s] = st]
  /\ UNCHANGED <<window, inbox, run, claimed, owner, env>>

-----------------------------------------------------------------------------
(* The world around *)

\* A window opens; the actor reports it to every receiver there is.
Open(w) ==
  /\ w \notin opened
  /\ opened' = opened \cup {w}
  /\ inbox' = [s \in Slots |-> IF status[s] \in {"launching", "waiting"}
                               THEN Append(inbox[s], w) ELSE inbox[s]]
  /\ UNCHANGED <<status, window, run, claimed, owner, lags>>

\* A receiver too far behind loses the oldest event and goes on.
Lag(s) ==
  /\ lags < MaxLags /\ inbox[s] # << >>
  /\ lags' = lags + 1
  /\ inbox' = [inbox EXCEPT ![s] = Tail(@)]
  /\ UNCHANGED <<status, window, run, claimed, owner, opened>>

MainStep(r) == \/ \E s \in Fellows(r) : Adopt(s) \/ Skip(s) \/ Spawn(s)
               \/ BeginLaunch(r) \/ EndWave(r) \/ Finish(r)
TaskStep(s) == Execute(s) \/ Receive(s) \/ Correlate(s) \/ Timeout(s)

Next == \/ \E r \in Runs : MainStep(r)
        \/ \E s \in Slots : TaskStep(s) \/ ProbeReturns(s) \/ Lag(s)
        \/ \E w \in Windows : Open(w)

\* Tasks are scheduled and deadlines pass.
TaskFairness == /\ \A r \in Runs : WF_vars(MainStep(r))
                /\ \A s \in Slots : WF_vars(TaskStep(s))

\* Nothing ends a probe command: wait_probe awaits it without a limit.
Spec == Init /\ [][Next]_vars /\ TaskFairness

-----------------------------------------------------------------------------
(* Properties *)

TypeOK ==
  /\ status \in [Slots -> Statuses]
  /\ window \in [Slots -> Windows \cup {NULL}]
  /\ inbox \in [Slots -> Seq(Windows)]
  /\ phase \in [Runs -> {"adopting", "launching", "finished"}]
  /\ wave \in [Runs -> Nat \ {0}]
  /\ failed \in [Runs -> SUBSET Labels]
  /\ completed \in [Runs -> Nat]
  /\ claimed \in [Runs -> [Windows -> Slots \cup {NULL}]]
  /\ owner \in [Windows -> Slots \cup {NULL}]
  /\ opened \subseteq Windows
  /\ lags \in Nat

\* A slot has its window.
Holds(s) == status[s] \in {"adopted", "claimed", "ready"} /\ window[s] # NULL

\* The registry of a run says exactly which window satisfies which slot,
\* although tasks race for it: so in a run a window satisfies one slot at most,
\* and the layout pass, which reads the registry, moves the right windows.
RegistryExact ==
  \A r \in Runs, w \in Windows, s \in Slots :
    claimed[r][w] = s <=> RunOf(s) = r /\ Holds(s) /\ window[s] = w

\* "Failures and timeouts skip dependent slots": whatever was launched waited
\* for slots none of which failed, timed out or was skipped, or is under way.
DependenciesSettled ==
  \A s \in Slots : status[s] \in Running \cup (Settled \ {"skipped"}) =>
    \A d \in Needs(s) : status[d] \in {"adopted", "ready", "left"}

\* The actor drops its guard against a second restore at the report, and takes
\* correlations until then: none comes after it.
NoLateCorrelation ==
  [][\A w \in Windows : owner'[w] # owner[w] =>
        \E s \in Slots : owner'[w] = s /\ phase[RunOf(s)] # "finished"]_vars

\* RestoreFinished reports every slot of the plan, launched or failed.
ReportComplete ==
  \A r \in Runs : phase[r] = "finished" =>
    /\ completed[r] = Cardinality({s \in Fellows(r) : status[s] = "ready"})
    /\ failed[r] = {App[s].label :
                      s \in {t \in Fellows(r) : status[t] \in Settled \ {"ready"}}}
    /\ \A s \in Fellows(r) : status[s] \in Settled \cup {"adopted", "left"}

\* Every run ends whatever fails or times out, if each probe command it starts
\* returns: the one thing a run hangs on (launcher.rs).
RunsEnd ==
  \A r \in Runs :
    (\A s \in Fellows(r) : []<>(status[s] # "probing")) => <>(phase[r] = "finished")

-----------------------------------------------------------------------------
(* What a run promises *)

Verdict(st) == CASE st \in {"kept", "adopted", "ready"}     -> "ready"
                 [] st \in {"timeout", "failed", "skipped"} -> "bad"
                 [] st = "left"                             -> "left"
                 [] OTHER                                   -> "open"

Outcome(s) == Verdict(status[s])

Contract == INSTANCE RestoreContract WITH
  Owner   <- [s \in Slots |-> App[s].run],
  Prior   <- [s \in Slots |-> Needs(s)],
  outcome <- [s \in Slots |-> Outcome(s)],
  holds   <- [s \in Slots |-> IF Outcome(s) = "ready" THEN window[s] ELSE NULL],
  ended   <- [r \in Runs |-> phase[r] = "finished"]

\* A restore run keeps the promise of RestoreContract.
KeepsContract == Contract!Spec

=============================================================================
