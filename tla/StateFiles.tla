------------------------------ MODULE StateFiles ------------------------------
(***************************************************************************)
(* When the daemon's memory reaches its files: the state actor's handlers  *)
(* and the writes they make (workspace-daemon/src/actor.rs), the autosave  *)
(* task (autosave.rs), the stop of the daemon (app.rs, main.rs) and the    *)
(* next start, over the file system of AtomicWrite.                        *)
(*                                                                         *)
(* Whatever changes the assignments in memory makes a new version of them, *)
(* and a new process starts with a version of its own, the empty world:    *)
(* what runtime.json held waits beside it for the first hydration.         *)
(* runtime.json holds the version it was written from; the files of        *)
(* projects "a" and "b" hold 1 when they list a certain group and 0 when   *)
(* not.  Time passes only when no task of the daemon is ready.             *)
(*                                                                         *)
(* Ghosts, read by no action: waiting, returned, failures, intact.         *)
(***************************************************************************)
EXTENDS AtomicWrite, Naturals, Sequences

CONSTANTS
    Debounce,    \* autosave.debounce_ms
    MaxInterval, \* autosave.interval_s
    BusCapacity, \* events the autosave task's receiver retains (256)
    MaxVersion,  \* bound: changes of the assignments and starts
    MaxTime,     \* bound
    MaxNoise,    \* bound: events of no interest to autosave since it last emptied the bus
    MaxBurst,    \* bound: events still queued when one that announces no change is sent
    MaxFailures, \* bound: writes that fail
    MaxEnds,     \* bound: ends of the process
    None

ASSUME FilesAssumption == {"runtime", "a", "b"} \subseteq Files
ASSUME ContentsAssumption ==
    MaxVersion \in Nat /\ 0 .. MaxVersion \cup {0, 1} \subseteq Contents /\ Contents \subseteq Nat
ASSUME NoneAssumption == None \notin Nat
ASSUME TimesAssumption == {Debounce, MaxInterval} \subseteq Nat \ {0}
ASSUME NoiseAssumption == {MaxNoise, BusCapacity} \subseteq Nat /\ MaxNoise < BusCapacity

VARIABLES
    process,  \* "up", "leaving" (run has returned) or "down"
    mem,      \* version of the assignments in memory
    made,     \* versions made
    listed,   \* the projects in memory
    home,     \* of them, those that list the group
    handler,  \* what the actor does: "idle", "gone", or what ends its handler
    todo,     \* writes its handler has yet to make: <<file, bytes>>
    commands, \* the actor's queue, as far as autosave and the stop fill it
    inbox,    \* autosave's receiver: whether each event is relevant
    autosave, \* [dirtySince, deadline]
    signalled, now, noise, ends,
    waiting,  \* since when runtime.json lacks what a handler has announced or saved
    returned, \* version of the last write of runtime.json that returned Ok
    failures, intact \* writes that failed; whether the last of runtime.json did not

actorVars == <<mem, made, listed, home, handler, todo>>
ghosts == <<waiting, returned, failures, intact>>
vars == <<fileVars, actorVars, process, commands, inbox, autosave, signalled, now,
          noise, ends, ghosts>>

Projects == {"a", "b"}
Clean == [dirtySince |-> None, deadline |-> None]

TypeInv ==
    /\ TypeOK
    /\ process \in {"up", "leaving", "down"} /\ signalled \in BOOLEAN
    /\ mem \in Contents /\ home \subseteq listed /\ listed \subseteq Projects
    /\ handler \in {"idle", "announces", "syncs", "quiet", "stops", "gone"}
    /\ todo \in Seq(Files \X Contents)
    /\ commands \in Seq({"Persist", "Shutdown"})
    /\ inbox \in Seq(BOOLEAN) /\ Len(inbox) <= BusCapacity
    /\ autosave \in [dirtySince : Nat \cup {None}, deadline : Nat \cup {None}]
    /\ {made, now, noise, ends, returned, failures} \subseteq Nat
    /\ waiting \in Nat \cup {None} /\ intact \in BOOLEAN

\* The daemon has hydrated and saved, and nothing has happened since.
Init ==
    /\ path = [f \in Files |-> IF f = "a" THEN 1 ELSE 0]
    /\ tmp = [f \in Files |-> Missing] /\ synced = [f \in Files |-> FALSE]
    /\ kept = [f \in Files |-> {path[f]}]
    /\ step = "none" /\ target = Missing /\ bytes = Missing
    /\ process = "up" /\ mem = 0 /\ made = 0 /\ listed = Projects /\ home = {"a"}
    /\ handler = "idle" /\ todo = <<>> /\ commands = <<>>
    /\ inbox = <<>> /\ autosave = Clean /\ signalled = FALSE
    /\ now = 0 /\ noise = 0 /\ ends = 0
    /\ waiting = None /\ returned = 0 /\ failures = 0 /\ intact = TRUE

-----------------------------------------------------------------------------
(* The actor. *)

\* broadcast::Sender::send: the oldest event goes when the receiver lags.
Sent(relevant) ==
    IF Len(inbox) < BusCapacity THEN Append(inbox, relevant) ELSE Append(Tail(inbox), relevant)

Ready == process # "down" /\ handler = "idle"

Runtime(version) == <<"runtime", version>>
Listing(project, homes) == <<project, IF project \in homes THEN 1 ELSE 0>>

\* A handler announces or saves what memory then holds.
Noted(version) ==
    waiting' = IF waiting = None /\ path["runtime"] # version THEN now ELSE waiting

\* A handler changes the assignments, has writes to make and ends with how.
Handle(homes, writes, how) ==
    /\ Ready /\ made < MaxVersion
    /\ made' = made + 1 /\ mem' = made' /\ home' = homes
    /\ IF how = "syncs" THEN UNCHANGED waiting ELSE Noted(made + 1)
    /\ todo' = writes /\ handler' = how
    /\ UNCHANGED <<process, commands, inbox, autosave, signalled, now, noise, ends, returned,
                   intact>>

\* on_hypr_event, CloseWindow: an assignment goes with its window.
CloseWindow == Handle(home, <<>>, "announces") /\ UNCHANGED <<listed, fileVars, failures>>

\* window_assign and the other handlers that call persist_runtime.
Assign ==
    /\ Handle(home, <<Runtime(made + 1)>>, "announces")
    /\ UNCHANGED <<listed, fileVars, failures>>

\* CorrelateRestore, and WindowFacts of a window that joins a project: saved,
\* and no event.
Correlate ==
    /\ Handle(home, <<Runtime(made + 1)>>, "quiet")
    /\ UNCHANGED <<listed, fileVars, failures>>

\* Command::Hydrate: windows go and come, and recovery applies, with neither a
\* save nor an event; so does the key of a window whose WindowFacts tell its
\* stable id.
Hydrate == Handle(home, <<>>, "syncs") /\ UNCHANGED <<listed, fileVars, failures>>

\* ... then sync_inherited_assignment of each window, which saves if the
\* window joins or leaves a project.
SyncWindow ==
    /\ process # "down" /\ handler = "syncs" /\ todo = <<>> /\ step = "none"
    /\ made < MaxVersion /\ made' = made + 1 /\ mem' = made'
    /\ todo' = <<Runtime(made + 1)>> /\ Noted(made + 1)
    /\ UNCHANGED <<fileVars, listed, home, handler, process, commands, inbox, autosave,
                   signalled, now, noise, ends, returned, failures, intact>>

\* A title, the focus, a window that opens: an event, and no change.
Notice ==
    /\ Ready /\ Len(inbox) < MaxBurst
    /\ handler' = "announces" /\ Noted(mem)
    /\ UNCHANGED <<fileVars, mem, made, listed, home, todo, process, commands, inbox, autosave,
                   signalled, now, noise, ends, returned, failures, intact>>

\* The destination is written before the group has left the source's file.
MutantMoveTargetFirst(from, to) ==
    /\ home = {from} /\ to \in listed \ {from}
    /\ Handle({to}, <<Listing(to, {to}), Listing(from, {to}), Runtime(made + 1)>>, "announces")
    /\ UNCHANGED <<listed, fileVars, failures>>

\* group_move: both projects' files, then runtime.json.
GroupMove(from, to) ==
    /\ home = {from} /\ to \in listed \ {from}
    /\ Handle({to}, <<Listing(from, {to}), Listing(to, {to}), Runtime(made + 1)>>, "announces")
    /\ UNCHANGED <<listed, fileVars, failures>>

\* project_delete: the file goes, or the error is logged; then runtime.json.
Delete(p) ==
    /\ p \in listed /\ listed' = listed \ {p}
    /\ Handle(home \ {p}, <<Runtime(made + 1)>>, "announces")
    /\ \/ Remove(p) /\ UNCHANGED failures
       \/ /\ failures < MaxFailures /\ failures' = failures + 1
          /\ UNCHANGED fileVars

\* Command::HyprConnection: an event autosave has no interest in.
Reconnect ==
    /\ Ready /\ process = "up" /\ noise < MaxNoise
    /\ noise' = noise + 1
    /\ inbox' = Sent(FALSE)
    /\ UNCHANGED <<fileVars, actorVars, process, commands, autosave, signalled, now, ends,
                   ghosts>>

\* Command::Persist and Command::Shutdown.
TakeCommand ==
    /\ Ready /\ commands # <<>>
    /\ commands' = Tail(commands)
    /\ todo' = <<Runtime(mem)>>
    /\ handler' = IF Head(commands) = "Shutdown" THEN "stops" ELSE "quiet"
    /\ Noted(mem)
    /\ UNCHANGED <<fileVars, mem, made, listed, home, process, inbox, autosave, signalled, now, noise,
                   ends, returned, failures, intact>>

\* persist_runtime, persist_project: the next write of the handler.
CallWrite ==
    /\ process # "down" /\ todo # <<>>
    /\ Begin(Head(todo)[1], Head(todo)[2])
    /\ todo' = Tail(todo)
    /\ UNCHANGED <<mem, made, listed, home, handler, process, commands, inbox, autosave, signalled,
                   now, noise, ends, ghosts>>

WriteStep ==
    /\ Succeed
    /\ waiting' = IF path'["runtime"] = mem THEN None ELSE waiting
    /\ intact' = (intact \/ (step = "rename" /\ target = "runtime"))
    /\ returned' = IF step = "syncdir" /\ target = "runtime" THEN bytes ELSE returned
    /\ UNCHANGED <<actorVars, process, commands, inbox, autosave, signalled, now, noise, ends,
                   failures>>

\* The error is logged, and the handler goes on.
WriteError ==
    /\ failures < MaxFailures /\ Failing
    /\ failures' = failures + 1
    /\ intact' = (intact /\ (target # "runtime" \/ step = "syncdir"))
    /\ UNCHANGED <<actorVars, process, commands, inbox, autosave, signalled, now, noise, ends,
                   waiting, returned>>

\* The handler's last act: emit, and back to the queue unless it was Shutdown.
Finish ==
    /\ process # "down" /\ handler \notin {"idle", "gone"}
    /\ todo = <<>> /\ step = "none"
    /\ handler' = IF handler = "stops" THEN "gone" ELSE "idle"
    /\ inbox' = IF handler = "announces" /\ process = "up" THEN Sent(TRUE) ELSE inbox
    /\ UNCHANGED <<fileVars, mem, made, listed, home, todo, process, commands, autosave, signalled, now,
                   noise, ends, ghosts>>

-----------------------------------------------------------------------------
(* The autosave task. *)

MinOf(x, y) == IF x < y THEN x ELSE y

\* The deadline moves with every event.
MutantReceiveUncapped ==
    /\ process = "up" /\ inbox # <<>>
    /\ inbox' = Tail(inbox)
    /\ autosave' = IF ~Head(inbox) THEN autosave
                   ELSE [dirtySince |-> now, deadline |-> now + Debounce]
    /\ noise' = IF inbox' = <<>> THEN 0 ELSE noise
    /\ UNCHANGED <<fileVars, actorVars, process, commands, signalled, now, ends, ghosts>>

\* An event (a Lagged error is passed over): debounce, but never past
\* the first dirty moment plus the interval.
Receive ==
    /\ process = "up" /\ inbox # <<>>
    /\ inbox' = Tail(inbox)
    /\ autosave' =
          IF ~Head(inbox) THEN autosave
          ELSE LET first == IF autosave.dirtySince = None THEN now ELSE autosave.dirtySince
               IN [dirtySince |-> first,
                   deadline |-> MinOf(now + Debounce, first + MaxInterval)]
    /\ noise' = IF inbox' = <<>> THEN 0 ELSE noise
    /\ UNCHANGED <<fileVars, actorVars, process, commands, signalled, now, ends, ghosts>>

Due == autosave.deadline # None /\ autosave.deadline <= now

\* The deadline passes: Command::Persist is sent.
Fire ==
    /\ process = "up" /\ Due
    /\ autosave' = Clean
    /\ commands' = IF handler = "gone" THEN commands ELSE Append(commands, "Persist")
    /\ UNCHANGED <<fileVars, actorVars, process, inbox, signalled, now, noise, ends, ghosts>>

-----------------------------------------------------------------------------
(* The process. *)

\* SIGTERM: serve returns, run sends Shutdown and returns without an answer.
\* What autosave may still ask for is queued behind Shutdown and never handled,
\* so its state is dropped here.
Signal ==
    /\ process = "up" /\ ~signalled /\ ends < MaxEnds
    /\ signalled' = TRUE /\ process' = "leaving"
    /\ commands' = Append(commands, "Shutdown")
    /\ inbox' = <<>> /\ autosave' = Clean /\ noise' = 0
    /\ UNCHANGED <<fileVars, actorVars, now, ends, ghosts>>

Gone ==
    /\ process' = "down" /\ ends' = ends + 1
    /\ handler' = "gone" /\ todo' = <<>> /\ commands' = <<>> /\ inbox' = <<>>
    /\ autosave' = Clean /\ signalled' = FALSE
    /\ mem' = 0 /\ listed' = {} /\ home' = {} /\ noise' = 0
    /\ waiting' = None /\ intact' = TRUE
    /\ UNCHANGED <<made, now, returned, failures>>

\* main returns and the runtime drops its tasks where they wait.
Exit ==
    /\ process = "leaving" /\ handler \in {"idle", "gone"}
    /\ Gone /\ UNCHANGED fileVars

Crash == process # "down" /\ ends < MaxEnds /\ Die /\ Gone
PowerFails == process # "down" /\ ends < MaxEnds /\ LosePower /\ Gone

\* spawn: the next process takes its projects from their files, and starts with
\* an empty world; runtime.json is kept for apply_recovery.
Boot ==
    /\ process = "down" /\ process' = "up"
    /\ made < MaxVersion /\ made' = made + 1 /\ mem' = made'
    /\ listed' = {p \in Projects : path[p] # Missing}
    /\ home' = {p \in listed' : path[p] = 1}
    /\ handler' = "idle"
    /\ UNCHANGED <<fileVars, todo, commands, inbox, autosave, signalled, now, noise, ends,
                   ghosts>>

\* Time passes when every task of the daemon waits.
Tick ==
    /\ now < MaxTime /\ process = "up"
    /\ handler \in {"idle", "gone"} /\ commands = <<>> /\ inbox = <<>> /\ ~Due
    /\ now' = now + 1
    /\ UNCHANGED <<fileVars, actorVars, process, commands, inbox, autosave, signalled, noise,
                   ends, ghosts>>

Actor == \/ CloseWindow \/ Assign \/ \E from, to \in Projects : GroupMove(from, to)
         \/ \E p \in Projects : Delete(p)
         \/ Correlate \/ Hydrate \/ SyncWindow \/ Notice
         \/ Reconnect \/ TakeCommand \/ CallWrite \/ WriteStep \/ WriteError \/ Finish
Next == Actor \/ Receive \/ Fire \/ Signal \/ Exit \/ Crash \/ PowerFails \/ Boot \/ Tick

Spec == Init /\ [][Next]_vars

-----------------------------------------------------------------------------
(* Properties *)

\* A steady stream of events does not put the save off: while writes succeed,
\* all that memory holds when a handler has announced or saved something is in
\* runtime.json within autosave's interval, however the handlers are timed and
\* whatever the bus drops (autosave.rs).  It leaves out what hydration alone
\* changes, which waits for the next such handler (actor.rs).
SavedWithin ==
    process = "up" /\ intact /\ waiting # None => now - waiting <= MaxInterval

\* Saves reach the disk in the order memory went through: what a write returned
\* Ok for is not taken back by a crash or a loss of power, nor overwritten with
\* an earlier state of memory by a late Persist of a daemon that stops
\* (atomic.rs, runtime.rs).  A later state may hold less: that of a new process
\* before its first hydration is empty.
SavesInOrder == path["runtime"] \in Nat /\ path["runtime"] >= returned

\* The writes of group_move are in an order that never shows its group in two
\* projects, wherever the daemon stops (actor.rs): a group in two files would
\* be loaded into two projects.  This excepts failed writes: when that of the
\* source's file fails and that of the destination's does not, both list it.
NeverInTwoFiles == failures = 0 => \E p \in Projects : path[p] # 1
=============================================================================
