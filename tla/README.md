# omarchy-workspaces in TLA+

A verification development for the omarchy-workspaces daemon: what its state
actor keeps, what it writes to disk, what restarts, restore runs, events and
requests in any order can do to it, what a restore run makes of a project, how
the daemon's windows keep up with the compositor's and the panel with the daemon,
what survives a failed write or a loss of power, and the pure parts of the code
that decide what runs where. Paths below are relative to `src/crates/`.

## 1. The system

The daemon (`workspace-daemon`) keeps named projects on Hyprland workspaces. A
project has groups (windows that can be parked on a workspace of their own) and
app slots (windows to relaunch). Parts, the state they keep, and what makes them
correct:

| part | source | state and operations | what has to be right |
|---|---|---|---|
| State actor | `workspace-daemon/src/actor.rs`, `workspace-core/src/world.rs` | windows with annotations, projects, active project, restore guard, recovered runtime; one command at a time from a channel of 256 | precedence of annotations, no dangling references, one restore per project |
| State files | `workspace-storage/src/*.rs` | `runtime.json`, one file per project, written by temporary file and rename | files match memory; a restart loads something consistent |
| Hyprland task | `workspace-daemon/src/hypr_task.rs`, `workspace-hypr/src/events.rs` | event queue, dump on connect, client facts after `openwindow`, reconnect with backoff | the tracked world converges to the compositor's |
| Restore executor | `workspace-daemon/src/launcher.rs` | per run: claimed windows, failed slots, waves; one task per step | a window is claimed once, dependents of failures are skipped, the run ends unless a probe hangs |
| Planning | `workspace-core/src/restore.rs`, `launch.rs` | pure: match slots to windows, order launches | greedy matching is one to one; waves respect dependencies |
| Rules | `workspace-core/src/rules.rs` | pure: compiled matchers by priority | evaluated in the promised order, reloaded whole or not at all |
| Autosave, shutdown | `workspace-daemon/src/autosave.rs`, `app.rs` | dirty since, deadline | what a handler announces or saves is on disk in bounded time |
| Server, bus | `workspace-daemon/src/server.rs`, `workspace-proto` | per connection: subscription, receiver of a bus of 256 | a client that lags is not stale for good |
| Panel client | `workspace-panel/src/client.rs` | queued requests, notes of expected replies, last snapshot | the panel ends up showing the daemon's state; no request is repeated |
| Panel user interface | `workspace-panel/src/main.rs`, `settings.rs` | rail, hover timer, rows under drag; the text of launch settings | rows settle on the daemon's order; saving unedited settings changes nothing |
| Search, capture, browser sessions | `workspace-core/src/search.rs`, `workspace-daemon/src/capture.rs`, `snss.rs` | pure; the browser's journal | a query is not guessed; a captured window runs again with its tabs |
| Updates, lock, CLI, configuration | see `PROJECT.json` | one-shot | not modelled |

How they interact: the Hyprland task, the IPC server, the autosave task and
restore runs all *send commands* to the actor and never touch its state. The
actor answers requests by a one-shot channel, broadcasts domain events on the
bus, and *spawns tasks* for everything slow: compositor dispatches, client
fetches (`project.save`), restore runs. Their results come back as later
commands or as compositor events.

What is hard: those results arrive out of order with requests that changed the
ground under them (a project deleted during its restore); several sources
annotate the same window; the daemon may stop between any two commands and
start again from files written separately; projects are addressed by slug in
files, on workspaces and in the restore guard but by id in memory, and slugs are
reused; the panel sees the daemon through a bounded bus, a socket and its own
copy, each of them behind. `PROJECT.json` lists these hazards by line.

## 2. What is modelled

### StateActor.tla

The core. One variable per piece of state:

| variable | code |
|---|---|
| `windows` | `World.windows`; per window its workspace, stable id and annotation (`assignment`, `assigned_by`) |
| `projects` | `StateActor.projects`; id, slug, groups, hidden groups, the groups of the app slots |
| `active`, `hydrated`, `restoring`, `recovery` | the fields of `World` and `StateActor` of these names |
| `runs` | the restore tasks in flight (id and slug of their project, slots) |
| `runtime`, `disk` | `runtime.json` and the project files |
| `spent` | ids handed out so far: `ProjectId::new` never repeats one |
| `restarts` | bounds the model |

One action per command or request, each the whole handler with the sync, the
rule evaluation and the saves it ends in:

- commands of the Hyprland task: `Hydrate` (dump, recovery, sync), `OpenWindow`,
  `CloseWindow`, `MoveWindow`, `WindowFacts`, `FocusWorkspace`;
- requests: `ProjectCreate`, `ProjectDuplicate`, `ProjectImport`,
  `ProjectReplace` (import with force), `ProjectDelete`, `ProjectSwitch`,
  `ProjectClose`, `ProjectCapture`, `ProjectSave`, `ProjectRestore`,
  `WindowAssign`, `GroupAdd`, `GroupRemove`, `GroupCreate`, `GroupHide`,
  `GroupShow` (and focus), `GroupMove`;
- from restore runs: `CorrelateRestore`, `RestoreFinished`;
- `Persist`, and `Restart`: the daemon stops between two commands, gracefully
  (then `runtime.json` is written once more) or not, and a new one is spawned.

Around the actor everything is nondeterministic: Hyprland reports any window on
any workspace (one of ours or a foreign one), a rule matches or not, a request
names any project, a run correlates any window, a save was preceded by a fetch
of any older client list. So what holds does not depend on the compositor or the
clients behaving.

Abstractions: of a window's facts only the workspace; names, monitors, sort
positions and launch data are left out (positions and `project_reorder` are in
`PanelRail`, launch data and `slot_update` in `LaunchText`, the evaluation of rules
in `RuleEngine`; `project_rename` is not modelled); a workspace name is what
`ws_names::parse` makes of it; events on the bus (`PanelSync`) and dispatches to
the compositor are not state here. Writes are whole and succeed (`StateFiles` has
the writes that do not).

Properties:

- `TypeOK` with `AnnotationOK` (project and source come and go together),
  `UniqueProjects` (slugs and ids are unique after any sequence of requests) and
  `RestoreExclusive` (the guard holds exactly the slugs of the runs in flight,
  although slugs are deleted and reused while a run lasts): parts of `IInv`.
- `FilesMatchProjects`: no request forgets the file of a project it changed.
- `OnlyRestoreDangles`: only a run that outlived its project assigns to an id
  that is gone; delete and forced import release all others.
- `RuntimeNamesLiveProjects`: `runtime.json` never names a project that is gone.
- `InheritedGroupExists`: also after a group moved or was recovered.
- `PrecedenceRespected` (action property): a claimed annotation is only replaced
  by one of equal or higher rank or by a restore run, and only dropped with its
  project.
- `IInv`: all of them and `IdsSpent`, the inductive invariant.

### Reconcile.tla

`identity_score` and `reconcile`: which live windows stand for which slots. The
score of every slot and window is an input (what the two agree on: executable,
class, initial class, title); `Visit` takes the first pair of the sorted list, as
the loop does, and `MatchEnd` ends the loop. The candidates are the
windows `project_restore` passes, so the module also says whose windows a restore
may take.

- `OneToOne`, and `NoBetterPairLost`: the matching is greedy with ties, so what
  can be asked of it is that a pair over the threshold that went unmatched lost
  to one that scores at least as high.
- `EnoughEvidence`, what the threshold comes to, is proved and not run.

### LaunchWaves.tla

`waves` of `launch.rs`, Kahn's algorithm as the loop it is: `Reject` for bad
names, `Start` counts in-degrees, each `Peel` is one iteration, `Finish` the
verdict. Names and lists (repeated, unknown and cyclic names included) are
inputs. A wave is a set: the order of slots in a wave is left out, as it decides
nothing about when a slot may start.

- `DependenciesFirst`, `NoNeedlessWait`: waves respect dependencies and are the
  earliest possible.
- `VerdictExact`: `Cycle` exactly when some slots wait for each other.
- `CountersExact` (the unsigned counters count what they should, so they cannot
  wrap; names listed twice are given back twice) and `EachOnce` (the waves hold
  every slot once) are proved and not run.

### Restore.tla and RestoreContract.tla

Restore runs as `launcher.rs` executes them, any number at a time.

| variable | code |
|---|---|
| `phase`, `wave`, `failed`, `completed` | where `execute` is, and its locals |
| `claimed` | the `Arc<Mutex<HashMap>>` of a run, address to slot |
| `status` | per slot: kept (to be adopted) or planned, adopted; launching, waiting, probing, claimed; ready, timeout, failed, skipped; left: dropped by the plan |
| `window` | the window adopted or claimed for a slot |
| `inbox` | what a step's bus receiver has not taken yet |
| `owner` | what the actor was told last about a window |

Actions of the main task: `Adopt`, `BeginLaunch`, `Spawn`, `Skip`, `EndWave`
(all handles of the wave awaited), `Finish`. Of a step's task: `Execute`,
`Receive` (one event; the claim under the registry's lock), `Correlate` (the
command to the actor, then "ready"), `Timeout`, `ProbeReturns`. Around them:
`Open` (the compositor opens a window, the actor tells every receiver) and `Lag`
(a receiver loses the oldest event).

`RestoreContract` is what a run promises: every slot it has to launch gets one
verdict, after the slots it waits for, and is ready only if none of those went
bad; a window stands for one slot of a run; a run ends when all verdicts are in.
`KeepsContract` says that `Restore` implements it; in the refinement mapping the
outcome of a slot is read off its status (`Verdict`), and a window stands for a
slot from the moment the slot is ready.

- `RegistryExact`: the registry names for each window exactly the slot it
  satisfies, although tasks race for windows and deadlines strike meanwhile; the
  layout pass moves windows by it.
- `DependenciesSettled`: what was launched waited for everything it names, and
  nothing it names had failed, directly or further down.
- `NoLateCorrelation`: the state actor drops its guard against a second restore
  at the report; no correlation follows it.
- `RunsEnd`, if probe commands return.
- `ReportComplete` (`RestoreFinished` accounts for every slot) is proved and not
  run.

Abstractions: the plan is an input that satisfies what `LaunchWaves` and
`Reconcile` prove of it (`WaveAssumption` is `DependenciesFirst`, `Matching` is
`OneToOne`); time, so that a deadline may strike whenever a task waits; the order
of steps in a wave (any); `failed` is a set; the layout pass, the placement and
focus dispatches, which only speak to the compositor; a window opens once.

### HyprSync.tla

How the tracked windows keep up with the compositor, between the event socket,
the dump on every connect, the look-up after `openwindow` and the fetch of a save.

| variable | code |
|---|---|
| `real`, `realFocus` | the compositor's windows (workspace, fullscreen) and its focused one |
| `linked`, `stream` | the pump's socket; everything between the socket and the task |
| `task` | where `hypr_task::run` is: idle; with the clients of a dump, then with the focus as well; about to look up a window, with its facts |
| `known`, `focus` | `World.windows` and `World.focused_window`; `whole` is whether a window's facts came from a client |
| `reply` | the clients a save fetched, until its `RequestWithGeometry` is handled |
| `sound` | no request failed since the last dump was asked for |

The compositor: `Open`, `Close`, `Move`, `Focus`, `Fullscreen`. The pump:
`Connect`, `Drop` (what was not read yet is lost). The task, a step per await:
`Connected` and `Dump` (the clients, and later the focus, as they are then),
`Hydrate`, `Disconnected`, `Handle` (one event, applied as `handle_hypr_event`
does), `Lookup`, `Enrich`. A save: `SaveFetch`, `SaveRefresh`. Requests may fail.

What the task asks for is newer than the events still queued, so everything it
holds mixes times. `Quiet` is: connected, nothing on its way.

- `WindowsConverge`: once quiet, the daemon tracks exactly the windows there are,
  and the focused one. It does so only because the dump replaces everything, and
  because the events that are older than a dump are followed by the events that
  made the dump differ.
- `PlacesConverge`: and it has them on their workspaces, if no save came in
  between. With a save this does not hold: section 5.
- `FactsComplete`: no window keeps the bare facts of its `openwindow` event,
  although a dump may come first and the event after it, and although the window
  may be gone when it is looked up.
- `Settles`: when the compositor stops changing, the daemon becomes quiet.

The first three are conditional on `sound`: after a failed request the daemon
really is stale until the next connection, as its log says.

Abstractions: workspaces, monitors, titles and `hypr_connected`; the queues
between pump, task and actor are one (they keep order and lose nothing); one save
at a time. The compositor is modelled from what `events.rs` says of its events:
each change is announced by one, and a focus that leaves all windows is (also when
the focused window closes).

### PanelSync.tla

The panel's copy of the state, from the actor to the screen, over one connection
at a time.

| variable | code |
|---|---|
| `phase`, `stops` | the daemon: running, stopping (the actor is gone, connections are not), down |
| `stamp`, `seq` | changes made to what a snapshot shows; events emitted in this life |
| `link`, `toServer`, `toPanel` | the socket and the lines on it, each way |
| `sub`, `inbox`, `lagged` | the connection's receiver of the bus, a ring of `BusCapacity` |
| `serving` | the request `handle_connection` waits for, with its reply once the actor gave it |
| `pending`, `nextId` | the client's notes of replies it expects |
| `asked`, `outbox` | requests of the user, and those of them still in the panel's channel |
| `shown`, `ui` | the snapshot the interface has, and its state |

Actions: of the actor `Change`, `SilentChange`, `Noise`, `AnswerSnapshot`,
`AnswerQuietly`, `Obey`; of the server's end `Subscribe`, `Forward`,
`AnswerDropped`, `WriteResponse`, `Push`, `Cancelled` (one loop, which reads no
event while a request is served and no request while the socket is full); of the
process `StopActor`, `Exit`, `Crash`, `Start`; of the panel's thread `Connect`
(subscribe, then ask for a snapshot), `ConnectRefused`, `EndOfFile`, `TakeAsked`,
`ReadResponse`, `ReadEvent`; `Ask` is the user. A snapshot is its stamp, the number
of changes it shows; a request is its kind.

- `FreshWhenQuiet`: with nothing on its way the interface shows a snapshot no
  older than the last announced change, though an event that arrives during a
  fetch starts no other. The exception is part of the property: the bus may have
  dropped that very announcement, and the client does not look at `seq`
  (section 5). Dropped announcements that a later one follows do no harm.
- `NeverOlder`: the copy never goes back, across replies, losses and restarts.
- `OwedReplies`: no note outlives the reply it waits for, so none keeps later
  events from starting a fetch.
- `AtMostOnceInOrder`: requests of the user, queued across reconnections, are
  handled in order and never twice.
- `SettlesFresh`: when the environment rests, the panel ends up connected and fresh.

Changes without an event exist (`SilentChange`: a restore that activates its
project, hydration, the facts of a new window); they move `stamp` and not `said`,
and the panel shows them only with the next announced change.

### ProjectOrder.tla and PanelRail.tla

`ProjectOrder` is the actor's manual order as operators: `NextPosition` (with the
overflow at `MaxPosition`, the code's `u32::MAX`), `Loaded` (the list in order,
`InOrder`, that `spawn` sorts the files into), `Reordered` and `Writes` (what
`project_reorder` makes of the list, and the files it then writes, in turn), and
`Promised`, what a reorder means without positions. `PanelRail` is the panel's rail
and rows on top of it.

| variable | code |
|---|---|
| `projects`, `files` | the actor's list and the project files, slug and position each |
| `handling`, `todo` | whether `project_reorder` is at its writes, and the rest of `changed` |
| `failed`, `wrapped` | whether a write failed since the start; whether `next_position` overflowed since the list was last sorted |
| `due`, `updates`, `requests` | between actor and panel, as `PanelSync` shows them to work |
| `committed`, `visual`, `dragged` | `row_order`, `visual_order`, `drag_state` |
| `dragActive`, `expanded`, `timer` | the rail: pinned by a drag, open, the running countdown |
| `inside` | the pointer |

Actions: `CreateProject`, `DeleteProject`, `CommandReorder`; `HandleReorder` (the
list takes its new order, or the request is refused), `WriteFile` (one write, which
may fail with no more than a log line) and `FinishReorder` (the event); `Restart`
(the daemon stops anywhere, between two of these writes too, and the next one loads
the files); `WindowEvent`, `Fetch`; `Rebuild` (a new list, also in the middle of a drag);
`DragBegin`, `DragMotion`, `Drop`, `DragEnd`; `Enter`, `Motion`, `Leave`, `TimerFires`.

- `DivergeOnlyInDrag`: what is on screen differs from what is committed only
  during a drag; a drag without a drop puts every row back, whatever lists came.
- `RestartKeepsOrder`: unless a write failed, the files are those of the projects the
  actor has, also in the midst of a reorder's writes, and once these are done the
  files load as the order shown, although only changed positions are written, also
  with ties, gaps and what an earlier crash left. It leaves out the order while the
  writes go on, which a crash may leave mixed, and after an overflow (section 5).
- `ReorderAsPromised`: an accepted reorder, of some projects or with a slug twice,
  does what `Promised` says, over any positions but those of an overflow.
- `SettlesOnActorsOrder`: the rows end up on the actor's order, though a drop
  commits its own before the actor has accepted or refused it.
- `Collapses`: the rail does not stay open without pointer and drag, though a drag
  swallows leaves and drops countdowns.

### AtomicRegister.tla, AtomicWrite.tla and StateFiles.tla

`AtomicRegister` is the promise of `atomic.rs`: a file changes in one step
(`Put`), a loss of power takes it back at most to what was not settled yet
(`PowerLoss`, `Settle`). `AtomicWrite` is the code: create, write, sync, rename,
sync of the directory, each with its failure; `Remove` (`delete_project`, which
syncs nothing); `Die` and `LosePower` at any point. Per file it keeps the entry at
the path, the temporary entry, whether the latter's data is on the disk, and
`kept`, what the path may be after a loss of power. `AtomicFiles` is the
refinement.

`StateFiles` adds who writes: the actor's handlers, by what they do about a change of
the assignments. `CloseWindow` announces it; `Assign`, `GroupMove` and `Delete` save
and announce it; `Correlate` (a restore's correlation, or the facts of a window that
joins a project) saves it without an event; `Hydrate` (windows go and come, recovery
applies) does neither, and `SyncWindow` is what follows in the same handler for each
window that joins or leaves a project, with a save; `Notice` announces something else;
`TakeCommand` is `Persist` or `Shutdown`. Then come `CallWrite`, `WriteStep` or
`WriteError`, and `Finish`. Beside them are the autosave task (`Receive`, `Fire`), the
end of the daemon (`Signal`, `Exit`, `Crash`, `PowerFails`) and the next start
(`Boot`), which has the projects of the files and an empty world: a new version of
the assignments, older than nothing. `runtime.json` holds the version of the
assignments it was written from; the files of two projects hold whether they list a
certain group. Time passes (`Tick`) when no task is ready.

- `SavedWithin`: while writes succeed, all that memory holds when a handler has
  announced or saved something is in `runtime.json` within `interval_s`, however
  events are timed and whatever the bus drops. It needs that fewer irrelevant events
  than the bus holds come between two times autosave has emptied it
  (`NoiseAssumption`). What a hydration alone changes counts from the next such
  handler: the code neither saves nor announces it (section 5).
- `SavesInOrder`: what a write of `runtime.json` returned Ok for is never lost nor
  overwritten with an earlier state of memory, although `run` returns without waiting
  for the actor's last write. A later state may hold less: the empty world of a new
  process replaces the assignments when it is saved before the first hydration, which
  is `KeptUntilHydrated` in section 5.
- `NeverInTwoFiles`: wherever the daemon stops in `group_move`, its group is not in
  both projects (it may be in none), as long as no write failed.
- `AtomicFiles`: with all this going on, the files are registers.

### RuleEngine.tla, Queries.tla, LaunchText.tla, SessionLog.tla and Tools.tla

Parts that compute an answer, as operators of their inputs. `Tools` asks: a
behaviour is one question about one input, or a browser that goes on changing. It
states what an input can be (`RulesAssumption`, `QueriesAssumption`,
`SlotsAssumption`, `ProcessesAssumption`) and the properties. `Lists` sorts and
filters for all of them: a sorted list has each member at the place that the number
of those before it gives, and a filtered list takes the entries at the places of the
set, which is what the library sorts and iterators of the code come to.

- `RuleEngine` (`rules.rs`, `load_rules`, `config_reload`): the problems of a rules
  file, the stable sort, evaluation with `stop`, reloading. `RulesInOrder`: windows
  are assigned by the rules of the last right file in the order its author gave
  them, with the configuration of the same reload, or by the old pair.
- `Queries` (`search.rs` `resolve`, and the actor's answer): exact slug, unique
  prefix, decisive score. `NeverGuesses`: a match is one of these three, otherwise
  every project that may be meant is among the candidates; and the order of the
  daemon's list decides nothing. Scores are the fuzzy matcher's (a library): inputs.
  Where all scores are 0 the ratio decides nothing; the property excepts it
  (section 5).
- `LaunchText` (`capture.rs`, `settings.rs`, `slot_update`, `build_shell_command`,
  `fallback_launch`): launch settings from `/proc` through the settings window and
  `slot.update` to the shell, with three quotings on the way. Text is pieces
  separated by blanks, and a line is words, quoted or not: what a shell tells
  apart. `CaptureRunsAgain`: a captured window runs again by the words `split_cmdline`
  makes of its arguments, with its profile and tabs, however often it is shown,
  detected and saved; several arguments of which none is empty are run exactly as they
  were. Empty ones are lost (section 5). `UneditedSaveHarmless`:
  saving what the window shows changes nothing of what a restore runs.
- `SessionLog` (`snss.rs`): a browser (external) that journals windows and tabs, and
  the reader's replay. `BrowserTabsTaken`: a capture takes the pages that are open
  in the window and can be launched (`is_launchable`), in strip order, after any opening, moving, going back and closing,
  if no other window shows a page of the same title.

Abstractions: a needle is the set of values it accepts and whether it compiles;
`split_cmdline` drops empty arguments, and one argument with blanks that is left is
taken for a command line rewritten in place, both as the code does; `argv[0]` with characters the shell expands, but
no blanks, is not quoted by the code and not among the inputs; journal records that
cannot be decoded, the unread marker and the browser's name in titles are left out.

### DocumentedClaims.tla

`KeptUntilHydrated`, a sentence of the repository the state actor does not live up
to; `FallbackKept`, another, is in `Tools`. Section 5.

### MC modules and .cfg files

`MCStateActor` (rule sets, importable definitions, symmetry), `MCReconcile` (the
agreements that differ in score), `MCLaunchWaves` (lists of bounded length),
`MCRestore` (small projects), `MCTools` (inputs of the pure parts). `HyprSync`,
`PanelSync`, `PanelRail` and `StateFiles` need only values in their .cfg.

## 3. What the runs check, and their bounds

| run | instance | shows |
|---|---|---|
| `recovery` | one window with a stable id, one slug, two ids, a rule, forced imports, two runs, one restart | precedence, release of windows, saved entries, the whole inductive invariant with the restore guard |
| `groups` | two slugs, a group and a rule that names it, two ids | files, groups that move |
| `launch_waves` | three slots, three names, lists of at most two names: every project | all of `LaunchWaves` |
| `reconcile` | two slots, two windows, every agreement that differs in score, all ownerships | all of `Reconcile` |
| `restore` | a run of four slots (a probed one, two windows of one class after it, a fourth slot after both) with adoptions, another run whose first slot cannot be launched and whose second wants the same class, two windows, one lag | all of `Restore`, `KeepsContract`, a run ends unless a probe of its slots hangs |
| `hyprsync` | two windows, two workspaces, any two changes, one loss of the connection, one failed request, one save, from every initial state | all of `HyprSync`, `Settles` |
| `panel_sync` | an announcing event and a noisy one, a bus and a socket of one, two changes, three events, two requests, one end of the daemon | all of `PanelSync`, `SettlesFresh` |
| `panel_rail` | three projects or fewer, one drag, one command or one crash, any failing writes, reorders of at most two slugs, from files that predate positions or one edited to the largest | all of `PanelRail`, `Collapses`, `SettlesOnActorsOrder` |
| `durability` | three changes (a next start is one), one failed write, one end (stop, crash or loss of power), debounce 1, interval 2 | all of `StateFiles`, `AtomicFiles` |
| `tools` | any two rules or three right ones; any three projects; command lines of two arguments, empty ones among them; six changes of a browser with three tabs, two windows and two pages, one of them launchable | the properties of the pure parts |
| `claim_kept`, `claim_fallback` | the smallest instance that shows each claim of section 5 | shortest behaviour against the claim |

Why this is enough for model checking. StateActor: a window's annotation depends on that
window and on projects and files, never on another window, so one window shows
what several could do (their only link is the recovery key, and stable ids are
unique); two ids are one project and its successor under the same slug, or two
projects at once; two runs are one that outlived its project and the next of the
same slug; a second restart starts from files the first one could start from.
`LaunchWaves`: three slots make every shape of dependency a step of the loop can
meet (chain, fork, join, cycle with a tail), a list of two names a repeated one.
`Reconcile`: greedy choices conflict between two slots or two windows, never
more. `Restore`: the diamond has a join of two failures and a slot after a skipped
one; with two windows three slots compete and one must time out; two runs share
only the bus. `HyprSync`: an event that is replayed wrongly needs one change before
the dump and one after it, and a second window only for the focus. `PanelSync`: a
snapshot crosses one change on its way, a second one comes during the fetch, a
third event fills the bus; capacities of one make every write block and every
second unread event drop one; with one end there are two lives and a
reconnection, and the requests of one life reach the next. `PanelRail`: the rows of
one drag and a list that is late, refused or of other projects; three rows are the
fewest in which putting back one row differs from putting back the order.
`StateFiles`: three versions in memory, on the way and on disk, one failure
anywhere, and a next start from each state of the disk. `tools`: a tie, a `stop`
and a priority need two rules, the order between them a third; a decisive score
needs two projects, a tie behind it a third.

The proofs need none of these bounds. `MaxRuns`, `MaxRestarts`, `MaxLags`,
`MaxChanges`, `MaxDrops`, `MaxFailures`, `MaxSaves`, `MaxStamp`, `MaxSeq`,
`MaxAsked`, `MaxStops`, `MaxDrags`, `MaxUpsets`, `MaxListed`, `MaxUpdates`,
`MaxVersion`, `MaxTime`, `MaxNoise`, `MaxBurst` and `MaxEnds` bound the models only. `MaxNoise` is
also less than the bus holds, which is an assumption about the environment. Deadlock
is not checked where the system may stop: a daemon with no ids and restarts left and
nothing tracked, an algorithm or a run that ended, a compositor in which nothing
changes any more, a panel whose user and daemon rest, a question answered.

Fairness. `StateActor`, `LaunchWaves`, `Reconcile`, `StateFiles` and the pure parts
assume none: their properties are safety properties, and the bounded save is one
because time is in the model. For `Restore`, `TaskFairness` says that the main
task and the step tasks go on when they can: tokio runs ready tasks, and a
waiting task can always go on because its deadline passes. Nothing is assumed of
probe commands: `RunsEnd` says of a run that it ends or one of its own probes hangs
(section 5). For `HyprSync`, weak fairness of `Connect` (the pump reconnects for ever, with a bounded
delay), `TaskStep` and `SaveRefresh` (tokio runs ready tasks, and the compositor
answers or the request fails); none of changes, drops, failures or saves, which are
the environment's. `Settles` rests on there being finitely many of these: a
compositor that changes faster than the daemon reads keeps it busy. For
`PanelSync`, weak fairness of the server's end, the actor and the panel's thread
(two tasks and a thread, each a loop), and of `Exit` and `Start`: a daemon that stops
ends, and the service manager starts the next. For `PanelRail`, of taking a
request, of the writes and the end of a reorder (the actor's loop), of `Fetch` and
`Rebuild` (what `PanelSync` establishes), `TimerFires` (the toolkit's main loop) and of
the end of a drag (the toolkit ends every drag it began). Four of these conditions
are written as the change of the variable that the action makes, which TLC evaluates
faster; a crash makes some of these changes too, and crashes are finitely many. Users, pointers, compositors and
failures owe nothing.

## 4. What is proved

All theorems hold for all values of the constants.

### StateActorProofs.tla

For any number of windows, projects, groups, rules, runs and restarts:

- `Invariance`: `Spec => []IInv`, and from it one theorem per invariant above;
- `PrecedenceHolds`: `Spec => PrecedenceRespected`.

The argument: `IInv` is regrouped (`PartsForm`) into predicates over the pieces
a handler changes: `ProjectsOK`, `WindowsOK` (per window: `Sound` and
`GroupSound`), `RuntimeOK`, `RunsOK`. Lemmas say what each operator of the model
returns (`InheritSound`, `SyncedOK`, `RuledSound`, `RecoveredSound`,
`RuntimeOfOK`, `ReleasedOK`, `WindowsKept`, `ProjectReplaced`, `GroupMoved`, ...).
Two frame lemmas, `WindowStep` and `ProjectStep`, say what a handler owes the
invariant, and there is one step per action on top of them.

Why strengthening is needed: `OnlyRestoreDangles` alone is not inductive. A new
project could be given the id a dangling annotation still names, and the
annotation would then be one of its own. `IdsSpent` rules this out: every id in
use was handed out, and a new one was not. `GroupMoved` needs unique ids, and
`RuntimeNamesLiveProjects` needs that deletion saves and that files match memory
(a restart resumes with the files).

Assumptions: `NULL` is not a value of anything else; imported definitions and
rules are well-formed; the bounds are naturals. What the proofs rest on in the
code: ids are never repeated (`Uuid::new_v4`), and handlers are not interleaved
(one task owns the actor).

### RestorePlanProofs.tla

`LaunchWaves` (`Spec`), for any slots, names and lists. The loop invariant `Loop` adds to the
properties what the code never states: the wave being peeled holds exactly the slots
none of whose list entries is still open (`ReadyIsFree`), and each of them depends on
the wave before (`ReadyIsDue`). With exact counters a slot is freed exactly when its
last dependency is placed, so `DependenciesFirst`, `NoNeedlessWait` and `EachOnce`
hold at the step that appends a wave. `VerdictExact` needs one invariant more,
`NeverPlaced`: no slot of a circular set is ever placed; and at the end the slots
left over each depend on another left over.

`Reconcile` (`MatchSpec`), for any slots, windows and scores. Pairs are visited in order
(`VisitedFirst`: what was visited precedes what was not), and a visited pair that is
not in the matching met one that is and precedes it (`PassedOver`); at the end all
pairs were visited, which is `NoBetterPairLost`.

### RestoreProofs.tla

For any number of runs, slots, windows and lags. `Inv` adds to the properties:
`WindowsGiven` (a slot has a window exactly when its status says so), `OnTime`
(a slot's status goes with the phase and wave of its run), `Phases`, `Distinct`
(two slots of a run are never given one window), `Recorded` and `Counted` (what
`failed` and `completed` hold in the middle of a wave). They are needed:
`DependenciesSettled` is kept by `Spawn` only because `failed` is exactly the
labels of the earlier waves' failures, and because a slot's label is its name
whenever something can name it; `RegistryExact` is kept by `Receive` only because
a window missing from the registry is no fellow slot's. There is one lemma per
action, over `TaskMoves` and `NoWindowMoves`, which say once what a task that
moves on leaves alone. `Refinement` maps every step to one of `RestoreContract`
or to none: `TurnsBad`, `TurnsReady`, `GoesOn` and `NothingDecided` are the four
ways a step can look from there.

Assumptions: the plan's waves respect dependencies (`WaveAssumption`, proved of
the planner as `WavesRespectDependencies`), labels are names where there are
names (`AppSlot::label`), and a project has finitely many slots.

### HyprSyncProofs.tla

For any number of windows, workspaces, changes, losses, failures and saves.
Whatever the daemon holds about a window, or is about to hold, is right unless an
event that will correct it is still on its way (`StillThere`, `StillGone`,
`StillAt`, `StillFocused`), and of these events the last is right (`StreamRight`).
Convergence is this with nothing on its way. `KnownRight`, `DumpRight` and
`FoundRight` say it of the tracked windows, of a dump in the task's hands and of
a window looked up; it is claimed only while nothing but events lies between
(`Following`), since a queued `Connected` will replace everything. `Announced` is
needed for that: a connection that was lost and is back always has its
`Connected` queued. A close event needs a part of its own (`StillUnfocused`):
handling it must not clear a focus that is right.

One lemma covers all changes of the compositor: events that tell all that changed
(`Says`) keep every belief right if they join what is still to come
(`StillTrue`); a change adds one event, or two when the focused window closes.
Then one lemma per action of pump, saves and task.

Assumptions: `NULL` is no other value, and the bounds are naturals.

### StateFilesProofs.tla

First the files by themselves, for any files and contents, and whatever a caller
writes. `FileInv` is `TypeOK`, `NeverTorn` (neither a path nor anything it may become
after a loss of power is a part of the bytes) and `WriterKnows` (between write and
rename the temporary entry holds the bytes, and before the rename its data is on
the disk). The last part is what makes it inductive: the rename adds to `kept`
whatever of the temporary entry the disk has. `FilesNeverTorn` follows, and
`WritesAreAtomic`: every step, every failure of one, every crash and loss of power
is a step of `AtomicRegister` or changes no file.

Then the daemon over them, for any debounce and interval, any bus, any number of
changes, failures and ends: `FilesTyped`, `SavesInTime`, `SavesKeepOrder`,
`GroupInOneFile`, and `DaemonWritesAreAtomic` (`FileSteps`: the daemon moves the files
only as `AtomicWrite` does). `StateInv` adds to `FileInv`:

- `Work`: a handler's writes still to come, told by their number. One left is
  `runtime.json` with the version in memory, two are that and the project that gets
  the group, three are those and the one that loses it. With `Lifetime` (an idle
  actor writes nothing) this says at every point what the file being written is.
- `Versions`: whatever `runtime.json` may be after a loss of power lies between what
  was returned and what is at the path, and that is no newer than the memory of the
  process, if there is one, or than the last version made. `SavesInOrder` speaks of
  the path only and is not inductive without `kept`.
- `OneFile`: no loss of power can make both projects' files list the group; before
  the destination is told to, the source no longer can, after any loss of power. This is why
  the order of `group_move`'s writes matters, and that each of them syncs.
- `Clock`: autosave's deadline is no later than the interval after it became dirty,
  and time does not pass it.
- `Waits`: why what was announced or saved, and the file lacks since `waiting`, will be
  in it in time (`Covered`): its write is under way or asked for; or autosave has been
  dirty since no later than it; or it is of this moment and announced, by an event the
  bus cannot have dropped (`Announced` counts the events after it, which `MaxNoise` bounds).
  `SavedWithin` follows by `Clock`.

Assumptions: the marks for "no file" and "some other bytes" are no contents, and
versions are; fewer events of no interest reach the bus between two times
autosave empties it than it holds (`NoiseAssumption`, section 5). In the code: one
writer per file (the lock of the instance), directories that exist, one task that
owns the actor.

### PanelRailProofs.tla

For any slugs, and any number of drags, commands and lists on their way:
`RailTyped`, `DivergeInDragOnly`, `FilesKeepOrder`, `ReorderKeepsPromise`. The
invariant `RailInv` adds to the properties that the actor's list is in order, unless a
position overflowed, and has no slug twice (`ListInv`); that each project's file says,
or the last write still to come for it will say, what the list does, unless a write
failed (`FilesInv`, `Written`, which a crash keeps because the next list is what the
files load as); and that every list of rows on its way or shown has
none twice and that the rows on screen are the committed ones, in another order only
during a drag (`RowsInv`). What they rest on is what the operators compute:

- sorting: `OrderExists` and `OneOrder`, there is exactly one list in order of a
  finite set of projects, so that what `Loaded` chooses is it (`LoadedFacts`), and a
  list in order is what its files load as (`SortedIsLoaded`);
- `ReorderedFacts`: no two projects get one position, the listed ones get those
  below the length of the order and the others' rise as their places did, whatever
  ties and gaps there were; from this the list in order is what `Promised` says;
- `WritesFacts`: of each project the reorder moved, the last record in `Writes` is the
  one in the list, and of the others there is none;
- `MoveRowFacts` and `ShuffleBackRestores`: moving a row keeps the rows and those
  before both its places, so that after the k-th move of `ShuffleBack` the first k
  rows stand as in the target, and after the last one all do.

Where an argument goes by induction over numbers (the moves of `ShuffleBack`, the
lists in order of sets of each size) it takes the least number for which the claim
fails, which exists by `WFMin` of the library (`Least`, for numbers), and refutes
it from the one before.

Assumptions: slugs are finitely many numbers, ordered as slugs are; a number is the
largest position.

### PanelSyncProofs.tla

For any events, requests of the user, capacities of the bus and the socket, and
any number of changes, losses and ends of the daemon: `QuietIsFresh`,
`CopiesRise`, `RepliesOwed`, `RequestsInOrder`, and `TypeCorrect`. `Inv` has nine
parts, and none of the four properties is inductive without several of them:

- `Ends`: what a connection that is not up has left (nothing served, nothing
  subscribed; no notes once the client has seen the loss).
- `Ids`: ids are used once and are in order from the socket to the panel, through
  `serving`, to the lines still to be served (`InLine`); id 1 is the subscription,
  and until it is served the first snapshot's line and note are still there
  (`Opening`); every note is owed a reply (`OwedReplies`).
- `NotesKnown`: what runs under a snapshot's note is a request for a snapshot, and
  a running daemon does not refuse it. Without this a refusal could take the note
  and leave the interface stale.
- `BusInOrder`: announcements are dropped, kept and made in the order of changes.
  So once the last one is dropped no older one can take its place in `lost`.
- `Rising`: copies on their way are in order of age, none older than what is
  shown, none newer than the state. `NeverOlder` is the step of this part.
- `Fresh`: the last announced change is shown, or its announcement was dropped,
  or it is still on its way in one of three forms (`Covered`): an event in the
  inbox; an event line no stale copy of which would be left to read after it
  (`Heralds`); or a noted snapshot that is to be taken, or was taken, late enough
  (`Coming`). When a line that heralds is read while a fetch is under way, the
  client drops it; the owed reply is then a copy that is fresh enough, which takes
  `OwedReplies`, `NotesKnown` and `Heralds` together.
- `InTurn`: the numbers of the requests rise from `handled` through `serving` and
  the lines to `outbox`.

There is one lemma per part, over lemmas that say what reading and writing a line
leaves where it was (`PanelReads`, `PanelGets`, `ServerTakes`, `ServerGets`,
`EmitInbox`) and frame lemmas for the steps that touch little (`IdsFrame`,
`NotesFrame`, `RisingFrame`, `CoverFrame`).

Assumptions: the bus and the socket hold at least one entry (the bus is made with
256; a Unix socket has a buffer), and a request of the user is neither the
subscription nor the fetch the client makes itself (`UiRequest` has no such
request). In the code: one socket keeps its lines in order, one loop serves a
connection and waits for each answer.

### ToolsProofs.tla

The five properties of `Tools`, for any inputs that its assumptions admit:
`RulesAlwaysInOrder`, `QueriesNeverGuess`, `CapturesRunAgain`, `SavesAreHarmless` and
`CapturesOwnTabs`.

A question never changes (`Asked`), so the first four are facts about what the
operators compute. They rest on what a sort and a filter give: `SortedFacts` (each
member once, at its rank), `SortedUnique` and `OnlyUnique` (any list that has the
members in the order is that list), `OnlyConcat` (filtering a list is filtering its
parts). No fact is got by induction, which the provers cannot use; where one would
use it, `Least` gives the least number at which a claim fails, and the step from the
number before refutes it.

- Rules: `RankedInOrder` shows that evaluating the sorted rules up to the first `stop`
  gives what the author's order promises; `ReloadsWhole` adds that a file with a
  problem changes nothing.
- Queries: `ResolveAnswers` lists the six answers, each in terms of sets of projects.
  For `OrderFree`, `Means` says which project a query means without naming the list's
  order, and `AnsweredByMeaning` that exactly this project is the answer.
- Launch settings: `SplitWhole` (arguments of which none is empty and there are several
  stay as they are), `RunsConcat` (a line runs what its parts run), `RunsEach` and
  `ProfileMoved` follow a command line through quoting, showing, detecting the
  profile and saving; `ShownRuns` and `SavedSame` put them together.
- The browser has steps. `TakesOwnTabs` is not inductive: it says what the replay of
  the journal gives and nothing of what the next command does to it. `Replayed`
  sorts the commands into classes (those that place a tab, that place tabs in a
  window, that record an entry of a tab, that select, that close) and says of each
  class what its last command is (`Says`) or that it has none (`Silent`): this is
  what a replay that overwrites its maps ends with, so each of them is tied to the
  browser's state (`TabsRead`, `PagesRead`, `WindowsRead`). It also needs what the
  replay must not find: a tab or a window that is closed was closed after all that
  was said of it (`TabsGone`, `WindowsGone`), one not yet opened was never mentioned
  (`NotYet`), and entries of a tab's history that it went back from and lost stay
  recorded beyond its selected one (`PageRead`). One lemma per action keeps it, over
  `Appended` (what writing commands does to each class). `CapturesTabs` then reads
  the reader's strips off it. TLC checked `Replayed` over six changes before.

Assumptions: rules have whole numbers for priorities; a project is listed once and
at most one has the slug that was typed; the arguments of a process are any words,
empty ones too, or cannot be read; what is left for it to run is a word without blanks
that the shell leaves alone, or one with blanks, which is quoted; a page's address
is no profile option, and a profile has a name, which its option determines;
`None` and `Absent` are values of nothing else. Of the browser: it does not use ids
of tabs and windows again.

### Only model-checked

Liveness (`RunsEnd`, `Settles`, `SettlesFresh`, `Collapses`, `SettlesOnActorsOrder`),
which the prover does not reach, and the claims of section 5 (`KeptUntilHydrated`,
`FallbackKept`), which do not hold. Every invariant and action property of a
passing run is stated by a theorem.

## 5. Where code and documentation disagree

Two are runs that TLC must find violated, and findings in `PROJECT.json`.

| claim | what happens |
|---|---|
| `KeptUntilHydrated` | a save before the first hydration empties `runtime.json` |
| `FallbackKept` | a slot without launch settings is shown by the bare path of its executable; saved as shown, a path with blanks becomes several words |

Further divergences the models reproduce, without a run of their own. State actor
and restore:

- a run that outlives its project assigns windows to it
  (`workspace-daemon/src/actor.rs:372`); `OnlyRestoreDangles` makes the exception
  explicit;
- a restore correlation replaces a manual assignment ("never overridden",
  `workspace-core/src/world.rs:61`); `PrecedenceRespected` makes it explicit;
- forced import of the active project leaves an active id that is gone
  (`actor.rs:1111`, "the active project, if any", `world.rs:123`);
- a reconnect makes the last session's active project active again;
- `project.restore` and recovery set the active project and emit no
  `ProjectSwitched`, so the panel shows it only after some other event;
- a rule named `inherited`, `manual` or `restore` changes its source over a
  restart, because both are one string in `runtime.json` (`actor.rs:808`);
- a save captures, and a restore adopts, windows of the project's workspaces
  that are assigned to other projects (`actor.rs:914`, `restore.rs:199`);
- a probe command that does not return hangs its run for ever, and its slug cannot be
  restored again (`workspace-daemon/src/launcher.rs:725`; "never hung on",
  `launcher.rs:10`): `RunsEnd` is claimed of the other runs only;
- a service with the default readiness waits for a window and claims one
  ("never matched to a window", `model.rs:246`);
- a slot the plan drops for want of a launch command does not hold back those
  after it ("must be ready before", `model.rs:234`);
- an initial class and a title pattern together reach the matching threshold
  (a title is a "tie-breaker only", `model.rs:269`);
- two runs can claim one window, because a registry is per run
  (`launcher.rs:92`); an unnamed slot's class can be taken for another slot's
  name when dependents of a failure are skipped.

Hyprland task:

- a fullscreen event queued during a dump marks the window that has the focus
  since (`actor.rs:522`);
- a save puts a window back where it was when the clients were fetched
  (`actor.rs:595`), and nothing is synced afterwards; `PlacesConverge` excepts it;
- `hydrate` does not set the focused workspace.

Panel, server and files:

- the server expects a client to notice a gap in `seq` and query again
  (`server.rs:85`); `client.rs` never looks at `seq`, so a dropped announcement that
  nothing follows leaves the panel stale: the exception in `FreshWhenQuiet`;
- requests made while the panel is disconnected are executed after the
  reconnection, and one taken while the socket closes is lost;
- a drop commits the row order before the daemon has confirmed it
  ("daemon-confirmed order", `workspace-panel/src/main.rs:202`); it settles later;
- a second reply to `Get` repopulates the settings window over edits, and a
  `project.save` gives slots new ids, so that edits of an open window are refused;
- autosave passes over `Lagged` and may miss a change among more than 256 unread
  events; the next change saves it (`NoiseAssumption`);
- a hydration drops windows and applies recovery with neither a save nor an event
  (`workspace-daemon/src/actor.rs:261`), so that what it changes is saved with the next
  change, however late that comes (`autosave.rs:1-3` speaks of "events" only);
  `SavedWithin` leaves it out;
- `project_reorder` writes the files it changed one after another (`actor.rs:2064`), so
  a crash between two of them leaves an order that is neither the old nor the new one,
  and a write that fails is only logged;
- `next_position` is computed in `u32` (`actor.rs:2021`): with a position edited to the
  largest a build with overflow checks panics and another puts the new project at 0,
  first after a restart ("after everything else", `actor.rs:2015`); the models take the
  second, and the two properties except it;
- a crash between the two writes of `group_move` loses the group, and a failed first
  one leaves it in both files; a deleted
  project's file may be back after a loss of power, as the directory is not synced;
- `match_window` returns an arbitrary window where several match
  (`workspace-daemon/src/snss.rs:35` says none), which `BrowserTabsTaken` excepts;
- a captured command line loses its empty arguments, and a single argument with blanks
  that is left is split at them (`workspace-daemon/src/capture.rs:107`, which describes
  only Chromium's shape): `CaptureRunsAgain` is about the words that this gives;
- a query whose pattern is empty scores 0 with everything and is then decided by
  0 ≥ 1.5 × 0 (`workspace-core/src/search.rs:83`, "rather than guessed").

## 6. Plan

Done, with proofs where section 4 says so: **StateActor**; **LaunchWaves**,
**Reconcile**, **Restore** with **RestoreContract**; **HyprSync**; **PanelSync**;
**ProjectOrder** with **PanelRail**; **AtomicRegister**, **AtomicWrite**,
**StateFiles** (with `group_move`'s two writes, failures, autosave and shutdown);
**RuleEngine**, **Queries**, **LaunchText**, **SessionLog** with **Tools**. Every safety
property a run checks is proved.

Left, most important first:

1. The tiled layout pass of a restore run, VS Code folders in a capture,
   `project_rename`, the registry of workspaces and monitors.
2. The single-instance lock, if it grows past one call of the kernel.

Not modelled, and not planned: the order of dispatches to the compositor (hide,
show, rules and restores dispatch from tasks of their own and nothing orders them,
so no property could hold); rendering and widgets, parsing of TOML, JSON and
command lines, `/proc` inspection, the update download, the command line client,
the configuration's defaults, the empty registry of migrations.

Liveness under fairness stays with TLC; no module declares a `RECURSIVE` operator, so
that all of them can be proved about.
