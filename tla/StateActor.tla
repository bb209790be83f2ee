----------------------------- MODULE StateActor -----------------------------
(***************************************************************************)
(* The single-writer state actor of the daemon                             *)
(* (crates/workspace-daemon/src/actor.rs) together with the state files it *)
(* writes and reloads (crates/workspace-storage).                          *)
(*                                                                         *)
(* The actor takes one command at a time from a channel, so every handler  *)
(* is one atomic action.  What surrounds it is nondeterministic: Hyprland  *)
(* may report any window on any workspace, clients may send any request,   *)
(* a restore run may correlate any window, and the daemon may stop between *)
(* any two commands and be started again.                                  *)
(*                                                                         *)
(* Abstracted: window facts other than the workspace, display names, sort  *)
(* positions and launch data (an app slot is the group it belongs to), the *)
(* resolution of a query to a project (any project may be meant), and the  *)
(* compositor's side of a dispatch, which comes back as a MoveWindow or    *)
(* CloseWindow event.  State files are written whole and without error.    *)
(***************************************************************************)
EXTENDS Naturals, FiniteSets

CONSTANTS
  Windows,      \* window addresses, the keys of World.windows
  StableIds,    \* Hyprland's stable window ids
  Slugs,        \* project slugs
  Groups,       \* group slugs
  Ids,          \* project ids; a new project takes one never used before
  Imported,     \* the project definitions that may be imported
  Rules,        \* compiled rules: records [name, project, group]
  MaxRuns,      \* how many restore runs are in flight at once (bounds the model)
  MaxRestarts,  \* how often the daemon is started again (bounds the model)
  NULL          \* Rust's None

ASSUME NullAssumption == /\ NULL \notin Slugs \cup Groups \cup Ids \cup StableIds
                         /\ NULL \notin Rules
                         /\ NULL \notin {"Manual", "Restore", "Rule", "Inherited"}

ASSUME ImportedAssumption ==
  \A d \in Imported : /\ d \in [groups : SUBSET Groups, hidden : SUBSET Groups,
                                apps : SUBSET (Groups \cup {NULL})]
                     /\ d.hidden \subseteq d.groups

ASSUME RulesAssumption ==
  \A r \in Rules : r.name # NULL /\ r.project \in Slugs /\ r.group \in Groups \cup {NULL}

ASSUME BoundsAssumption == MaxRuns \in Nat /\ MaxRestarts \in Nat

VARIABLES
  windows,      \* World.windows: address -> tracked window, NULL if untracked
  projects,     \* StateActor.projects
  active,       \* World.active_project
  hydrated,     \* StateActor.hydrated_once
  restoring,    \* StateActor.restoring: slugs with a restore run in flight
  runs,         \* the restore runs (launcher::execute tasks) in flight
  recovery,     \* StateActor.recovery: runtime.json as loaded at start
  runtime,      \* runtime.json
  disk,         \* the project files
  spent,        \* project ids handed out so far
  restarts      \* number of daemon restarts so far

live == <<windows, projects, active, hydrated, restoring, runs, recovery>>
vars == <<windows, projects, active, hydrated, restoring, runs, recovery,
          runtime, disk, spent, restarts>>

-----------------------------------------------------------------------------
(* Values *)

GroupOpt == Groups \cup {NULL}

\* What ws_names::parse makes of a workspace name: not ours, a project's
\* primary workspace (group NULL) or the parking workspace of a group.
Foreign == [project |-> NULL, group |-> NULL]
Places  == {Foreign} \cup [project : Slugs, group : GroupOpt]

\* A window's assignment and where it came from (assignment, assigned_by).
Sources     == {"Manual", "Restore", "Rule", "Inherited"}
RuleNames   == {r.name : r \in Rules}
Annotations == [pid : Ids \cup {NULL}, group : GroupOpt,
                by : Sources \cup {NULL}, rule : RuleNames \cup {NULL}]
Unassigned      == [pid |-> NULL, group |-> NULL, by |-> NULL, rule |-> NULL]
Mark(p, g, src) == [pid |-> p, group |-> g, by |-> src, rule |-> NULL]

TrackedWindows == [ws : Places, sid : StableIds \cup {NULL}, asg : Annotations]
ASSUME TrackedAssumption == NULL \notin TrackedWindows
Tracked(ws)    == {w \in Windows : ws[w] # NULL}

\* A project: its groups, those of them marked hidden, and the groups its app
\* slots belong to.
ProjectType == [id : Ids, slug : Slugs, groups : SUBSET Groups,
                hidden : SUBSET Groups, apps : SUBSET GroupOpt]
NewProject(i, s, d) == [id |-> i, slug |-> s, groups |-> d.groups,
                        hidden |-> d.hidden, apps |-> d.apps]
SlugsOf(ps) == {p.slug : p \in ps}
IdsOf(ps)   == {p.id : p \in ps}
Replace(ps, p, q) == (ps \ {p}) \cup {q}

-----------------------------------------------------------------------------
(* Persistence *)

\* RuntimeAssignment.source: a rule is saved under its own name.
SavedSource(asg) == CASE asg.by = "Manual"    -> "manual"
                      [] asg.by = "Restore"   -> "restore"
                      [] asg.by = "Inherited" -> "inherited"
                      [] OTHER                -> asg.rule

\* ... and read back: three names are reserved, every other one is a rule.
ReadSource(pid, group, source) ==
  CASE source = "manual"    -> Mark(pid, group, "Manual")
    [] source = "restore"   -> Mark(pid, group, "Restore")
    [] source = "inherited" -> Mark(pid, group, "Inherited")
    [] OTHER -> [pid |-> pid, group |-> group, by |-> "Rule", rule |-> source]

SavedSources == {"manual", "restore", "inherited"} \cup RuleNames
RuntimeType  == [active : SUBSET Slugs,
                 saved  : SUBSET [key : Windows \cup StableIds, project : Slugs,
                                  group : GroupOpt, source : SavedSources]]
EmptyRuntime == [active |-> {}, saved |-> {}]

\* The key of a window in runtime.json: its stable id when known.
RecoveryKey(ws, w) == IF ws[w].sid # NULL THEN ws[w].sid ELSE w

\* What persist_runtime writes: the active project's slug (none or one) and
\* every annotation whose project still exists.
RuntimeOf(ws, ps, act) ==
  [active |-> SlugsOf({p \in ps : p.id = act}),
   saved  |-> {[key |-> RecoveryKey(ws, m[1]), project |-> m[2].slug,
                group |-> ws[m[1]].asg.group, source |-> SavedSource(ws[m[1]].asg)] :
               m \in {x \in Tracked(ws) \X ps : ws[x[1]].asg.pid = x[2].id}}]

\* mutant: the snapshot is taken before the handler's changes
PersistTooEarly == runtime' = RuntimeOf(windows, projects, active)
PersistRuntime == runtime' = RuntimeOf(windows', projects', active')

\* save_project: the file is named by the slug; delete_project removes it.
Save(files, p)  == {f \in files : f.slug # p.slug} \cup {p}
EraseNothing(files, s) == files   \* mutant: the file is left behind
Erase(files, s) == {f \in files : f.slug # s}

-----------------------------------------------------------------------------
(* Annotating windows *)

\* The project a workspace belongs to; a parking workspace only counts when
\* its group exists.
Homes(ps, place) == {p \in ps : p.slug = place.project /\ place.group \in p.groups \cup {NULL}}

\* sync_inherited_assignment: only windows nobody claimed follow their workspace.
Inherit(ps, place) ==
  IF Homes(ps, place) = {} THEN Unassigned
  ELSE Mark((CHOOSE p \in Homes(ps, place) : TRUE).id, place.group, "Inherited")
AlwaysUnclaimed(asg) == TRUE      \* mutant: sticky sources follow too
Unclaimed(asg) == asg.by \in {NULL, "Inherited"}
Synced(ps, win) ==
  IF Unclaimed(win.asg) THEN [win EXCEPT !.asg = Inherit(ps, win.ws)] ELSE win

\* apply_rules, where rule is the first one that matches (NULL: none does).
\* The rule's project must exist; its group is not looked up.
RuleTargets(ps, rule) == IF rule = NULL THEN {} ELSE {p \in ps : p.slug = rule.project}
Ruled(ps, asg, rule) ==
  IF Unclaimed(asg) /\ RuleTargets(ps, rule) # {}
  THEN [pid |-> (CHOOSE p \in RuleTargets(ps, rule) : TRUE).id, group |-> rule.group,
        by |-> "Rule", rule |-> rule.name]
  ELSE asg

\* apply_recovery for one window: an entry of the loaded runtime.json under
\* its key whose project exists; only for a window without an assignment.
Recoverable(ps, key) ==
  {m \in recovery.saved \X ps : m[1].key = key /\ m[2].slug = m[1].project}
Recovered(ps, key, asg) ==
  IF asg.by # NULL \/ Recoverable(ps, key) = {} THEN asg
  ELSE LET m == CHOOSE x \in Recoverable(ps, key) : TRUE
       IN ReadSource(m[2].id, m[1].group, m[1].source)

\* Annotations of windows assigned to a project that goes away.
ReleaseNone(ws, pid) == ws        \* mutant: assignments are kept
Released(ws, pid) ==
  [w \in Windows |-> IF ws[w] # NULL /\ ws[w].asg.pid = pid
                     THEN [ws[w] EXCEPT !.asg = Unassigned] ELSE ws[w]]

\* group_members, and the same windows given another annotation's project.
Members(ws, pid, g) == {w \in Tracked(ws) : ws[w].asg.pid = pid /\ ws[w].asg.group = g}
ReassignNone(ws, S, pid) == ws    \* mutant: members stay with the source
Reassigned(ws, S, pid) ==
  [w \in Windows |-> IF w \in S THEN [ws[w] EXCEPT !.asg.pid = pid] ELSE ws[w]]

\* on_project_workspace
OnProject(place, p) == place.project = p.slug

\* World.upsert_window: facts are replaced, a known stable id is never erased,
\* the annotation stays.
Upserted(w, sid, place) ==
  IF windows[w] = NULL THEN [ws |-> place, sid |-> sid, asg |-> Unassigned]
  ELSE [ws |-> place, sid |-> IF sid # NULL THEN sid ELSE windows[w].sid,
        asg |-> windows[w].asg]

-----------------------------------------------------------------------------
(* Commands from the Hyprland task *)

\* Two live windows never report the same stable id.
DistinctIds(f) == \A v, w \in DOMAIN f : v # w /\ f[v].sid # NULL => f[v].sid # f[w].sid
Dumps == {d \in UNION {[D -> [ws : Places, sid : StableIds \cup {NULL}]] : D \in SUBSET Windows} :
            DistinctIds(d)}

\* Command::Hydrate: World.hydrate, apply_recovery, then every window inherits.
Kept(w) == IF windows[w] = NULL THEN Unassigned ELSE windows[w].asg
Hydrate(dump) ==
  LET key(w) == IF dump[w].sid # NULL THEN dump[w].sid ELSE w
      base   == [w \in Windows |->
                   IF w \notin DOMAIN dump THEN NULL
                   ELSE [ws |-> dump[w].ws, sid |-> dump[w].sid,
                         asg |-> Recovered(projects, key(w), Kept(w))]]
      last   == {p \in projects : p.slug \in recovery.active}
  IN /\ windows' = [w \in Windows |-> IF base[w] = NULL THEN NULL ELSE Synced(projects, base[w])]
     /\ active' = IF active = NULL /\ last # {} THEN (CHOOSE p \in last : TRUE).id ELSE active
     /\ hydrated' = TRUE
     /\ UNCHANGED <<projects, restoring, runs, recovery, disk, spent, restarts>>
     /\ IF windows' = base THEN UNCHANGED runtime ELSE PersistRuntime

\* HyprEvent::OpenWindow carries no stable id and runs neither rules nor sync.
OpenWindow(w, place) ==
  /\ windows' = [windows EXCEPT ![w] = Upserted(w, NULL, place)]
  /\ UNCHANGED <<projects, active, hydrated, restoring, runs, recovery, runtime, disk, spent, restarts>>

CloseWindow(w) ==
  /\ windows[w] # NULL
  /\ windows' = [windows EXCEPT ![w] = NULL]
  /\ UNCHANGED <<projects, active, hydrated, restoring, runs, recovery, runtime, disk, spent, restarts>>

\* Persist only when the annotation of w changed.
PersistIfMarked(w, asg) == IF windows'[w].asg = asg THEN UNCHANGED runtime ELSE PersistRuntime

\* HyprEvent::MoveWindow for a tracked window.
MoveWindow(w, place) ==
  /\ windows[w] # NULL
  /\ windows' = [windows EXCEPT ![w] = Synced(projects, [@ EXCEPT !.ws = place])]
  /\ UNCHANGED <<projects, active, hydrated, restoring, runs, recovery, disk, spent, restarts>>
  /\ PersistIfMarked(w, windows[w].asg)

\* Command::WindowFacts, the enrichment that follows OpenWindow.
WindowFacts(w, sid, place, rule) ==
  /\ sid # NULL => \A v \in Tracked(windows) \ {w} : windows[v].sid # sid
  /\ LET seen == Upserted(w, sid, place)
     IN windows' = [windows EXCEPT ![w] =
                      Synced(projects, [seen EXCEPT !.asg = Ruled(projects, seen.asg, rule)])]
  /\ UNCHANGED <<projects, active, hydrated, restoring, runs, recovery, disk, spent, restarts>>
  /\ PersistIfMarked(w, Kept(w))

\* HyprEvent::Workspace: sync_active_project_with_workspace.
FocusWorkspace(place) ==
  LET here == {p \in projects : OnProject(place, p)}
  IN /\ active' = IF here = {} THEN NULL ELSE (CHOOSE p \in here : TRUE).id
     /\ UNCHANGED <<windows, projects, hydrated, restoring, runs, recovery, disk, spent, restarts>>
     /\ IF active' = active THEN UNCHANGED runtime ELSE PersistRuntime

-----------------------------------------------------------------------------
(* Requests on projects.  A refused request changes nothing. *)

\* project_create, project_duplicate and project_import of a definition whose
\* slug is free (import appends -2, -3, ... until it is): the new project gets a
\* fresh id, its file is written, runtime.json is not.
SlugFree(s) == s \notin SlugsOf(projects)
AddProject(i, s, d) ==
  /\ i \notin spent
  /\ SlugFree(s)
  /\ projects' = projects \cup {NewProject(i, s, d)}
  /\ disk' = Save(disk, NewProject(i, s, d))
  /\ spent' = spent \cup {i}
  /\ UNCHANGED <<windows, active, hydrated, restoring, runs, recovery, runtime, restarts>>

ProjectCreate(i, s) == AddProject(i, s, [groups |-> {}, hidden |-> {}, apps |-> {}])

ProjectDuplicate(p, i, s) ==
  AddProject(i, s, [groups |-> p.groups, hidden |-> p.hidden, apps |-> p.apps])

ProjectImport(i, s, d) == AddProject(i, s, d)

\* project_import with force over a project of the same slug.
ProjectReplace(p, i, d) ==
  /\ i \notin spent
  /\ projects' = Replace(projects, p, NewProject(i, p.slug, d))
  /\ windows' = Released(windows, p.id)
  /\ disk' = Save(disk, NewProject(i, p.slug, d))
  /\ spent' = spent \cup {i}
  /\ UNCHANGED <<active, hydrated, restoring, runs, recovery, runtime, restarts>>

ProjectDelete(p) ==
  /\ projects' = projects \ {p}
  /\ windows' = Released(windows, p.id)
  /\ active' = IF active = p.id THEN NULL ELSE active
  /\ disk' = Erase(disk, p.slug)
  /\ UNCHANGED <<hydrated, restoring, runs, recovery, spent, restarts>>
  /\ PersistRuntime

\* project_switch.  The restore it may start is a ProjectRestore request.
ProjectSwitch(p) ==
  /\ active' = p.id
  /\ UNCHANGED <<windows, projects, hydrated, restoring, runs, recovery, disk, spent, restarts>>
  /\ PersistRuntime

\* project_close.  The windows go away by CloseWindow events.
ProjectClose(p) ==
  /\ active' = IF active = p.id THEN NULL ELSE active
  /\ UNCHANGED <<windows, projects, hydrated, restoring, runs, recovery, disk, spent, restarts>>
  /\ PersistRuntime

\* refresh_geometry with clients fetched for a save or a capture: the workspace
\* of known windows is overwritten, nothing is synced.
Fetches == UNION {[D -> Places] : D \in SUBSET Windows}
Refreshed(fetched) ==
  [w \in Windows |-> IF windows[w] # NULL /\ w \in DOMAIN fetched
                     THEN [windows[w] EXCEPT !.ws = fetched[w]] ELSE windows[w]]

\* project_capture (or a project_save that is refused) only refreshes.
ProjectCapture(fetched) ==
  /\ windows' = Refreshed(fetched)
  /\ UNCHANGED <<projects, active, hydrated, restoring, runs, recovery, runtime, disk, spent, restarts>>

\* project_save: the windows on the project's workspaces become its app slots.
ProjectSave(p, fetched) ==
  LET now   == Refreshed(fetched)
      saved == [p EXCEPT !.apps = {now[w].asg.group : w \in {v \in Tracked(now) : OnProject(now[v].ws, p)}}]
  IN /\ windows' = now
     /\ projects' = Replace(projects, p, saved)
     /\ disk' = Save(disk, saved)
     /\ UNCHANGED <<active, hydrated, restoring, runs, recovery, spent, restarts>>
     /\ PersistRuntime

-----------------------------------------------------------------------------
(* Restore runs *)

MayRestore(p) == p.slug \notin restoring

\* project_restore: one run per slug; the run keeps the project's id, slug and
\* slots as they were.
ProjectRestore(p) ==
  /\ MayRestore(p)
  /\ Cardinality(runs) < MaxRuns
  /\ restoring' = restoring \cup {p.slug}
  /\ runs' = runs \cup {[pid |-> p.id, slug |-> p.slug, groups |-> p.apps]}
  /\ active' = p.id
  /\ UNCHANGED <<windows, projects, hydrated, recovery, disk, spent, restarts>>
  /\ PersistRuntime

\* Command::CorrelateRestore from a run, for a window that is still tracked.
CorrelateRestore(r, w, g) ==
  /\ windows[w] # NULL
  /\ windows' = [windows EXCEPT ![w].asg = Mark(r.pid, g, "Restore")]
  /\ UNCHANGED <<projects, active, hydrated, restoring, runs, recovery, disk, spent, restarts>>
  /\ PersistRuntime

\* Command::RestoreEvent(RestoreFinished), the last thing a run sends.
RestoreFinished(r) ==
  /\ runs' = runs \ {r}
  /\ restoring' = restoring \ {r.slug}
  /\ UNCHANGED <<windows, projects, active, hydrated, recovery, runtime, disk, spent, restarts>>

-----------------------------------------------------------------------------
(* Requests on windows and groups *)

\* window_assign, and group_membership (join or leave), all Manual.
AssignManually(w, p, g) ==
  /\ windows[w] # NULL
  /\ windows' = [windows EXCEPT ![w].asg = Mark(p.id, g, "Manual")]
  /\ UNCHANGED <<projects, active, hydrated, restoring, runs, recovery, disk, spent, restarts>>
  /\ PersistRuntime

WindowAssign(w, p, g) == g \in p.groups \cup {NULL} /\ AssignManually(w, p, g)
GroupAdd(w, p, g)     == g \in p.groups /\ AssignManually(w, p, g)
GroupRemove(w, p, g)  == g \in p.groups /\ AssignManually(w, p, NULL)

\* A request that edits one project and writes its file.
Rewrite(p, q) ==
  /\ projects' = Replace(projects, p, q)
  /\ disk' = Save(disk, q)
  /\ UNCHANGED <<windows, active, hydrated, restoring, runs, recovery, runtime, spent, restarts>>

GroupCreate(p, g) == g \notin p.groups /\ Rewrite(p, [p EXCEPT !.groups = @ \cup {g}])
GroupHide(p, g)   == g \in p.groups /\ Rewrite(p, [p EXCEPT !.hidden = @ \cup {g}])
\* group_visibility(show) and group_focus
GroupShow(p, g)   == g \in p.groups /\ Rewrite(p, [p EXCEPT !.hidden = @ \ {g}])

\* group_move: the definition and the member windows go to another project.
GroupMove(p, g, q) ==
  LET source == [p EXCEPT !.groups = @ \ {g}, !.hidden = @ \ {g}]
      target == [q EXCEPT !.groups = @ \cup {g}, !.hidden = @ \cup (p.hidden \cap {g})]
  IN /\ p # q
     /\ g \in p.groups \ q.groups
     /\ projects' = (projects \ {p, q}) \cup {source, target}
     /\ disk' = Save(Save(disk, source), target)
     /\ windows' = Reassigned(windows, Members(windows, p.id, g), q.id)
     /\ UNCHANGED <<active, hydrated, restoring, runs, recovery, spent, restarts>>
     /\ PersistRuntime

-----------------------------------------------------------------------------
(* Persisting, stopping and starting *)

\* Command::Persist
Persist == UNCHANGED <<live, disk, spent, restarts>> /\ PersistRuntime

\* The daemon stops between two commands (graceful: after Command::Shutdown)
\* and a new one is spawned from the state files.
Restart(graceful) ==
  LET left == IF graceful THEN RuntimeOf(windows, projects, active) ELSE runtime
  IN /\ restarts < MaxRestarts
     /\ restarts' = restarts + 1
     /\ runtime' = left
     /\ recovery' = left
     /\ projects' = disk
     /\ windows' = [w \in Windows |-> NULL]
     /\ active' = NULL
     /\ hydrated' = FALSE
     /\ restoring' = {}
     /\ runs' = {}
     /\ UNCHANGED <<disk, spent>>

-----------------------------------------------------------------------------
Init ==
  /\ windows = [w \in Windows |-> NULL]
  /\ projects = {}
  /\ active = NULL
  /\ hydrated = FALSE
  /\ restoring = {}
  /\ runs = {}
  /\ recovery = EmptyRuntime
  /\ runtime = EmptyRuntime
  /\ disk = {}
  /\ spent = {}
  /\ restarts = 0

HyprCommand ==
  \/ \E dump \in Dumps : Hydrate(dump)
  \/ \E w \in Windows : CloseWindow(w)
  \/ \E w \in Windows, place \in Places : OpenWindow(w, place) \/ MoveWindow(w, place)
  \/ \E w \in Windows, sid \in StableIds \cup {NULL}, place \in Places, rule \in Rules \cup {NULL} :
       WindowFacts(w, sid, place, rule)
  \/ \E place \in Places : FocusWorkspace(place)

ProjectRequest ==
  \/ \E i \in Ids, s \in Slugs : ProjectCreate(i, s)
  \/ \E i \in Ids, s \in Slugs, d \in Imported : ProjectImport(i, s, d)
  \/ \E fetched \in Fetches : ProjectCapture(fetched)
  \/ \E p \in projects :
       \/ \E i \in Ids, s \in Slugs : ProjectDuplicate(p, i, s)
       \/ \E i \in Ids, d \in Imported : ProjectReplace(p, i, d)
       \/ ProjectDelete(p)
       \/ ProjectSwitch(p)
       \/ ProjectClose(p)
       \/ ProjectRestore(p)
       \/ \E fetched \in Fetches : ProjectSave(p, fetched)

GroupRequest ==
  \E p \in projects :
    \/ \E g \in Groups : GroupCreate(p, g) \/ GroupHide(p, g) \/ GroupShow(p, g)
    \/ \E g \in Groups, q \in projects : GroupMove(p, g, q)
    \/ \E w \in Windows, g \in GroupOpt : WindowAssign(w, p, g) \/ GroupAdd(w, p, g) \/ GroupRemove(w, p, g)

RestoreCommand ==
  \E r \in runs :
    \/ RestoreFinished(r)
    \/ \E w \in Windows, g \in r.groups : CorrelateRestore(r, w, g)

Next ==
  \/ HyprCommand
  \/ ProjectRequest
  \/ GroupRequest
  \/ RestoreCommand
  \/ Persist
  \/ \E graceful \in BOOLEAN : Restart(graceful)

Spec == Init /\ [][Next]_vars

-----------------------------------------------------------------------------
(* Properties *)

\* Every variable has its type; a window has a project exactly when it has a
\* source, and a rule's name exactly when that source is a rule.
AnnotationOK(asg) == /\ asg \in Annotations
                     /\ (asg.pid = NULL) <=> (asg.by = NULL)
                     /\ (asg.rule # NULL) <=> (asg.by = "Rule")
                     /\ asg.by = NULL => asg.group = NULL
TypeOK ==
  /\ windows \in [Windows -> TrackedWindows \cup {NULL}]
  /\ \A w \in Tracked(windows) : AnnotationOK(windows[w].asg)
  /\ projects \subseteq ProjectType
  /\ \A p \in projects : p.hidden \subseteq p.groups
  /\ active \in Ids \cup {NULL}
  /\ hydrated \in BOOLEAN
  /\ restoring \subseteq Slugs
  /\ runs \subseteq [pid : Ids, slug : Slugs, groups : SUBSET GroupOpt]
  /\ recovery \in RuntimeType /\ runtime \in RuntimeType
  /\ disk \subseteq ProjectType
  /\ spent \subseteq Ids
  /\ restarts \in 0 .. MaxRestarts

\* No two projects share a slug or an id, whatever sequence of create,
\* duplicate, import, delete and restart led here: workspaces, project files
\* and requests are all addressed by slug.
UniqueProjects == \A p, q \in projects : (p.slug = q.slug \/ p.id = q.id) => p = q

\* What a restart would load is what the daemon holds: no request forgets to
\* write or remove the file of a project it changed (persist_project,
\* delete_project).
FilesMatchProjects == disk = projects

\* The guard against double restores: restoring holds exactly the slugs of the
\* runs in flight, so a slug has at most one run and is released by its end,
\* also when its project was deleted, replaced or created anew meanwhile.
RestoreExclusive == /\ restoring = SlugsOf(runs)
                    /\ \A r, q \in runs : r.slug = q.slug => r = q

\* Deleting or replacing a project releases its windows: an assignment to a
\* project that is gone can only be one a restore run made after the fact.
OnlyRestoreDangles ==
  \A w \in Tracked(windows) :
    windows[w].asg.pid \notin IdsOf(projects) \cup {NULL} => windows[w].asg.by = "Restore"

\* runtime.json never names a project that is gone, although projects are
\* deleted and replaced long after it was last written.
RuntimeNamesLiveProjects ==
  /\ runtime.active \subseteq SlugsOf(projects)
  /\ \A e \in runtime.saved : e.project \in SlugsOf(projects)

\* An inherited annotation never names a group its project does not have, also
\* after the group moved away or an old annotation was recovered.
InheritedGroupExists ==
  \A w \in Tracked(windows), p \in projects :
    (windows[w].asg.by = "Inherited" /\ windows[w].asg.pid = p.id)
      => windows[w].asg.group \in p.groups \cup {NULL}

\* What the above needs to be inductive: every id in use was handed out, so a
\* new project never picks up the annotations left by an older one.
IdsSpent == /\ IdsOf(projects) \subseteq spent
            /\ \A w \in Tracked(windows) : windows[w].asg.pid \in spent \cup {NULL}
            /\ \A r \in runs : r.pid \in spent
IInv == /\ TypeOK /\ UniqueProjects /\ FilesMatchProjects /\ RestoreExclusive
        /\ OnlyRestoreDangles /\ RuntimeNamesLiveProjects /\ InheritedGroupExists
        /\ IdsSpent

\* While a window is tracked, its annotation is replaced by one of equal or
\* higher precedence (Manual > Restore > Rule > Inherited) or by a restore run,
\* and is dropped only when it was inherited or its project went away.
Rank(src) == CASE src = "Manual" -> 4 [] src = "Restore" -> 3 [] src = "Rule" -> 2
               [] src = "Inherited" -> 1 [] OTHER -> 0
MayReplace(old, new) ==
  \/ Rank(new.by) >= Rank(old.by)
  \/ new.by = "Restore"
  \/ new = Unassigned /\ (old.by = "Inherited" \/ old.pid \notin IdsOf(projects'))
PrecedenceRespected ==
  [][\A w \in Tracked(windows) :
       windows'[w] \notin {NULL, windows[w]} => MayReplace(windows[w].asg, windows'[w].asg)]_vars

=============================================================================
