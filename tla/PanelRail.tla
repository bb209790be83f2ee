------------------------------ MODULE PanelRail ------------------------------
(***************************************************************************)
(* The user interface of the panel (workspace-panel/src/main.rs): the rail *)
(* that expands while the pointer is over it, and the rows a drag shuffles *)
(* into a new order; with the part of the state actor it talks to, the     *)
(* manual order of the projects and its files.                             *)
(*                                                                         *)
(* The connection between them is that of PanelSync, reduced to what is    *)
(* shown there: after a change, a list taken no earlier than it reaches    *)
(* the interface in the end, and requests arrive once and in order, unless *)
(* the daemon stops before.                                                *)
(* The toolkit ends every drag it began, after the drop if there was one.  *)
(***************************************************************************)
EXTENDS ProjectOrder

CONSTANTS
    Slugs,       \* numbers, for the slugs
    MaxDrags,    \* bound: drags begun
    MaxUpsets,   \* bound: projects created or deleted and reorders asked for from
                 \* the command line, and crashes of the daemon, together
    MaxListed,   \* bound: slugs a reorder of the command line lists
    MaxUpdates   \* bound: lists on their way to the interface

None == 99
ASSUME SlugAssumption == Slugs \subseteq Nat /\ IsFiniteSet(Slugs) /\ None \notin Slugs
ASSUME BoundsAssumption == {MaxDrags, MaxUpsets, MaxListed, MaxUpdates} \subseteq Nat

VARIABLES
    projects,   \* the actor's list: [slug, position] in the order shown
    files,      \* the project files: such a record per file
    handling,   \* whether project_reorder is at its writes
    todo,       \* `changed`: the records it has yet to write
    failed,     \* a write has failed since the daemon started
    wrapped,    \* next_position has overflowed since the list was last sorted
    restarts,   \* crashes so far
    commands,   \* creations, deletions and reorders of the command line
    due,        \* whether an event has announced a change not fetched yet
    updates,    \* lists of slugs on their way to the interface
    requests,   \* reorders on their way to the actor
    committed,  \* row_order
    visual,     \* visual_order
    dragged,    \* drag_state: the slug being dragged, or None
    dragActive, \* the rail is pinned open by a drag
    drags,      \* drags begun
    expanded,
    timer,      \* hover_timer: "none", "expand" or "collapse"
    inside      \* whether the pointer is over the rail

listVars == <<projects, handling, todo, wrapped>>
diskVars == <<files, failed, restarts>>
daemonVars == <<listVars, diskVars, commands, due>>
orderVars == <<committed, visual, dragged>>
hoverVars == <<dragActive, expanded, timer>>
panelVars == <<orderVars, hoverVars, drags, inside>>
vars == <<daemonVars, updates, requests, panelVars>>

Project == [slug : Slugs, position : Nat]

TypeOK ==
    /\ projects \in Seq(Project) /\ todo \in Seq(Project) /\ files \subseteq Project
    /\ updates \in Seq(Seq(Slugs)) /\ requests \in Seq(Seq(Slugs))
    /\ committed \in Seq(Slugs) /\ visual \in Seq(Slugs)
    /\ dragged \in Slugs \cup {None}
    /\ {dragActive, expanded, inside, due, handling, failed, wrapped} \subseteq BOOLEAN
    /\ timer \in {"none", "expand", "collapse"}
    /\ Len(updates) <= MaxUpdates /\ restarts \in Nat

\* Any number of projects, from files that may predate positions, which then say
\* 0; one may have been edited by hand, to say the largest, which matters only
\* where a project can still be added.
Init ==
    /\ \E there \in SUBSET Slugs : \E edited \in there \cup {None} :
           /\ edited # None => there # Slugs
           /\ files = {[slug |-> s, position |-> IF s = edited THEN MaxPosition ELSE 0] :
                           s \in there}
    /\ projects = Loaded(files)
    /\ handling = FALSE /\ todo = <<>> /\ failed = FALSE /\ wrapped = FALSE
    /\ restarts = 0 /\ commands = 0 /\ due = TRUE /\ updates = <<>> /\ requests = <<>>
    /\ committed = <<>> /\ visual = <<>> /\ dragged = None
    /\ dragActive = FALSE /\ expanded = FALSE /\ timer = "none"
    /\ drags = 0 /\ inside = FALSE

-----------------------------------------------------------------------------
(* The actor. It handles one command or event at a time, so nothing else of *)
(* it happens while a reorder writes; the others' one write is part of them. *)

\* Writing or deleting a file succeeds, or the error is logged and no more.
Persist(after) ==
    /\ files' \in {files, after}
    /\ failed' = (failed \/ files' # after)

OthersThan(slug) == {f \in files : f.slug # slug}

\* project_create; project_duplicate and project_import add a project likewise (a
\* forced import is a deletion and a creation at once, which is left out).
CreateProject(slug) ==
    /\ ~handling /\ commands + restarts < MaxUpsets /\ slug \notin Known(projects)
    /\ commands' = commands + 1
    /\ LET new == [slug |-> slug, position |-> NextPosition(projects)]
       IN  /\ Persist(OthersThan(slug) \cup {new})
           /\ projects' = Append(projects, new)
           /\ wrapped' = (wrapped \/ \E i \in DOMAIN projects :
                                         projects[i].position >= MaxPosition)
    /\ due' = TRUE
    /\ UNCHANGED <<handling, todo, restarts, updates, requests, panelVars>>

DeleteProject(slug) ==
    /\ ~handling /\ commands + restarts < MaxUpsets /\ commands' = commands + 1
    /\ \E i \in DOMAIN projects :
           projects[i].slug = slug /\ projects' = RemoveAt(projects, i)
    /\ Persist(OthersThan(slug))
    /\ due' = TRUE
    /\ UNCHANGED <<handling, todo, wrapped, restarts, updates, requests, panelVars>>

\* A reorder from the command line may list some projects only, or one twice.
CommandReorder(order) ==
    /\ commands + restarts < MaxUpsets /\ commands' = commands + 1
    /\ requests' = Append(requests, order)
    /\ UNCHANGED <<listVars, diskVars, due, updates, panelVars>>

\* project_reorder up to its writes: refused as a whole when it names a project
\* that is gone, otherwise the list is in its new order before any is written.
HandleReorder ==
    /\ ~handling /\ requests # <<>> /\ requests' = Tail(requests)
    /\ IF ToSet(Head(requests)) \subseteq Known(projects)
       THEN /\ projects' = Reordered(projects, Head(requests))
            /\ todo' = Writes(projects, Head(requests))
            /\ handling' = TRUE /\ wrapped' = FALSE
       ELSE UNCHANGED listVars
    /\ UNCHANGED <<diskVars, commands, due, updates, panelVars>>

\* One write of the loop over `changed`.
WriteFile ==
    /\ todo # <<>> /\ todo' = Tail(todo)
    /\ Persist(OthersThan(Head(todo).slug) \cup {Head(todo)})
    /\ UNCHANGED <<projects, handling, wrapped, restarts, commands, due, updates, requests,
                   panelVars>>

\* No event tells the panel of the new order.
MutantFinishSilent ==
    /\ handling /\ todo = <<>> /\ handling' = FALSE
    /\ UNCHANGED <<projects, todo, wrapped, diskVars, commands, due, updates, requests, panelVars>>

\* The event at the end of it.
FinishReorder ==
    /\ handling /\ todo = <<>> /\ handling' = FALSE /\ due' = TRUE
    /\ UNCHANGED <<projects, todo, wrapped, diskVars, commands, updates, requests, panelVars>>

\* The daemon stops anywhere, in the midst of a reorder's writes too, and the
\* next one loads the files. The panel fetches the list when it connects again;
\* the requests sent before the stop may be lost.
Restart ==
    /\ commands + restarts < MaxUpsets /\ restarts' = restarts + 1
    /\ projects' = Loaded(files)
    /\ handling' = FALSE /\ todo' = <<>> /\ failed' = FALSE /\ wrapped' = FALSE
    /\ due' = TRUE
    /\ \E lost \in 0 .. Len(requests) :
           requests' = SubSeq(requests, lost + 1, Len(requests))
    /\ UNCHANGED <<files, commands, updates, panelVars>>

\* An event of a window: nothing changes, but the panel fetches the list.
WindowEvent ==
    /\ ~handling /\ ~due /\ due' = TRUE
    /\ UNCHANGED <<listVars, diskVars, commands, updates, requests, panelVars>>

\* The connection thread's fetch.
Fetch ==
    /\ ~handling /\ due /\ Len(updates) < MaxUpdates
    /\ due' = FALSE
    /\ updates' = Append(updates, SlugsOf(projects))
    /\ UNCHANGED <<listVars, diskVars, commands, requests, panelVars>>

-----------------------------------------------------------------------------
(* The rows. *)

\* move_row: take the slug's row out and put it back at index `to`; a slug
\* that has no row moves nothing.
MoveRow(rows, slug, to) ==
    IF slug \notin ToSet(rows) THEN rows
    ELSE LET from == CHOOSE i \in DOMAIN rows : rows[i] = slug
             at == IF to < Len(rows) THEN to ELSE Len(rows) - 1
         IN  InsertAt(RemoveAt(rows, from), at + 1, slug)

\* A new list of projects: the rows are rebuilt, even in the middle of a drag.
Rebuild ==
    /\ updates # <<>>
    /\ updates' = Tail(updates)
    /\ committed' = Head(updates) /\ visual' = Head(updates)
    /\ UNCHANGED <<daemonVars, requests, dragged, hoverVars, drags, inside>>

\* connect_drag_begin: the rail is pinned open for the whole drag.
DragBegin(slug) ==
    /\ drags < MaxDrags /\ ~dragActive /\ inside /\ slug \in ToSet(visual)
    /\ drags' = drags + 1
    /\ dragged' = slug /\ dragActive' = TRUE
    /\ expanded' = TRUE /\ timer' = "none"
    /\ UNCHANGED <<daemonVars, updates, requests, committed, visual, inside>>

\* connect_motion of the drop target: rows shuffle under the drag.
DragMotion(to) ==
    /\ dragActive /\ dragged # None /\ to < Len(visual)
    /\ visual' = MoveRow(visual, dragged, to)
    /\ UNCHANGED <<daemonVars, updates, requests, committed, dragged, hoverVars, drags, inside>>

\* The drop sends the order and leaves committing it to the next list.
MutantDropUncommitted ==
    /\ dragActive /\ dragged # None
    /\ dragged' = None
    /\ requests' = Append(requests, visual)
    /\ UNCHANGED <<daemonVars, updates, committed, visual, hoverVars, drags, inside>>

\* connect_drop: what is on screen is committed and sent.
Drop ==
    /\ dragActive /\ dragged # None
    /\ dragged' = None /\ committed' = visual
    /\ requests' = Append(requests, visual)
    /\ UNCHANGED <<daemonVars, updates, visual, hoverVars, drags, inside>>

\* The rows moved one by one, each to its index in `target`.
ShuffleBack(rows, target) ==
    LET moved[i \in 0 .. Len(target)] ==
            IF i = 0 THEN rows ELSE MoveRow(moved[i - 1], target[i], i - 1)
    IN  moved[Len(target)]

\* The end of a drag does not start the countdown its ignored leave skipped.
MutantDragEndStaysOpen ==
    /\ dragActive /\ dragActive' = FALSE
    /\ visual' = IF dragged = None THEN visual ELSE ShuffleBack(visual, committed)
    /\ dragged' = None
    /\ UNCHANGED <<daemonVars, updates, requests, committed, drags, timer, expanded, inside>>

\* connect_drag_end: without a drop the rows go back; the rail is unpinned.
DragEnd ==
    /\ dragActive /\ dragActive' = FALSE
    /\ visual' = IF dragged = None THEN visual ELSE ShuffleBack(visual, committed)
    /\ dragged' = None
    /\ timer' = "collapse"
    /\ UNCHANGED <<daemonVars, updates, requests, committed, drags, expanded, inside>>

-----------------------------------------------------------------------------
(* The rail. *)

\* connect_enter, connect_motion and connect_leave. A drag can deliver the
\* crossings too; a leave is then ignored.
Enter ==
    /\ ~inside /\ inside' = TRUE /\ timer' = "expand"
    /\ UNCHANGED <<daemonVars, updates, requests, orderVars, drags, dragActive, expanded>>

Motion ==
    /\ inside /\ ~expanded /\ timer = "none" /\ ~dragActive
    /\ timer' = "expand"
    /\ UNCHANGED <<daemonVars, updates, requests, orderVars, drags, dragActive, expanded, inside>>

Leave ==
    /\ inside /\ inside' = FALSE
    /\ timer' = IF dragActive THEN timer ELSE "collapse"
    /\ UNCHANGED <<daemonVars, updates, requests, orderVars, drags, dragActive, expanded>>

\* The timer fires; a collapse is dropped while a drag pins the rail.
TimerFires ==
    /\ timer # "none" /\ timer' = "none"
    /\ expanded' = CASE timer = "expand" -> TRUE
                     [] timer = "collapse" /\ ~dragActive -> FALSE
                     [] OTHER -> expanded
    /\ UNCHANGED <<daemonVars, updates, requests, orderVars, drags, dragActive, inside>>

-----------------------------------------------------------------------------
Next ==
    \/ \E slug \in Slugs : CreateProject(slug) \/ DeleteProject(slug) \/ DragBegin(slug)
    \/ \E to \in 0 .. Cardinality(Slugs) - 1 : DragMotion(to)
    \/ \E order \in SeqOf(Slugs, MaxListed) : CommandReorder(order)
    \/ HandleReorder \/ WriteFile \/ FinishReorder \/ Restart \/ WindowEvent \/ Fetch
    \/ Rebuild \/ Drop \/ DragEnd \/ Enter \/ Motion \/ Leave \/ TimerFires

\* The actor, the connection and the toolkit's main loop run. A request is taken,
\* a file written, a reorder or a drag ended by one action each, or by a crash.
\* Neither the user nor the pointer has to move.
Fairness ==
    /\ WF_requests(~handling /\ requests # <<>> /\ requests' = Tail(requests))
    /\ WF_todo(todo # <<>> /\ todo' = Tail(todo))
    /\ WF_handling(handling /\ todo = <<>> /\ handling' = FALSE)
    /\ WF_vars(Fetch) /\ WF_vars(Rebuild) /\ WF_vars(TimerFires)
    /\ WF_dragActive(dragActive /\ dragActive' = FALSE)

Spec == Init /\ [][Next]_vars /\ Fairness

-----------------------------------------------------------------------------
(* Properties. *)

\* The committed order and the one on screen "diverge only while a drag is
\* shuffling rows live" (main.rs:197): a drop commits, and a drag that ends
\* without one puts every row back, whatever lists arrived meanwhile.
DivergeOnlyInDrag == visual # committed => dragged # None /\ dragActive

\* Unless a write failed, a restart finds the projects the actor has, even in the
\* midst of a reorder, and once that is written in the order it shows. While
\* it is being written a crash may leave an order that is neither the old nor
\* the new one; so may next_position, where it overflows.
RestartKeepsOrder ==
    ~failed =>
        /\ {f.slug : f \in files} = Known(projects)
        /\ ~handling => files = ToSet(projects) /\ (wrapped \/ projects = Loaded(files))

\* A reorder that is accepted does to the order shown what it promises, and
\* loses or repeats no project, whatever positions files of an older daemon,
\* creations, deletions, earlier reorders and crashes in their midst have left,
\* but for an overflow of next_position; another does nothing.
ReorderAsPromised ==
    [][Len(requests') < Len(requests) /\ restarts' = restarts =>
           IF ToSet(Head(requests)) \subseteq Known(projects)
           THEN wrapped \/ Promised(SlugsOf(projects), Head(requests), SlugsOf(projects'))
           ELSE projects' = projects]_vars

\* A rail without pointer and drag collapses.
Collapses == []<>(inside \/ dragActive \/ ~expanded)

\* In the end the rows show the actor's order, though a drop commits its own
\* before the actor has accepted it and a crash may lose it.
SettlesOnActorsOrder ==
    <>[](visual = SlugsOf(projects) /\ committed = visual)
=============================================================================
