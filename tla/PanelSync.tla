------------------------------ MODULE PanelSync ------------------------------
(***************************************************************************)
(* How the panel's copy of the daemon's state is kept fresh: the state     *)
(* actor's event bus (workspace-daemon/src/actor.rs), the server task of   *)
(* the panel's connection (server.rs), the socket between them, and the    *)
(* connection thread of the panel (workspace-panel/src/client.rs).         *)
(*                                                                         *)
(* A snapshot is abstracted to its stamp, the number of changes made to    *)
(* the state it shows when it was taken; a larger stamp is a fresher copy. *)
(* Lines on the socket are records, in the order they were written.        *)
(*                                                                         *)
(* Ghosts, read by no action: said, lost, handled.                         *)
(***************************************************************************)
EXTENDS Naturals, Sequences

CONSTANTS
    Emitted,        \* the events the daemon emits in an instance
    UiKinds,        \* the requests the user makes of the panel
    BusCapacity,    \* events a receiver of the bus retains (256)
    SocketCapacity, \* lines the socket to the panel holds before writes block
    MaxStamp,       \* bound: changes of the state
    MaxSeq,         \* bound: events of one life of the daemon
    MaxAsked,       \* bound: requests of the user
    MaxStops        \* bound: times the daemon ends

\* The topic a subscriber asks for an event under.
Topic(event) ==
    CASE event \in {"WindowOpened", "WindowClosed", "WindowMoved",
                    "WindowTitleChanged", "WindowFocused", "RuleMatched"} -> "windows"
      [] event = "WorkspaceChanged" -> "workspaces"
      [] event \in {"ProjectCreated", "ProjectDeleted", "ProjectRenamed",
                    "ProjectClosed", "ProjectsReordered", "ProjectSwitched",
                    "GroupChanged"} -> "projects"
      [] event \in {"RestoreProgress", "RestoreFinished"} -> "restore"
      [] event \in {"HyprConnection", "UpdateAvailable", "ShuttingDown"} -> "daemon"

\* What the panel subscribes to, and what it skips of that.
PanelTopics == {"projects", "daemon", "windows"}
Noisy(event) == event \in {"WindowTitleChanged", "WindowFocused"}

\* An event after which the panel fetches a snapshot.
Announces(event) == Topic(event) \in PanelTopics /\ ~Noisy(event)

\* The request the client sends for one of the user, and the reply it keeps
\* a note for.
Expects(kind) ==
    CASE kind = "Get" -> "details"
      [] kind = "Capture" -> "capture"
      [] OTHER -> "nothing"

ASSUME CapacityAssumption ==
    /\ BusCapacity \in Nat \ {0}
    /\ SocketCapacity \in Nat \ {0}
ASSUME KindsAssumption == UiKinds \cap {"idle", "subscribe", "snapshot"} = {}

VARIABLES
    phase,    \* the daemon: "running", "stopping" (the actor is gone) or "down"
    stamp,    \* changes made to what a snapshot shows
    seq,      \* events emitted in this life
    stops,    \* times the daemon ended
    said,     \* stamp at the last event that announces a change
    handled,  \* requests of the user the actor has handled, in order
    link,     \* the socket: "none", "up", or "closing" (the server's end is gone)
    sub,      \* whether the server's end has subscribed to the bus
    inbox,    \* events the subscription has not received yet
    lagged,   \* whether some were dropped before it received them
    lost,     \* stamp at the last announcing event dropped
    serving,  \* the request the server's end waits for, with its reply
    toServer, \* request lines written, not read
    toPanel,  \* response and event lines written, not read
    pending,  \* the client's notes: [id, kind] of replies it expects
    nextId,
    asked,    \* requests the user has made
    outbox,   \* of them, those the connection has not taken yet
    shown,    \* stamp of the snapshot the user interface shows
    ui        \* "blank", "live" or "disconnected"

daemonVars == <<phase, stamp, seq, stops, said, handled>>
serverVars == <<sub, inbox, lagged, lost, serving>>
clientVars == <<pending, nextId, asked, outbox, shown, ui>>
vars == <<daemonVars, serverVars, clientVars, link, toServer, toPanel>>

\* No request being served: the server's loop waits in its select.
Idle == [id |-> 0, kind |-> "idle", n |-> 0, answered |-> FALSE, ok |-> FALSE, stamp |-> 0]

TypeOK ==
    /\ phase \in {"running", "stopping", "down"}
    /\ link \in {"none", "up", "closing"}
    /\ sub \in BOOLEAN /\ lagged \in BOOLEAN
    /\ {stamp, seq, stops, said, lost, nextId, asked, shown} \subseteq Nat
    /\ handled \in Seq(Nat) /\ outbox \in Seq([n : Nat, kind : UiKinds])
    /\ inbox \in Seq([event : Emitted, at : Nat]) /\ Len(inbox) <= BusCapacity
    /\ Len(toPanel) <= SocketCapacity
    /\ \A i \in DOMAIN toPanel : toPanel[i].type \in {"response", "event"}
    /\ \A p \in pending : p.kind \in {"snapshot", "details", "capture"}
    /\ ui \in {"blank", "live", "disconnected"}

Init ==
    /\ phase = "running" /\ stamp = 0 /\ seq = 0 /\ stops = 0
    /\ said = 0 /\ handled = <<>>
    /\ link = "none" /\ sub = FALSE /\ inbox = <<>> /\ lagged = FALSE /\ lost = 0
    /\ serving = Idle
    /\ toServer = <<>> /\ toPanel = <<>>
    /\ pending = {} /\ nextId = 1 /\ asked = 0 /\ outbox = <<>>
    /\ shown = 0 /\ ui = "blank"

-----------------------------------------------------------------------------
(* The daemon's actor and its bus. *)

\* emit: every receiver of the bus gets the event; one that has BusCapacity
\* unread ones loses the oldest and is told so by its next receive.
Emit(event, at) ==
    /\ seq < MaxSeq
    /\ seq' = seq + 1
    /\ said' = IF Announces(event) THEN at ELSE said
    /\ IF ~sub
       THEN UNCHANGED <<inbox, lagged, lost>>
       ELSE LET full == Len(inbox) = BusCapacity
            IN  /\ inbox' = Append(IF full THEN Tail(inbox) ELSE inbox,
                                   [event |-> event, at |-> at])
                /\ lagged' = (lagged \/ full)
                /\ lost' = IF full /\ Announces(Head(inbox).event)
                            THEN Head(inbox).at ELSE lost

\* A handler changes what a snapshot shows and emits the event of it.
Change(event) ==
    /\ phase = "running" /\ stamp < MaxStamp
    /\ stamp' = stamp + 1
    /\ Emit(event, stamp + 1)
    /\ UNCHANGED <<phase, stops, handled, sub, serving, link, toServer, toPanel, clientVars>>

\* A handler changes it and emits nothing: a restore that activates its
\* project, the facts that follow a new window, a hydration.
SilentChange ==
    /\ phase = "running" /\ stamp < MaxStamp
    /\ stamp' = stamp + 1
    /\ UNCHANGED <<phase, seq, stops, said, handled, serverVars, link, toServer,
                   toPanel, clientVars>>

\* An event that changes nothing a snapshot of the panel shows.
Noise(event) ==
    /\ phase = "running" /\ ~Announces(event)
    /\ Emit(event, stamp)
    /\ UNCHANGED <<phase, stamp, stops, handled, sub, serving, link, toServer,
                   toPanel, clientVars>>

\* The actor takes the request the server's end forwarded, and answers it
\* with the state as it is at that moment.
Reply(ok) ==
    /\ phase = "running" /\ serving # Idle /\ ~serving.answered
    /\ serving' = [serving EXCEPT !.answered = TRUE, !.ok = ok, !.stamp = stamp]
    /\ handled' = IF serving.kind \in UiKinds THEN Append(handled, serving.n)
                                              ELSE handled

AnswerSnapshot ==
    /\ serving.kind = "snapshot" /\ Reply(TRUE)
    /\ UNCHANGED <<phase, stamp, seq, stops, said, sub, inbox, lagged, lost, link,
                   toServer, toPanel, clientVars>>

\* A query, a request that is refused, or one whose change no snapshot of
\* the panel shows (slot.update).
AnswerQuietly(ok) ==
    /\ serving.kind \in UiKinds /\ Reply(ok)
    /\ UNCHANGED <<phase, stamp, seq, stops, said, sub, inbox, lagged, lost, link,
                   toServer, toPanel, clientVars>>

\* A request that changes the state and announces it.
Obey(event) ==
    /\ serving.kind \in UiKinds /\ Expects(serving.kind) = "nothing"
    /\ stamp < MaxStamp /\ stamp' = stamp + 1
    /\ Reply(TRUE) /\ Emit(event, stamp + 1)
    /\ UNCHANGED <<phase, stops, sub, link, toServer, toPanel, clientVars>>

-----------------------------------------------------------------------------
(* The server's end: one loop, which handles one line or one event at a     *)
(* time and blocks while the socket is full.                                *)

CanWrite == Len(toPanel) < SocketCapacity
Response(id, ok, at) == [type |-> "response", id |-> id, ok |-> ok, stamp |-> at, event |-> "none"]
EventLine(event) == [type |-> "event", id |-> 0, ok |-> TRUE, stamp |-> 0, event |-> event]

\* process_line of `subscribe`: a receiver that sees what is emitted from
\* now on, and the reply.
Subscribe ==
    /\ phase # "down" /\ link = "up" /\ serving = Idle /\ CanWrite
    /\ toServer # <<>> /\ Head(toServer).kind = "subscribe"
    /\ sub' = TRUE /\ inbox' = <<>> /\ lagged' = FALSE
    /\ toPanel' = Append(toPanel, Response(Head(toServer).id, TRUE, 0))
    /\ toServer' = Tail(toServer)
    /\ UNCHANGED <<daemonVars, clientVars, link, lost, serving>>

\* process_line of any other request: forward it and wait for the answer.
Forward ==
    /\ phase # "down" /\ link = "up" /\ serving = Idle
    /\ toServer # <<>> /\ Head(toServer).kind # "subscribe"
    /\ serving' = [id |-> Head(toServer).id, kind |-> Head(toServer).kind,
                   n |-> Head(toServer).n, answered |-> FALSE, ok |-> FALSE, stamp |-> 0]
    /\ toServer' = Tail(toServer)
    /\ UNCHANGED <<daemonVars, clientVars, link, toPanel, sub, inbox, lagged, lost>>

\* The actor is gone: the request fails, whether it was sent or not.
AnswerDropped ==
    /\ phase = "stopping" /\ serving # Idle /\ ~serving.answered
    /\ serving' = [serving EXCEPT !.answered = TRUE]
    /\ UNCHANGED <<daemonVars, clientVars, link, toServer, toPanel, sub, inbox, lagged, lost>>

\* The reply is written; nothing else happens on the connection meanwhile.
WriteResponse ==
    /\ phase # "down" /\ link = "up" /\ serving.answered /\ CanWrite
    /\ toPanel' = Append(toPanel, Response(serving.id, serving.ok, serving.stamp))
    /\ serving' = Idle
    /\ UNCHANGED <<daemonVars, clientVars, link, toServer, sub, inbox, lagged, lost>>

\* On a lag the receiver starts again at the end of the bus.
MutantPushSkips ==
    /\ phase # "down" /\ link = "up" /\ sub /\ serving = Idle /\ CanWrite
    /\ IF lagged
       THEN lagged' = FALSE /\ inbox' = <<>> /\ UNCHANGED toPanel
       ELSE /\ inbox # <<>>
            /\ inbox' = Tail(inbox)
            /\ toPanel' = IF Topic(Head(inbox).event) \in PanelTopics
                          THEN Append(toPanel, EventLine(Head(inbox).event))
                          ELSE toPanel
            /\ UNCHANGED lagged
    /\ UNCHANGED <<daemonVars, clientVars, link, toServer, sub, lost, serving>>

\* The receiver of the bus: the notice that it lagged comes first and is
\* only logged; an event is written when its topic is wanted.
Push ==
    /\ phase # "down" /\ link = "up" /\ sub /\ serving = Idle /\ CanWrite
    /\ IF lagged
       THEN lagged' = FALSE /\ UNCHANGED <<inbox, toPanel>>
       ELSE /\ inbox # <<>>
            /\ inbox' = Tail(inbox)
            /\ toPanel' = IF Topic(Head(inbox).event) \in PanelTopics
                          THEN Append(toPanel, EventLine(Head(inbox).event))
                          ELSE toPanel
            /\ UNCHANGED lagged
    /\ UNCHANGED <<daemonVars, clientVars, link, toServer, sub, lost, serving>>

-----------------------------------------------------------------------------
(* The end of the daemon, graceful or not, and its next start. *)

HangUp ==
    /\ link' = IF link = "up" THEN "closing" ELSE link
    /\ toServer' = <<>>
    /\ sub' = FALSE /\ inbox' = <<>> /\ lagged' = FALSE /\ serving' = Idle

\* app.rs: once serve has returned, the actor is told to stop; connections
\* end when the process does.
StopActor ==
    /\ phase = "running" /\ stops < MaxStops
    /\ phase' = "stopping" /\ stops' = stops + 1
    /\ UNCHANGED <<stamp, seq, said, handled, serverVars, link, toServer, toPanel, clientVars>>

\* handle_connection sees the token cancelled when it next selects.
Cancelled ==
    /\ phase = "stopping" /\ link = "up" /\ serving = Idle /\ HangUp
    /\ UNCHANGED <<daemonVars, lost, toPanel, clientVars>>

Exit ==
    /\ phase = "stopping" /\ phase' = "down" /\ HangUp
    /\ UNCHANGED <<stamp, seq, stops, said, handled, lost, toPanel, clientVars>>

Crash ==
    /\ phase = "running" /\ stops < MaxStops
    /\ phase' = "down" /\ stops' = stops + 1 /\ HangUp
    /\ UNCHANGED <<stamp, seq, said, handled, lost, toPanel, clientVars>>

\* The next daemon loads what was saved, which may differ from what the
\* last one showed, and counts its events from nothing.
Start ==
    /\ phase = "down"
    /\ phase' = "running" /\ stamp' = stamp + 1 /\ said' = stamp + 1 /\ seq' = 0
    /\ UNCHANGED <<stops, handled, serverVars, link, toServer, toPanel, clientVars>>

-----------------------------------------------------------------------------
(* The connection thread of the panel. *)

Line(id, kind, n) == [id |-> id, kind |-> kind, n |-> n]

\* The connection asks for the snapshot before it subscribes.
MutantConnectSnapshotFirst ==
    /\ link = "none" /\ phase = "running"
    /\ link' = "up" /\ toPanel' = <<>> /\ lost' = 0
    /\ toServer' = <<Line(1, "snapshot", 0), Line(2, "subscribe", 0)>>
    /\ pending' = {[id |-> 1, kind |-> "snapshot"]}
    /\ nextId' = 3
    /\ UNCHANGED <<daemonVars, sub, inbox, lagged, serving, asked, outbox, shown, ui>>

\* The note of the first snapshot is made under the id of the subscription.
MutantConnectWrongNote ==
    /\ link = "none" /\ phase = "running"
    /\ link' = "up" /\ toPanel' = <<>> /\ lost' = 0
    /\ toServer' = <<Line(1, "subscribe", 0), Line(2, "snapshot", 0)>>
    /\ pending' = {[id |-> 1, kind |-> "snapshot"]}
    /\ nextId' = 3
    /\ UNCHANGED <<daemonVars, sub, inbox, lagged, serving, asked, outbox, shown, ui>>

\* connection, up to its loop: subscribe first, then ask for a snapshot.
Connect ==
    /\ link = "none" /\ phase = "running"
    /\ link' = "up" /\ toPanel' = <<>> /\ lost' = 0
    /\ toServer' = <<Line(1, "subscribe", 0), Line(2, "snapshot", 0)>>
    /\ pending' = {[id |-> 2, kind |-> "snapshot"]}
    /\ nextId' = 3
    /\ UNCHANGED <<daemonVars, sub, inbox, lagged, serving, asked, outbox, shown, ui>>

\* run: the connection failed, the interface is told, and it is tried again
\* after a pause.
Lose ==
    /\ link' = "none" /\ toPanel' = <<>> /\ toServer' = <<>>
    /\ pending' = {} /\ ui' = "disconnected"

ConnectRefused ==
    /\ link = "none" /\ phase = "down" /\ ui # "disconnected"
    /\ Lose
    /\ UNCHANGED <<daemonVars, serverVars, nextId, asked, outbox, shown>>

EndOfFile ==
    /\ link = "closing" /\ toPanel = <<>>
    /\ Lose
    /\ UNCHANGED <<daemonVars, serverVars, nextId, asked, outbox, shown>>

\* The user asks; the request waits for the connection thread, through a
\* reconnection if it must.
Ask(kind) ==
    /\ asked < MaxAsked /\ asked' = asked + 1
    /\ outbox' = Append(outbox, [n |-> asked + 1, kind |-> kind])
    /\ UNCHANGED <<daemonVars, serverVars, link, toServer, toPanel, pending, nextId, shown, ui>>

\* A request whose write failed goes back to the end of the queue.
MutantTakeAskedRequeues ==
    /\ link \in {"up", "closing"} /\ outbox # <<>>
    /\ LET request == Head(outbox)
           note == Expects(request.kind)
       IN  IF link = "closing"
           THEN /\ outbox' = Append(Tail(outbox), request)
                /\ Lose /\ UNCHANGED nextId
           ELSE /\ outbox' = Tail(outbox)
                /\ toServer' = Append(toServer, Line(nextId, request.kind, request.n))
                /\ nextId' = nextId + 1
                /\ pending' = IF note = "nothing" THEN pending
                              ELSE pending \cup {[id |-> nextId, kind |-> note]}
                /\ UNCHANGED <<link, toPanel, ui>>
    /\ UNCHANGED <<daemonVars, serverVars, asked, shown>>

\* The loop takes it: a note of the reply it expects, then the line. On a
\* socket the daemon has closed the write fails and the request is gone.
TakeAsked ==
    /\ link \in {"up", "closing"} /\ outbox # <<>>
    /\ outbox' = Tail(outbox)
    /\ IF link = "closing"
       THEN Lose /\ UNCHANGED nextId
       ELSE LET request == Head(outbox)
                note == Expects(request.kind)
            IN  /\ toServer' = Append(toServer, Line(nextId, request.kind, request.n))
                /\ nextId' = nextId + 1
                /\ pending' = IF note = "nothing" THEN pending
                              ELSE pending \cup {[id |-> nextId, kind |-> note]}
                /\ UNCHANGED <<link, toPanel, ui>>
    /\ UNCHANGED <<daemonVars, serverVars, asked, shown>>

Fetching == \E p \in pending : p.kind = "snapshot"

\* A note is removed only by a reply that succeeded.
MutantReadResponseKeepsNote ==
    /\ toPanel # <<>> /\ Head(toPanel).type = "response"
    /\ toPanel' = Tail(toPanel)
    /\ LET response == Head(toPanel)
           noted == {p \in pending : p.id = response.id}
       IN  /\ pending' = IF response.ok THEN pending \ noted ELSE pending
           /\ IF response.ok /\ \E p \in noted : p.kind = "snapshot"
              THEN shown' = response.stamp /\ ui' = "live"
              ELSE UNCHANGED <<shown, ui>>
    /\ UNCHANGED <<daemonVars, serverVars, link, toServer, nextId, asked, outbox>>

\* A response: its note is removed, and a snapshot goes to the interface.
ReadResponse ==
    /\ toPanel # <<>> /\ Head(toPanel).type = "response"
    /\ toPanel' = Tail(toPanel)
    /\ LET response == Head(toPanel)
           noted == {p \in pending : p.id = response.id}
       IN  /\ pending' = pending \ noted
           /\ IF response.ok /\ \E p \in noted : p.kind = "snapshot"
              THEN shown' = response.stamp /\ ui' = "live"
              ELSE UNCHANGED <<shown, ui>>
    /\ UNCHANGED <<daemonVars, serverVars, link, toServer, nextId, asked, outbox>>

\* An event: one worth it starts a fetch, unless one is under way.
ReadEvent ==
    /\ toPanel # <<>> /\ Head(toPanel).type = "event"
    /\ IF Noisy(Head(toPanel).event) \/ Fetching
       THEN /\ toPanel' = Tail(toPanel)
            /\ UNCHANGED <<link, toServer, pending, nextId, ui>>
       ELSE IF link = "closing"
       THEN Lose /\ UNCHANGED nextId
       ELSE /\ toPanel' = Tail(toPanel)
            /\ toServer' = Append(toServer, Line(nextId, "snapshot", 0))
            /\ pending' = pending \cup {[id |-> nextId, kind |-> "snapshot"]}
            /\ nextId' = nextId + 1
            /\ UNCHANGED <<link, ui>>
    /\ UNCHANGED <<daemonVars, serverVars, asked, outbox, shown>>

-----------------------------------------------------------------------------
Server == Subscribe \/ Forward \/ AnswerDropped \/ WriteResponse \/ Push \/ Cancelled
Actor == \/ AnswerSnapshot
         \/ \E ok \in BOOLEAN : AnswerQuietly(ok)
         \/ \E event \in Emitted : Obey(event)
Client == Connect \/ ConnectRefused \/ EndOfFile \/ TakeAsked \/ ReadResponse \/ ReadEvent
Environment ==
    \/ \E event \in Emitted : Change(event) \/ Noise(event)
    \/ SilentChange
    \/ \E kind \in UiKinds : Ask(kind)
    \/ StopActor \/ Crash

Next == Server \/ Actor \/ Client \/ Environment \/ Exit \/ Start

\* The tasks of the daemon and the thread of the panel are scheduled; the
\* service manager starts a daemon that ended. Nothing obliges the user, the
\* compositor or a failure to act.
Fairness ==
    /\ WF_vars(Server) /\ WF_vars(Actor) /\ WF_vars(Client)
    /\ WF_vars(Exit) /\ WF_vars(Start)

Spec == Init /\ [][Next]_vars /\ Fairness

-----------------------------------------------------------------------------
(* Properties. *)

\* Nothing is on its way between the actor and the user interface.
Quiet ==
    /\ link = "up" /\ phase = "running"
    /\ toServer = <<>> /\ toPanel = <<>> /\ serving = Idle
    /\ inbox = <<>> /\ ~lagged

\* "Snapshots are truth ... events are only a trigger" (client.rs:4): with
\* nothing on its way, the interface shows a snapshot taken no earlier than
\* the last announced change, whatever order snapshots, events and requests
\* crossed in, unless the bus dropped that very announcement.
FreshWhenQuiet == Quiet => ui = "live" /\ (shown >= said \/ lost = said)

\* The interface never goes back to an older copy, across replies, losses
\* and new daemons.
NeverOlder == [][shown' >= shown]_vars

\* The actor handles a request of the user at most once and in the order
\* they were made, across reconnections; one may be lost, none is repeated.
AtMostOnceInOrder ==
    \A i, j \in DOMAIN handled : i < j => handled[i] < handled[j]

\* The client waits for a reply only while the daemon still owes it: no note
\* keeps later events from starting a fetch for ever.
OwedReplies ==
    link = "up" => \A p \in pending :
        \/ \E i \in DOMAIN toServer : toServer[i].id = p.id
        \/ serving.id = p.id
        \/ \E i \in DOMAIN toPanel : toPanel[i].type = "response" /\ toPanel[i].id = p.id

\* Whatever happened, once the environment rests the panel ends up connected
\* and fresh.
SettlesFresh == <>[](ui = "live" /\ (shown >= said \/ lost = said))

=============================================================================
