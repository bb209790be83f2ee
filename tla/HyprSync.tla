------------------------------ MODULE HyprSync ------------------------------
(***************************************************************************)
(* Keeping the daemon's windows in step with the compositor's              *)
(* (workspace-daemon/src/hypr_task.rs, workspace-hypr/src/events.rs, and   *)
(* what StateActor::handle and World make of the commands).                *)
(*                                                                         *)
(* The event pump connects, and reconnects, to the event socket; the task  *)
(* takes items in order, asks for a dump when connected and for the        *)
(* clients when a window opened.  What it asks for is newer than the       *)
(* events still queued.  A save asks for the clients too, on its own.      *)
(*                                                                         *)
(* Abstracted: of a window only its workspace, whether it is fullscreen    *)
(* and whether its facts came from a client; workspaces, monitors and      *)
(* World.hypr_connected are left out.  The socket and the channels between *)
(* pump, task and actor are one queue: none of them reorders or drops, a   *)
(* full one makes its writer wait, and what another sender puts between    *)
(* two items it could as well put earlier or later.  Saves are made one at *)
(* a time.                                                                 *)
(***************************************************************************)
EXTENDS Naturals, Sequences

CONSTANTS
  Windows,      \* window addresses
  Places,       \* workspaces
  MaxChanges,   \* changes in the compositor     (these bound the model)
  MaxDrops,     \* losses of the connection
  MaxFailures,  \* requests to the compositor that fail
  MaxSaves,     \* saves that fetch the clients
  NULL          \* no window

ASSUME NullAssumption == /\ NULL \notin Windows
                         /\ NULL \notin [place : Places, full : BOOLEAN]
                         /\ NULL \notin [place : Places, full : BOOLEAN, whole : BOOLEAN]
ASSUME BoundsAssumption == {MaxChanges, MaxDrops, MaxFailures, MaxSaves} \subseteq Nat

VARIABLES
  real,        \* the compositor's windows
  realFocus,   \* and its focused window
  linked,      \* the event socket is connected
  stream,      \* items on their way to the task
  task,        \* what the task is doing, see Tasks
  known,       \* World.windows
  focus,       \* World.focused_window
  reply,       \* the clients a save fetched, on their way to the actor
  sound,       \* no request failed since the dump was asked for
  changes, drops, failures, saves

hypr   == <<real, realFocus, changes>>
world  == <<known, focus>>
around == <<reply, saves>>
vars   == <<real, realFocus, linked, stream, task, known, focus, reply, sound,
            changes, drops, failures, saves>>

Clients == [Windows -> [place : Places, full : BOOLEAN] \cup {NULL}]
Tracks  == [Windows -> [place : Places, full : BOOLEAN, whole : BOOLEAN] \cup {NULL}]

\* HyprEvent and StreamItem.  `on` is whether the focused window is fullscreen.
Event(kind, w, p, on) == [kind |-> kind, window |-> w, place |-> p, on |-> on]
Item(kind) == Event(kind, NULL, NULL, FALSE)
Markers == {"connected", "disconnected"}
Items ==
  [kind : {"open", "move"}, window : Windows, place : Places, on : {FALSE}]
    \cup [kind : {"close"}, window : Windows, place : {NULL}, on : {FALSE}]
    \cup [kind : {"focus"}, window : Windows \cup {NULL}, place : {NULL}, on : {FALSE}]
    \cup [kind : {"fullscreen"}, window : {NULL}, place : {NULL}, on : BOOLEAN]
    \cup [kind : Markers, window : {NULL}, place : {NULL}, on : {FALSE}]

\* The task waits for an item; or it has got the clients of a dump, and then
\* the focus; or it is to look up a window that opened, and has got its facts.
Idle == [at |-> "idle"]
Tasks == {Idle} \cup [at : {"dumping"}, clients : Clients]
           \cup [at : {"dumped"}, clients : Clients, focus : Windows \cup {NULL}]
           \cup [at : {"opened"}, window : Windows]
           \cup [at : {"enriched"}, window : Windows, facts : [place : Places, full : BOOLEAN]]

FocusType == realFocus \in {w \in Windows : real[w] # NULL} \cup {NULL}

Init ==
  /\ real \in Clients
  /\ FocusType
  /\ linked = FALSE
  /\ stream = << >>
  /\ task = Idle
  /\ known = [w \in Windows |-> NULL]
  /\ focus = NULL
  /\ reply = NULL
  /\ sound = FALSE
  /\ changes = 0 /\ drops = 0 /\ failures = 0 /\ saves = 0

-----------------------------------------------------------------------------
(* The compositor *)

\* It tells its subscriber, if there is one.
Tell(events) == stream' = IF linked THEN stream \o events ELSE stream

Change == changes < MaxChanges /\ changes' = changes + 1
Others == UNCHANGED <<linked, task, known, focus, reply, sound, drops, failures, saves>>

Open(w, p) ==
  /\ Change /\ Others
  /\ real[w] = NULL
  /\ real' = [real EXCEPT ![w] = [place |-> p, full |-> FALSE]]
  /\ Tell(<<Event("open", w, p, FALSE)>>)
  /\ UNCHANGED realFocus

\* The focus that leaves all windows is told of as well.
Close(w) ==
  /\ Change /\ Others
  /\ real[w] # NULL
  /\ real' = [real EXCEPT ![w] = NULL]
  /\ realFocus' = IF realFocus = w THEN NULL ELSE realFocus
  /\ Tell(IF realFocus = w
          THEN <<Event("close", w, NULL, FALSE), Event("focus", NULL, NULL, FALSE)>>
          ELSE <<Event("close", w, NULL, FALSE)>>)

Move(w, p) ==
  /\ Change /\ Others
  /\ real[w] # NULL /\ real[w].place # p
  /\ real' = [real EXCEPT ![w].place = p]
  /\ Tell(<<Event("move", w, p, FALSE)>>)
  /\ UNCHANGED realFocus

Focus(w) ==
  /\ Change /\ Others
  /\ realFocus # w /\ (w # NULL => real[w] # NULL)
  /\ realFocus' = w
  /\ Tell(<<Event("focus", w, NULL, FALSE)>>)
  /\ UNCHANGED real

Fullscreen ==
  /\ Change /\ Others
  /\ realFocus # NULL
  /\ real' = [real EXCEPT ![realFocus].full = ~@]
  /\ Tell(<<Event("fullscreen", NULL, NULL, ~real[realFocus].full)>>)
  /\ UNCHANGED realFocus

-----------------------------------------------------------------------------
(* The event pump *)

Connect ==
  /\ ~linked
  /\ linked' = TRUE
  /\ stream' = Append(stream, Item("connected"))
  /\ UNCHANGED <<hypr, task, world, around, sound, drops, failures>>

\* The socket ends or a read fails: events not yet read are lost.
Drop ==
  /\ linked /\ drops < MaxDrops
  /\ drops' = drops + 1
  /\ linked' = FALSE
  /\ \E k \in 0 .. Len(stream) :
       /\ \A i \in (k + 1) .. Len(stream) : stream[i].kind \notin Markers
       /\ stream' = Append(SubSeq(stream, 1, k), Item("disconnected"))
  /\ UNCHANGED <<hypr, task, world, around, sound, failures>>

-----------------------------------------------------------------------------
(* What the actor does with what the task sends *)

\* Windows as a dump or an enrichment describes them.
Tracked(client) == IF client = NULL THEN NULL
                   ELSE [place |-> client.place, full |-> client.full, whole |-> TRUE]

Bare(p) == [place |-> p, full |-> FALSE, whole |-> FALSE]

\* Mutant: a window whose workspace is not known yet stays where it was.
MovedAmong(w, p) == IF \A v \in Windows : known[v] = NULL \/ known[v].place # p
                    THEN known ELSE [known EXCEPT ![w].place = p]

Closed(w)   == [known EXCEPT ![w] = NULL]
Moved(w, p) == IF known[w] = NULL THEN known ELSE [known EXCEPT ![w].place = p]

FocusWithout(w) == IF known[w] # NULL /\ focus = w THEN NULL ELSE focus

FullscreenFocused(on) == IF focus = NULL THEN known
                         ELSE IF known[focus] = NULL THEN known
                         ELSE [known EXCEPT ![focus].full = on]

Apply(e) ==
  \/ /\ e.kind = "open"       /\ known' = [known EXCEPT ![e.window] = Bare(e.place)]
     /\ UNCHANGED focus
  \/ /\ e.kind = "close"      /\ known' = Closed(e.window) /\ focus' = FocusWithout(e.window)
  \/ /\ e.kind = "move"       /\ known' = Moved(e.window, e.place) /\ UNCHANGED focus
  \/ /\ e.kind = "focus"      /\ focus' = e.window /\ UNCHANGED known
  \/ /\ e.kind = "fullscreen" /\ known' = FullscreenFocused(e.on) /\ UNCHANGED focus

-----------------------------------------------------------------------------
(* The Hyprland task *)

Takes(kind) == stream # << >> /\ Head(stream).kind = kind /\ stream' = Tail(stream)

Fail == failures < MaxFailures /\ failures' = failures + 1

\* Connected: ask for the clients of the dump.
Connected ==
  /\ task = Idle /\ Takes("connected")
  /\ \/ /\ task' = [at |-> "dumping", clients |-> real]
        /\ sound' = TRUE /\ UNCHANGED failures
     \/ /\ Fail
        /\ sound' = FALSE /\ UNCHANGED task
  /\ UNCHANGED <<hypr, linked, world, around, drops>>

\* The last request of the dump is for the focused window.
Dump ==
  /\ task.at = "dumping"
  /\ \/ /\ task' = [at |-> "dumped", clients |-> task.clients, focus |-> realFocus]
        /\ UNCHANGED <<sound, failures>>
     \/ /\ Fail
        /\ task' = Idle /\ sound' = FALSE
  /\ UNCHANGED <<hypr, linked, stream, world, around, drops>>

\* Mutant: a dump is added to what is known.
DumpedOver(clients) == [w \in Windows |-> IF clients[w] = NULL THEN known[w] ELSE Tracked(clients[w])]
Dumped(clients) == [w \in Windows |-> Tracked(clients[w])]

\* World::hydrate
Hydrate ==
  /\ task.at = "dumped"
  /\ known' = Dumped(task.clients)
  /\ focus' = task.focus
  /\ task' = Idle
  /\ UNCHANGED <<hypr, linked, stream, around, sound, drops, failures>>

Disconnected ==
  /\ task = Idle /\ Takes("disconnected")
  /\ UNCHANGED <<hypr, linked, task, world, around, sound, drops, failures>>

\* Mutant: a window that opened is not looked up.
Forward == Idle
\* An event is passed on; a window that opened is looked up afterwards.
Follow == IF Head(stream).kind = "open"
          THEN [at |-> "opened", window |-> Head(stream).window] ELSE Idle

Handle ==
  /\ task = Idle /\ stream # << >> /\ Head(stream).kind \notin Markers
  /\ Apply(Head(stream))
  /\ task' = Follow
  /\ stream' = Tail(stream)
  /\ UNCHANGED <<hypr, linked, around, sound, drops, failures>>

\* Mutants: the client is taken for granted, or waited for.
FoundLater(w)  == IF real[w] = NULL THEN task
                  ELSE [at |-> "enriched", window |-> w, facts |-> real[w]]
\* The window among the clients, which it may have left again.
Found(w) == IF real[w] = NULL THEN Idle
            ELSE [at |-> "enriched", window |-> w, facts |-> real[w]]

Lookup ==
  /\ task.at = "opened"
  /\ \/ /\ task' = Found(task.window)
        /\ UNCHANGED <<sound, failures>>
     \/ /\ Fail
        /\ task' = Idle /\ sound' = FALSE
  /\ UNCHANGED <<hypr, linked, stream, world, around, drops>>

\* Command::WindowFacts
Enrich ==
  /\ task.at = "enriched"
  /\ known' = [known EXCEPT ![task.window] = Tracked(task.facts)]
  /\ task' = Idle
  /\ UNCHANGED <<hypr, linked, stream, focus, around, sound, drops, failures>>

-----------------------------------------------------------------------------
(* A save *)

\* If the request fails the save goes on with no clients.
SaveFetch ==
  /\ reply = NULL /\ saves < MaxSaves
  /\ saves' = saves + 1
  /\ \/ reply' = real /\ UNCHANGED failures
     \/ reply' = [w \in Windows |-> NULL] /\ Fail
  /\ UNCHANGED <<hypr, linked, stream, task, world, sound, drops>>

\* refresh_geometry: windows it knows get the place and state of the reply.
SaveRefresh ==
  /\ reply # NULL
  /\ known' = [w \in Windows |->
                 IF known[w] = NULL \/ reply[w] = NULL THEN known[w]
                 ELSE [known[w] EXCEPT !.place = reply[w].place, !.full = reply[w].full]]
  /\ reply' = NULL
  /\ UNCHANGED <<hypr, linked, stream, task, focus, sound, drops, failures, saves>>

Compositor == \/ \E w \in Windows : \/ \E p \in Places : Open(w, p) \/ Move(w, p)
                                    \/ Close(w)
              \/ \E w \in Windows \cup {NULL} : Focus(w)
              \/ Fullscreen
TaskStep == Connected \/ Dump \/ Hydrate \/ Disconnected \/ Handle \/ Lookup \/ Enrich

Next == Compositor \/ Connect \/ Drop \/ TaskStep \/ SaveFetch \/ SaveRefresh

\* The tasks of the daemon are scheduled, and the compositor answers.
Spec == Init /\ [][Next]_vars /\ WF_vars(Connect) /\ WF_vars(TaskStep) /\ WF_vars(SaveRefresh)

-----------------------------------------------------------------------------
(* Properties *)

TypeOK ==
  /\ real \in Clients /\ FocusType
  /\ linked \in BOOLEAN
  /\ stream \in Seq(Items)
  /\ task \in Tasks
  /\ known \in Tracks /\ focus \in Windows \cup {NULL}
  /\ reply \in Clients \cup {NULL}
  /\ sound \in BOOLEAN
  /\ {changes, drops, failures, saves} \subseteq Nat

\* Connected, and nothing is on its way.
Quiet == linked /\ stream = << >> /\ task = Idle /\ reply = NULL

\* Once quiet the daemon tracks exactly the windows there are, and the focused
\* one, whatever changed while it dumped, looked up or was cut off, and however
\* old the events were that it replayed on top of newer answers.
WindowsConverge ==
  Quiet /\ sound => /\ \A w \in Windows : known[w] = NULL <=> real[w] = NULL
                    /\ focus = realFocus

\* And it knows where they are, unless a save came in between.
PlacesConverge ==
  Quiet /\ sound /\ saves = 0 =>
    \A w \in Windows : real[w] # NULL => known[w].place = real[w].place

\* No window is left with the bare facts of its openwindow event, with which
\* neither rules nor a restore can match it.
FactsComplete == Quiet /\ sound => \A w \in Windows : known[w] # NULL => known[w].whole

\* When the compositor stops changing, the daemon becomes quiet.
Settles == <>[]Quiet

=============================================================================
