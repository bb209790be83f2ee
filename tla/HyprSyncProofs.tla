--------------------------- MODULE HyprSyncProofs ---------------------------
(***************************************************************************)
(* HyprSync converges for any number of windows, changes, losses of the    *)
(* connection, failures and saves.                                         *)
(*                                                                         *)
(* The argument: whatever the daemon holds about a window, or is about to  *)
(* hold, is right unless an event that will correct it is still on its     *)
(* way, and of these events the last is right.                             *)
(***************************************************************************)
EXTENDS HyprSync, SequenceTheorems, TLAPS

\* The items of a stream from the i-th on.
Later(s, i) == {s[j] : j \in i .. Len(s)}

\* All of them were read from one connection.
Fresh(s, i) == \A e \in Later(s, i) : e.kind \notin Markers

AboutLife(e, w)  == e.kind \in {"open", "close"} /\ e.window = w
AboutPlace(e, w) == e.kind \in {"open", "move"} /\ e.window = w

\* Windows r and focus rf are as believed, unless the rest of the events says
\* more: w is there, w is gone, w is on p, f has the focus, w has it not.
StillThere(r, rest, w) == (\A e \in rest : ~AboutLife(e, w)) => r[w] # NULL
StillGone(r, rest, w)  == (\A e \in rest : ~AboutLife(e, w)) => r[w] = NULL
StillAt(r, rest, p, w) == (\A e \in rest : ~AboutPlace(e, w)) /\ r[w] # NULL => r[w].place = p
StillFocused(rf, rest, f)   == (\A e \in rest : e.kind # "focus") => rf = f
StillUnfocused(rf, rest, w) == (\A e \in rest : e.kind # "focus") => rf # w

ItemRight(r, rf, rest, e) ==
  /\ e.kind = "open"  => StillThere(r, rest, e.window)
  /\ e.kind = "close" => StillGone(r, rest, e.window) /\ StillUnfocused(rf, rest, e.window)
  /\ e.kind \in {"open", "move"} => StillAt(r, rest, e.place, e.window)
  /\ e.kind = "focus" => StillFocused(rf, rest, e.window)

\* Of the events of a connection, the last about each thing is right.
StreamRight ==
  linked => \A i \in 1 .. Len(stream) :
              Fresh(stream, i) => ItemRight(real, realFocus, Later(stream, i + 1), stream[i])

\* A connection that was lost and is back is announced.
Announced ==
  linked => \A i \in 1 .. Len(stream) :
              stream[i].kind = "disconnected" =>
                \E e \in Later(stream, i + 1) : e.kind = "connected"

\* The same for what is held of all windows.
Present(r, rest, c) == \A w \in Windows : /\ c[w] # NULL => StillThere(r, rest, w)
                                          /\ c[w] = NULL => StillGone(r, rest, w)
Placed(r, rest, c)  == \A w \in Windows : c[w] # NULL => StillAt(r, rest, c[w].place, w)
Whole(rest, c, at)  ==
  \A w \in Windows : c[w] # NULL /\ ~c[w].whole =>
    \/ at.at \in {"opened", "enriched"} /\ at.window = w
    \/ \E e \in rest : AboutLife(e, w)

\* Nothing but events between what the task has and what the compositor says.
Following == linked /\ sound /\ Fresh(stream, 1)

DumpRight == Following /\ task.at \in {"dumping", "dumped"} =>
  /\ Present(real, Later(stream, 1), task.clients)
  /\ Placed(real, Later(stream, 1), task.clients)
  /\ task.at = "dumped" => StillFocused(realFocus, Later(stream, 1), task.focus)

KnownRight == Following /\ task.at \notin {"dumping", "dumped"} =>
  /\ Present(real, Later(stream, 1), known)
  /\ saves = 0 => Placed(real, Later(stream, 1), known)
  /\ StillFocused(realFocus, Later(stream, 1), focus)
  /\ Whole(Later(stream, 1), known, task)

FoundRight == Following /\ task.at = "enriched" =>
  /\ StillThere(real, Later(stream, 1), task.window)
  /\ StillAt(real, Later(stream, 1), task.facts.place, task.window)

SavesCounted == reply # NULL => saves # 0

Agree == StreamRight /\ Announced /\ DumpRight /\ KnownRight /\ FoundRight /\ SavesCounted

Inv == TypeOK /\ Agree

-----------------------------------------------------------------------------
(* What is still to come *)

LEMMA LaterAppend ==
  ASSUME NEW s \in Seq(Items), NEW e \in Items, NEW i \in 1 .. Len(s) + 1
  PROVE  Later(Append(s, e), i) = Later(s, i) \cup {e}
<1>1. Append(s, e) \in Seq(Items) /\ Len(Append(s, e)) = Len(s) + 1
  OBVIOUS
<1>2. \A j \in 1 .. Len(s) : Append(s, e)[j] = s[j]
  OBVIOUS
<1>3. Append(s, e)[Len(s) + 1] = e
  OBVIOUS
<1>4. i .. Len(s) + 1 = (i .. Len(s)) \cup {Len(s) + 1}
  OBVIOUS
<1>5. \A j \in i .. Len(s) : j \in 1 .. Len(s)
  OBVIOUS
<1> QED
  BY <1>1, <1>2, <1>3, <1>4, <1>5, Zenon DEF Later

LEMMA LaterTail ==
  ASSUME NEW s \in Seq(Items), s # << >>, NEW i \in Nat \ {0}
  PROVE  Later(Tail(s), i) = Later(s, i + 1)
<1>1. Len(Tail(s)) = Len(s) - 1 /\ Len(s) \in Nat \ {0}
  OBVIOUS
<1>2. \A j \in i .. Len(s) - 1 : Tail(s)[j] = s[j + 1]
  BY <1>1
<1>3. \A x \in Later(Tail(s), i) : x \in Later(s, i + 1)
  BY <1>1, <1>2 DEF Later
<1>4. ASSUME NEW x \in Later(s, i + 1) PROVE x \in Later(Tail(s), i)
  <2>1. PICK j \in i + 1 .. Len(s) : x = s[j]
    BY <1>4 DEF Later
  <2>2. j - 1 \in i .. Len(s) - 1 /\ Tail(s)[j - 1] = s[j]
    BY <1>1, <1>2, <2>1
  <2> QED
    BY <1>1, <2>1, <2>2 DEF Later
<1> QED
  BY <1>3, <1>4

LEMMA LaterHead ==
  ASSUME NEW s \in Seq(Items), s # << >>
  PROVE  /\ Later(s, 1) = {Head(s)} \cup Later(s, 2)
         /\ Head(s) \in Items /\ Head(s) = s[1] /\ 1 \in 1 .. Len(s)
         /\ Tail(s) \in Seq(Items)
<1>1. Len(s) \in Nat \ {0} /\ Head(s) = s[1]
  OBVIOUS
<1>2. 1 .. Len(s) = {1} \cup (2 .. Len(s))
  BY <1>1
<1>3. Later(s, 1) = {s[1]} \cup Later(s, 2)
  BY <1>2, Zenon DEF Later
<1> QED
  BY <1>1, <1>3

\* What is still to come when events are added at the end.
LEMMA LaterConcat ==
  ASSUME NEW s \in Seq(Items), NEW t \in Seq(Items)
  PROVE  /\ s \o t \in Seq(Items)
         /\ Len(s \o t) = Len(s) + Len(t) /\ Len(s) \in Nat /\ Len(t) \in Nat
         /\ \A i \in 1 .. Len(s) : (s \o t)[i] = s[i]
         /\ \A i \in 1 .. Len(t) : (s \o t)[Len(s) + i] = t[i]
         /\ \A i \in 1 .. Len(s) + 1 : Later(s \o t, i) = Later(s, i) \cup Later(t, 1)
         /\ \A i \in 1 .. Len(t) + 1 : Later(s \o t, Len(s) + i) = Later(t, i)
<1>1. /\ s \o t \in Seq(Items)
      /\ Len(s \o t) = Len(s) + Len(t) /\ Len(s) \in Nat /\ Len(t) \in Nat
      /\ \A i \in 1 .. Len(s) : (s \o t)[i] = s[i]
      /\ \A i \in 1 .. Len(t) : (s \o t)[Len(s) + i] = t[i]
  OBVIOUS
<1>2. ASSUME NEW i \in 1 .. Len(t) + 1
      PROVE  Later(s \o t, Len(s) + i) = Later(t, i)
  <2>1. \A x \in Later(t, i) : x \in Later(s \o t, Len(s) + i)
    <3>1. ASSUME NEW j \in i .. Len(t)
          PROVE  /\ Len(s) + j \in Len(s) + i .. Len(s \o t)
                 /\ (s \o t)[Len(s) + j] = t[j]
      BY <1>1, <1>2
    <3> QED
      BY <3>1, Zenon DEF Later
  <2>2. ASSUME NEW j \in Len(s) + i .. Len(s \o t)
        PROVE  (s \o t)[j] \in Later(t, i)
    <3>1. j - Len(s) \in i .. Len(t) /\ j - Len(s) \in 1 .. Len(t) /\ Len(s) + (j - Len(s)) = j
      BY <1>1, <1>2, <2>2
    <3>2. (s \o t)[j] = t[j - Len(s)]
      BY <1>1, <3>1
    <3> QED
      BY <3>1, <3>2, Zenon DEF Later
  <2> QED
    BY <2>1, <2>2, Zenon DEF Later
<1>3. ASSUME NEW i \in 1 .. Len(s) + 1
      PROVE  Later(s \o t, i) = Later(s, i) \cup Later(t, 1)
  <2>1. i .. Len(s \o t) = (i .. Len(s)) \cup (Len(s) + 1 .. Len(s \o t))
    BY <1>1, <1>3
  <2>2. Later(s \o t, i) = {(s \o t)[j] : j \in i .. Len(s)} \cup Later(s \o t, Len(s) + 1)
    BY <2>1, Zenon DEF Later
  <2>3. \A j \in i .. Len(s) : (s \o t)[j] = s[j]
    BY <1>1, <1>3
  <2>4. {(s \o t)[j] : j \in i .. Len(s)} = Later(s, i)
    BY <2>3, Zenon DEF Later
  <2>5. Later(s \o t, Len(s) + 1) = Later(t, 1)
    BY <1>1, <1>2
  <2> QED
    BY <2>2, <2>4, <2>5
<1> QED
  BY <1>1, <1>2, <1>3

LEMMA LaterItems ==
  ASSUME NEW s \in Seq(Items), NEW i \in Nat \ {0}
  PROVE  Later(s, i) \subseteq Items
BY DEF Later

LEMMA LaterNone ==
  ASSUME NEW s \in Seq(Items)
  PROVE  Later(s, Len(s) + 1) = {}
BY DEF Later

-----------------------------------------------------------------------------
(* Types *)

LEMMA EventTypes ==
  /\ \A w \in Windows, p \in Places : Event("open", w, p, FALSE) \in Items
                                      /\ Event("move", w, p, FALSE) \in Items
  /\ \A w \in Windows : Event("close", w, NULL, FALSE) \in Items
  /\ \A w \in Windows \cup {NULL} : Event("focus", w, NULL, FALSE) \in Items
  /\ \A on \in BOOLEAN : Event("fullscreen", NULL, NULL, on) \in Items
  /\ Item("connected") \in Items /\ Item("disconnected") \in Items
BY DEF Items, Item, Event, Markers

LEMMA ItemFields ==
  ASSUME NEW e \in Items
  PROVE  \/ e.kind \in {"open", "move"} /\ e.window \in Windows /\ e.place \in Places
         \/ e.kind = "close" /\ e.window \in Windows
         \/ e.kind = "focus" /\ e.window \in Windows \cup {NULL}
         \/ e.kind = "fullscreen" /\ e.on \in BOOLEAN
         \/ e.kind \in Markers
BY DEF Items, Event, Item, Markers

LEMMA TellType ==
  ASSUME TypeOK, NEW evs \in Seq(Items), Tell(evs)
  PROVE  stream' \in Seq(Items)
BY LaterConcat DEF TypeOK, Tell

\* One event, or the two of a focused window that closes.
LEMMA Few ==
  /\ \A e \in Items : /\ <<e>> \in Seq(Items) /\ Len(<<e>>) = 1 /\ <<e>>[1] = e
                      /\ Later(<<e>>, 1) = {e} /\ Later(<<e>>, 2) = {}
  /\ \A e, f \in Items : /\ <<e, f>> \in Seq(Items) /\ Len(<<e, f>>) = 2
                         /\ <<e, f>>[1] = e /\ <<e, f>>[2] = f
                         /\ Later(<<e, f>>, 1) = {e, f} /\ Later(<<e, f>>, 2) = {f}
                         /\ Later(<<e, f>>, 3) = {}
<1>1. ASSUME NEW e \in Items
      PROVE  /\ <<e>> \in Seq(Items) /\ Len(<<e>>) = 1 /\ <<e>>[1] = e
             /\ Later(<<e>>, 1) = {e} /\ Later(<<e>>, 2) = {}
  BY DEF Later
<1>2. ASSUME NEW e \in Items, NEW f \in Items
      PROVE  /\ <<e, f>> \in Seq(Items) /\ Len(<<e, f>>) = 2
             /\ <<e, f>>[1] = e /\ <<e, f>>[2] = f
             /\ Later(<<e, f>>, 1) = {e, f} /\ Later(<<e, f>>, 2) = {f}
             /\ Later(<<e, f>>, 3) = {}
  <2>1. 1 .. 2 = {1, 2} /\ 2 .. 2 = {2} /\ 3 .. 2 = {}
    OBVIOUS
  <2>2. <<e, f>> \in Seq(Items) /\ Len(<<e, f>>) = 2 /\ <<e, f>>[1] = e /\ <<e, f>>[2] = f
    OBVIOUS
  <2> QED
    BY <2>1, <2>2, Zenon DEF Later
<1> QED
  BY <1>1, <1>2

\* What the compositor does not touch.
LEMMA OthersTypes ==
  ASSUME TypeOK, Others, Change, real' \in Clients, FocusType',
         stream' \in Seq(Items)
  PROVE  TypeOK'
BY BoundsAssumption DEF TypeOK, Others, Change

LEMMA CompositorTypes ==
  ASSUME TypeOK, Compositor
  PROVE  TypeOK'
<1>1. ASSUME NEW w \in Windows, NEW p \in Places, Open(w, p) PROVE TypeOK'
  <2>1. stream' \in Seq(Items)
    BY <1>1, EventTypes, Few, TellType DEF Open
  <2>2. real' \in Clients
    BY <1>1 DEF Open, TypeOK, Clients
  <2>3. FocusType'
    BY <1>1 DEF Open, TypeOK, Clients, FocusType
  <2> QED
    BY <1>1, <2>1, <2>2, <2>3, OthersTypes DEF Open
<1>2. ASSUME NEW w \in Windows, NEW p \in Places, Move(w, p) PROVE TypeOK'
  <2>1. stream' \in Seq(Items)
    BY <1>2, EventTypes, Few, TellType DEF Move
  <2>2. real' \in Clients
    BY <1>2 DEF Move, TypeOK, Clients
  <2>3. FocusType'
    <3>1. real' = [real EXCEPT ![w] = [real[w] EXCEPT !.place = p]]
      BY <1>2, Zenon DEF Move
    <3>2. [real[w] EXCEPT !.place = p] # NULL
      BY <1>2, NullAssumption DEF Move, TypeOK, Clients
    <3> QED
      BY <1>2, <3>1, <3>2 DEF Move, TypeOK, Clients, FocusType
  <2> QED
    BY <1>2, <2>1, <2>2, <2>3, OthersTypes DEF Move
<1>3. ASSUME NEW w \in Windows, Close(w) PROVE TypeOK'
  <2>1. stream' \in Seq(Items)
    <3>1. CASE realFocus = w
      <4>1. Tell(<<Event("close", w, NULL, FALSE), Event("focus", NULL, NULL, FALSE)>>)
        BY <1>3, <3>1 DEF Close
      <4> QED
        BY <4>1, EventTypes, Few, TellType
    <3>2. CASE realFocus # w
      <4>1. Tell(<<Event("close", w, NULL, FALSE)>>)
        BY <1>3, <3>2 DEF Close
      <4> QED
        BY <4>1, EventTypes, Few, TellType
    <3> QED
      BY <3>1, <3>2
  <2>2. real' \in Clients
    BY <1>3 DEF Close, TypeOK, Clients
  <2>3. FocusType'
    BY <1>3 DEF Close, TypeOK, Clients, FocusType
  <2> QED
    BY <1>3, <2>1, <2>2, <2>3, OthersTypes DEF Close
<1>4. ASSUME NEW w \in Windows \cup {NULL}, Focus(w) PROVE TypeOK'
  <2>1. stream' \in Seq(Items)
    BY <1>4, EventTypes, Few, TellType DEF Focus
  <2> QED
    BY <1>4, <2>1, OthersTypes DEF Focus, TypeOK, FocusType
<1>5. ASSUME Fullscreen PROVE TypeOK'
  <2>1. PICK on \in BOOLEAN : Tell(<<Event("fullscreen", NULL, NULL, on)>>)
    BY <1>5 DEF Fullscreen
  <2>2. stream' \in Seq(Items)
    BY <2>1, EventTypes, Few, TellType
  <2>3. realFocus \in Windows /\ real[realFocus] \in [place : Places, full : BOOLEAN]
    BY <1>5 DEF Fullscreen, TypeOK, FocusType, Clients
  <2>4. [real[realFocus] EXCEPT !.full = ~@] \in [place : Places, full : BOOLEAN]
    BY <2>3
  <2>5. real' = [real EXCEPT ![realFocus] = [real[realFocus] EXCEPT !.full = ~@]]
    BY <1>5, Zenon DEF Fullscreen
  <2>6. real' \in Clients
    BY <2>3, <2>4, <2>5 DEF TypeOK, Clients
  <2>7. FocusType'
    BY <1>5, <2>3, <2>4, <2>5, NullAssumption DEF Fullscreen, TypeOK, FocusType, Clients
  <2> QED
    BY <1>5, <2>2, <2>6, <2>7, OthersTypes DEF Fullscreen
<1> QED
  BY <1>1, <1>2, <1>3, <1>4, <1>5 DEF Compositor

LEMMA PumpTypes ==
  ASSUME TypeOK, Connect \/ Drop
  PROVE  TypeOK'
<1>1. CASE Connect
  <2>1. stream' \in Seq(Items)
    BY <1>1, EventTypes DEF Connect, TypeOK
  <2> QED
    BY <1>1, <2>1 DEF Connect, hypr, world, around, TypeOK, FocusType
<1>2. CASE Drop
  <2> USE DEF Drop
  <2>1. PICK k \in 0 .. Len(stream) : stream' = Append(SubSeq(stream, 1, k), Item("disconnected"))
    BY <1>2
  <2>2. SubSeq(stream, 1, k) \in Seq(Items)
    <3>1. stream \in Seq(Items)
      BY DEF TypeOK
    <3>2. k \in Int /\ \A i \in 1 .. k : stream[i] \in Items
      BY <3>1
    <3> QED
      BY <3>2, SubSeqProperties
  <2>3. stream' \in Seq(Items)
    BY <2>1, <2>2, EventTypes
  <2>4. linked' = FALSE /\ drops' = drops + 1
    BY <1>2, Zenon
  <2>5. drops' \in Nat
    BY <2>4 DEF TypeOK
  <2> QED
    BY <1>2, <2>3, <2>4, <2>5 DEF hypr, world, around, TypeOK, FocusType
<1> QED
  BY <1>1, <1>2

LEMMA AppliedType ==
  ASSUME TypeOK, NEW e \in Items, Apply(e)
  PROVE  known' \in Tracks /\ focus' \in Windows \cup {NULL}
<1> USE ItemFields DEF TypeOK, Tracks
<1>1. CASE e.kind = "open"
  <2>1. e.window \in Windows /\ e.place \in Places
    BY <1>1 DEF Markers
  <2>2. known' = [known EXCEPT ![e.window] = Bare(e.place)] /\ focus' = focus
    BY <1>1 DEF Apply
  <2>3. Bare(e.place) \in [place : Places, full : BOOLEAN, whole : BOOLEAN]
    BY <2>1 DEF Bare
  <2> QED
    BY <2>1, <2>2, <2>3
<1>2. CASE e.kind = "close"
  BY <1>2 DEF Apply, Closed, FocusWithout, Markers
<1>3. CASE e.kind = "move"
  BY <1>3 DEF Apply, Moved, Markers
<1>4. CASE e.kind = "focus"
  BY <1>4 DEF Apply, Markers
<1>5. CASE e.kind = "fullscreen"
  <2>1. e.on \in BOOLEAN
    BY <1>5 DEF Markers
  <2> QED
    BY <1>5, <2>1 DEF Apply, FullscreenFocused
<1> QED
  BY <1>1, <1>2, <1>3, <1>4, <1>5 DEF Apply

\* What the task has at hand, by what it is doing.
LEMMA TaskFields ==
  ASSUME TypeOK
  PROVE  /\ task.at \in {"idle", "dumping", "dumped", "opened", "enriched"}
         /\ task.at = "idle" <=> task = Idle
         /\ task.at \in {"dumping", "dumped"} => task.clients \in Clients
         /\ task.at = "dumped" => task.focus \in Windows \cup {NULL}
         /\ task.at \in {"opened", "enriched"} => task.window \in Windows
         /\ task.at = "enriched" => task.facts \in [place : Places, full : BOOLEAN]
BY DEF TypeOK, Tasks, Idle

LEMMA NewTasks ==
  /\ Idle \in Tasks
  /\ \A c \in Clients : /\ [at |-> "dumping", clients |-> c] \in Tasks
                        /\ \A f \in Windows \cup {NULL} :
                             [at |-> "dumped", clients |-> c, focus |-> f] \in Tasks
  /\ \A w \in Windows : /\ [at |-> "opened", window |-> w] \in Tasks
                        /\ \A f \in [place : Places, full : BOOLEAN] :
                             [at |-> "enriched", window |-> w, facts |-> f] \in Tasks
BY DEF Tasks

LEMMA TrackedType ==
  ASSUME NEW c \in [place : Places, full : BOOLEAN] \cup {NULL}
  PROVE  /\ Tracked(c) \in [place : Places, full : BOOLEAN, whole : BOOLEAN] \cup {NULL}
         /\ c = NULL <=> Tracked(c) = NULL
         /\ c # NULL => Tracked(c) = [place |-> c.place, full |-> c.full, whole |-> TRUE]
<1>1. CASE c = NULL
  BY <1>1 DEF Tracked
<1>2. CASE c \in [place : Places, full : BOOLEAN] /\ c # NULL
  <2>1. Tracked(c) = [place |-> c.place, full |-> c.full, whole |-> TRUE]
    BY <1>2 DEF Tracked
  <2>2. Tracked(c) \in [place : Places, full : BOOLEAN, whole : BOOLEAN]
    BY <1>2, <2>1
  <2> QED
    BY <1>2, <2>1, <2>2, NullAssumption
<1> QED
  BY <1>1, <1>2

\* A step of the task: it takes the first item or none, and fails or not.
LEMMA TaskMovesOn ==
  ASSUME TypeOK,
         UNCHANGED <<hypr, linked, around, drops>>,
         stream' = stream \/ (stream # << >> /\ stream' = Tail(stream)),
         task' \in Tasks,
         known' \in Tracks, focus' \in Windows \cup {NULL},
         sound' = sound \/ sound' = TRUE \/ sound' = FALSE,
         failures' = failures \/ failures' = failures + 1
  PROVE  TypeOK'
<1>1. stream' \in Seq(Items)
  BY LaterHead DEF TypeOK
<1>2. failures' \in Nat
  BY DEF TypeOK
<1>4. sound' \in BOOLEAN
  BY DEF TypeOK
<1>3. FocusType'
  BY DEF hypr, TypeOK, FocusType
<1> QED
  BY <1>1, <1>2, <1>3, <1>4 DEF hypr, around, TypeOK

LEMMA TaskTypes ==
  ASSUME TypeOK, TaskStep
  PROVE  TypeOK'
<1> USE TaskFields, NewTasks
<1>1. real \in Clients /\ realFocus \in Windows \cup {NULL} /\ task \in Tasks /\ known \in Tracks
      /\ focus \in Windows \cup {NULL} /\ stream \in Seq(Items)
  BY DEF TypeOK, FocusType
<1>2. CASE Connected
  <2>1. task' \in Tasks
    BY <1>1, <1>2, NewTasks DEF Connected
  <2>2. sound' = TRUE \/ sound' = FALSE
    BY <1>2, Zenon DEF Connected
  <2>3. failures' = failures \/ failures' = failures + 1
    BY <1>2 DEF Connected, Fail
  <2> QED
    BY <1>1, <1>2, <2>1, <2>2, <2>3, TaskMovesOn DEF Connected, Takes, world
<1>3. CASE Dump
  BY <1>1, <1>3, TaskMovesOn DEF Dump, Fail, hypr, world, around
<1>4. CASE Hydrate
  <2>1. task.clients \in Clients /\ task.focus \in Windows \cup {NULL}
    BY <1>4 DEF Hydrate
  <2>2. known' \in Tracks
    BY <1>4, <2>1, TrackedType DEF Hydrate, Dumped, Clients, Tracks
  <2> QED
    BY <1>1, <1>4, <2>1, <2>2, TaskMovesOn DEF Hydrate, hypr, around
<1>5. CASE Disconnected
  BY <1>1, <1>5, TaskMovesOn DEF Disconnected, Takes, world
<1>6. CASE Handle
  <2>1. stream # << >> /\ Head(stream) \in Items /\ Head(stream).kind \notin Markers /\ Apply(Head(stream))
    BY <1>6, LaterHead DEF Handle, TypeOK
  <2>2. known' \in Tracks /\ focus' \in Windows \cup {NULL}
    BY <2>1, AppliedType
  <2>3. task' \in Tasks
    BY <1>6, <2>1, ItemFields DEF Handle, Follow
  <2> QED
    BY <1>1, <1>6, <2>1, <2>2, <2>3, TaskMovesOn DEF Handle, hypr, around
<1>7. CASE Lookup
  <2>1. task.window \in Windows /\ real[task.window] \in [place : Places, full : BOOLEAN] \cup {NULL}
    BY <1>1, <1>7 DEF Lookup, Clients
  <2>2. task' \in Tasks
    BY <1>7, <2>1 DEF Lookup, Found
  <2> QED
    BY <1>1, <1>7, <2>2, TaskMovesOn DEF Lookup, Fail, hypr, world, around
<1>8. CASE Enrich
  <2>1. Tracked(task.facts) \in [place : Places, full : BOOLEAN, whole : BOOLEAN] \cup {NULL}
    BY <1>8, TrackedType DEF Enrich
  <2>2. known' \in Tracks
    BY <1>1, <1>8, <2>1 DEF Enrich, Tracks
  <2> QED
    BY <1>1, <1>8, <2>2, TaskMovesOn DEF Enrich, hypr, around
<1> QED
  BY <1>2, <1>3, <1>4, <1>5, <1>6, <1>7, <1>8 DEF TaskStep

LEMMA SaveTypes ==
  ASSUME TypeOK, SaveFetch \/ SaveRefresh
  PROVE  TypeOK'
<1>1. CASE SaveFetch
  <2>1. saves' \in Nat /\ failures' \in Nat
    BY <1>1 DEF SaveFetch, Fail, TypeOK
  <2>2. reply' \in Clients
    BY <1>1 DEF SaveFetch, TypeOK, Clients
  <2> QED
    BY <1>1, <2>1, <2>2 DEF SaveFetch, hypr, world, TypeOK, FocusType
<1>2. CASE SaveRefresh
  <2>1. reply \in Clients
    BY <1>2 DEF SaveRefresh, TypeOK
  <2>2. ASSUME NEW w \in Windows
        PROVE  [known[w] EXCEPT !.place = reply[w].place, !.full = reply[w].full]
                 \in [place : Places, full : BOOLEAN, whole : BOOLEAN]
               \/ known[w] = NULL \/ reply[w] = NULL
    BY <2>1 DEF TypeOK, Tracks, Clients
  <2>3. known' \in Tracks
    BY <1>2, <2>1, <2>2 DEF SaveRefresh, TypeOK, Tracks
  <2> QED
    BY <1>2, <2>3 DEF SaveRefresh, hypr, TypeOK, FocusType
<1> QED
  BY <1>1, <1>2

LEMMA InitTypes == ASSUME Init PROVE TypeOK
<1>1. stream \in Seq(Items) /\ Idle \in Tasks /\ known \in Tracks
  BY DEF Init, Tasks, Tracks
<1>2. linked \in BOOLEAN /\ sound \in BOOLEAN
  BY DEF Init
<1>3. {changes, drops, failures, saves} \subseteq Nat
  BY DEF Init
<1> QED
  BY <1>1, <1>2, <1>3 DEF Init, TypeOK

LEMMA TypesPreserved ==
  ASSUME TypeOK, [Next]_vars
  PROVE  TypeOK'
<1>1. CASE UNCHANGED vars
  BY <1>1 DEF vars, TypeOK, FocusType
<1> QED
  BY <1>1, CompositorTypes, PumpTypes, TaskTypes, SaveTypes DEF Next

-----------------------------------------------------------------------------
(* The compositor *)

\* Events tell all that changed, and of these the last about each thing is right.
Says(said) ==
  /\ \A w \in Windows : (\A e \in said : ~AboutLife(e, w)) => (real'[w] = NULL <=> real[w] = NULL)
  /\ \A w \in Windows : (\A e \in said : ~AboutPlace(e, w)) /\ real'[w] # NULL =>
                          real[w] # NULL /\ real'[w].place = real[w].place
  /\ (\A e \in said : e.kind # "focus") => realFocus' = realFocus

Tells(evs) ==
  /\ evs \in Seq(Items)
  /\ \A e \in Later(evs, 1) : e.kind \notin Markers
  /\ Says(Later(evs, 1))
  /\ \A i \in 1 .. Len(evs) : ItemRight(real', realFocus', Later(evs, i + 1), evs[i])

LEMMA TellsOne ==
  ASSUME NEW e \in Items, e.kind \notin Markers, Says({e}), ItemRight(real', realFocus', {}, e)
  PROVE  Tells(<<e>>)
<1>1. /\ <<e>> \in Seq(Items) /\ Len(<<e>>) = 1 /\ <<e>>[1] = e
      /\ Later(<<e>>, 1) = {e} /\ Later(<<e>>, 2) = {}
  BY Few
<1>2. \A i \in 1 .. Len(<<e>>) : i = 1 /\ i + 1 = 2
  BY <1>1
<1> QED
  BY <1>1, <1>2, Zenon DEF Tells

LEMMA OpenTells ==
  ASSUME TypeOK, NEW w \in Windows, NEW p \in Places, Open(w, p)
  PROVE  Tells(<<Event("open", w, p, FALSE)>>)
<1>1. PICK c \in [place : Places, full : BOOLEAN] : c = [place |-> p, full |-> FALSE]
  OBVIOUS
<1>2. real' = [real EXCEPT ![w] = c] /\ realFocus' = realFocus /\ c.place = p
  BY <1>1 DEF Open
<1>3. c # NULL
  BY NullAssumption
<1>4. PICK e \in Items : e = Event("open", w, p, FALSE)
  BY EventTypes
<1>5. e.kind = "open" /\ e.window = w /\ e.place = p
  BY <1>4 DEF Event
<1>6. Says({e})
  BY <1>2, <1>3, <1>5 DEF Says, AboutLife, AboutPlace, TypeOK, Clients
<1>7. ItemRight(real', realFocus', {}, e)
  BY <1>2, <1>3, <1>5 DEF ItemRight, StillThere, StillAt, TypeOK, Clients
<1> QED
  BY <1>4, <1>5, <1>6, <1>7, TellsOne DEF Markers

\* If it had the focus, two events.
LEMMA CloseTells ==
  ASSUME TypeOK, NEW w \in Windows, Close(w)
  PROVE  \E evs : Tells(evs) /\ Tell(evs)
<1>1. PICK e \in Items : e = Event("close", w, NULL, FALSE)
  BY EventTypes
<1>2. PICK f \in Items : f = Event("focus", NULL, NULL, FALSE)
  BY EventTypes
<1>3. e.kind = "close" /\ e.window = w /\ f.kind = "focus" /\ f.window = NULL
  BY <1>1, <1>2 DEF Event
<1>4. /\ real' = [real EXCEPT ![w] = NULL]
      /\ realFocus' = IF realFocus = w THEN NULL ELSE realFocus
      /\ Tell(IF realFocus = w THEN <<e, f>> ELSE <<e>>)
  BY <1>1, <1>2 DEF Close
<1>5. \A said : e \in said /\ (realFocus = w => f \in said) => Says(said)
  BY <1>3, <1>4, NullAssumption DEF Says, AboutLife, AboutPlace, TypeOK, Clients
<1>6. \A rest : StillGone(real', rest, w)
  BY <1>4 DEF StillGone, TypeOK, Clients
<1>7. realFocus' # w
  BY <1>4, NullAssumption
<1>8. \A rest : ItemRight(real', realFocus', rest, e)
  BY <1>3, <1>6, <1>7 DEF ItemRight, StillUnfocused
<1>9. CASE realFocus = w
  <2>1. Tell(<<e, f>>)
    BY <1>4, <1>9
  <2>2. /\ <<e, f>> \in Seq(Items) /\ Len(<<e, f>>) = 2 /\ <<e, f>>[1] = e /\ <<e, f>>[2] = f
        /\ Later(<<e, f>>, 1) = {e, f} /\ Later(<<e, f>>, 3) = {}
    BY Few
  <2>3. ItemRight(real', realFocus', {}, f)
    BY <1>3, <1>4, <1>9 DEF ItemRight, StillFocused
  <2>4. \A i \in 1 .. Len(<<e, f>>) : i = 1 \/ (i = 2 /\ i + 1 = 3)
    BY <2>2
  <2>5. \A i \in 1 .. Len(<<e, f>>) :
          ItemRight(real', realFocus', Later(<<e, f>>, i + 1), <<e, f>>[i])
    BY <1>8, <2>2, <2>3, <2>4, Zenon
  <2>6. Says({e, f})
    BY <1>5
  <2> QED
    BY <1>3, <2>1, <2>2, <2>5, <2>6 DEF Tells, Markers
<1>10. CASE realFocus # w
  <2>1. Tell(<<e>>)
    BY <1>4, <1>10
  <2>2. Says({e})
    BY <1>5, <1>10
  <2> QED
    BY <1>3, <1>8, <2>1, <2>2, TellsOne DEF Markers
<1> QED
  BY <1>9, <1>10

LEMMA MoveTells ==
  ASSUME TypeOK, NEW w \in Windows, NEW p \in Places, Move(w, p)
  PROVE  Tells(<<Event("move", w, p, FALSE)>>)
<1>1. real[w] # NULL /\ real[w] \in [place : Places, full : BOOLEAN]
  BY DEF Move, TypeOK, Clients
<1>2. PICK c \in [place : Places, full : BOOLEAN] : c = [real[w] EXCEPT !.place = p]
  BY <1>1
<1>3. real' = [real EXCEPT ![w] = c] /\ realFocus' = realFocus
  BY <1>2, Zenon DEF Move
<1>4. c # NULL /\ c.place = p
  BY <1>1, <1>2, NullAssumption
<1>5. PICK e \in Items : e = Event("move", w, p, FALSE)
  BY EventTypes
<1>6. e.kind = "move" /\ e.window = w /\ e.place = p
  BY <1>5 DEF Event
<1>7. Says({e})
  BY <1>1, <1>3, <1>4, <1>6 DEF Says, AboutLife, AboutPlace, TypeOK, Clients
<1>8. ItemRight(real', realFocus', {}, e)
  BY <1>3, <1>4, <1>6 DEF ItemRight, StillAt, TypeOK, Clients
<1> QED
  BY <1>5, <1>6, <1>7, <1>8, TellsOne DEF Markers

LEMMA FocusTells ==
  ASSUME TypeOK, NEW w \in Windows \cup {NULL}, Focus(w)
  PROVE  Tells(<<Event("focus", w, NULL, FALSE)>>)
<1>1. PICK e \in Items : e = Event("focus", w, NULL, FALSE)
  BY EventTypes
<1>2. e.kind = "focus" /\ e.window = w
  BY <1>1 DEF Event
<1>3. Says({e}) /\ ItemRight(real', realFocus', {}, e)
  BY <1>2 DEF Focus, Says, StillFocused, ItemRight
<1> QED
  BY <1>1, <1>2, <1>3, TellsOne DEF Markers

LEMMA FullscreenTells ==
  ASSUME TypeOK, Fullscreen, NEW on \in BOOLEAN
  PROVE  Tells(<<Event("fullscreen", NULL, NULL, on)>>)
<1>1. realFocus \in Windows /\ real[realFocus] \in [place : Places, full : BOOLEAN]
  BY DEF Fullscreen, TypeOK, FocusType, Clients
<1>2. PICK c \in [place : Places, full : BOOLEAN] : c = [real[realFocus] EXCEPT !.full = ~@]
  BY <1>1
<1>3. c # NULL /\ c.place = real[realFocus].place /\ real[realFocus] # NULL
  BY <1>1, <1>2, NullAssumption
<1>4. real' = [real EXCEPT ![realFocus] = c] /\ realFocus' = realFocus
  BY <1>2, Zenon DEF Fullscreen
<1>5. PICK e \in Items : e = Event("fullscreen", NULL, NULL, on)
  BY EventTypes
<1>6. e.kind = "fullscreen"
  BY <1>5 DEF Event
<1>7. Says({e}) /\ ItemRight(real', realFocus', {}, e)
  BY <1>1, <1>3, <1>4, <1>6 DEF Says, ItemRight, AboutLife, AboutPlace, TypeOK, Clients
<1> QED
  BY <1>5, <1>6, <1>7, TellsOne DEF Markers

\* What is believed stays right if the events are among those to come.
LEMMA StillTrue ==
  ASSUME NEW said, Says(said), NEW rest
  PROVE  /\ \A w \in Windows :
              /\ StillThere(real, rest, w) => StillThere(real', rest \cup said, w)
              /\ StillGone(real, rest, w) => StillGone(real', rest \cup said, w)
              /\ StillUnfocused(realFocus, rest, w) => StillUnfocused(realFocus', rest \cup said, w)
              /\ \A p : StillAt(real, rest, p, w) => StillAt(real', rest \cup said, p, w)
         /\ \A f : StillFocused(realFocus, rest, f) => StillFocused(realFocus', rest \cup said, f)
<1>1. ASSUME NEW w \in Windows, StillThere(real, rest, w)
      PROVE  StillThere(real', rest \cup said, w)
  BY <1>1 DEF Says, StillThere
<1>2. ASSUME NEW w \in Windows, StillGone(real, rest, w)
      PROVE  StillGone(real', rest \cup said, w)
  BY <1>2 DEF Says, StillGone
<1>3. ASSUME NEW w \in Windows, NEW p, StillAt(real, rest, p, w)
      PROVE  StillAt(real', rest \cup said, p, w)
  BY <1>3 DEF Says, StillAt
<1>4. ASSUME NEW f, StillFocused(realFocus, rest, f)
      PROVE  StillFocused(realFocus', rest \cup said, f)
  BY <1>4 DEF Says, StillFocused
<1>5. ASSUME NEW w \in Windows, StillUnfocused(realFocus, rest, w)
      PROVE  StillUnfocused(realFocus', rest \cup said, w)
  BY <1>5 DEF Says, StillUnfocused
<1> QED
  BY <1>1, <1>2, <1>3, <1>4, <1>5

LEMMA StillAllTrue ==
  ASSUME NEW said, Says(said), NEW rest, NEW c, NEW at
  PROVE  /\ Present(real, rest, c) => Present(real', rest \cup said, c)
         /\ Placed(real, rest, c) => Placed(real', rest \cup said, c)
         /\ Whole(rest, c, at) => Whole(rest \cup said, c, at)
<1>1. Present(real, rest, c) => Present(real', rest \cup said, c)
  BY StillTrue DEF Present
<1>2. Placed(real, rest, c) => Placed(real', rest \cup said, c)
  BY StillTrue DEF Placed
<1>3. Whole(rest, c, at) => Whole(rest \cup said, c, at)
  BY DEF Whole
<1> QED
  BY <1>1, <1>2, <1>3

LEMMA ItemStillRight ==
  ASSUME NEW said, Says(said), NEW rest, NEW e \in Items, ItemRight(real, realFocus, rest, e)
  PROVE  ItemRight(real', realFocus', rest \cup said, e)
<1>1. e.kind \in {"open", "close", "move"} => e.window \in Windows
  BY ItemFields DEF Markers
<1> QED
  BY <1>1, StillTrue DEF ItemRight

LEMMA ToldAgrees ==
  ASSUME Inv, NEW evs, Tells(evs), Tell(evs), Others
  PROVE  Agree'
<1> DEFINE said == Later(evs, 1)
           n    == Len(stream)
<1> USE DEF Inv, Agree
<1>1. stream \in Seq(Items) /\ evs \in Seq(Items)
  BY DEF TypeOK, Tells
<1>2. linked' = linked /\ sound' = sound /\ task' = task /\ known' = known /\ focus' = focus
      /\ reply' = reply /\ saves' = saves
  BY DEF Others
<1>3. SavesCounted'
  BY <1>2 DEF SavesCounted
<1>4. CASE ~linked
  BY <1>2, <1>3, <1>4 DEF StreamRight, Announced, DumpRight, KnownRight, FoundRight, Following
<1>5. CASE linked
  <2>0. Says(said) /\ \A e \in said : e.kind \notin Markers
    BY DEF Tells
  <2>1. stream' = stream \o evs
    BY <1>5 DEF Tell
  <2>2. /\ Len(stream') = n + Len(evs) /\ n \in Nat /\ Len(evs) \in Nat
        /\ \A i \in 1 .. n : stream'[i] = stream[i]
        /\ \A i \in 1 .. Len(evs) : stream'[n + i] = evs[i]
        /\ \A i \in 1 .. n + 1 : Later(stream', i) = Later(stream, i) \cup said
        /\ \A i \in 1 .. Len(evs) + 1 : Later(stream', n + i) = Later(evs, i)
    BY <1>1, <2>1, LaterConcat
  <2> HIDE DEF said
  <2>3. \A i \in 1 .. n + 1 : Fresh(stream', i) <=> Fresh(stream, i)
    BY <2>0, <2>2 DEF Fresh
  <2>4. Later(stream, 1)' = Later(stream, 1) \cup said /\ (Following' <=> Following)
    <3>1. 1 \in 1 .. n + 1
      BY <2>2
    <3> QED
      BY <1>2, <2>2, <2>3, <3>1 DEF Following, Later, Fresh
  <2>5. StreamRight'
    <3>1. ASSUME NEW i \in 1 .. Len(stream'), Fresh(stream', i)
          PROVE  ItemRight(real', realFocus', Later(stream', i + 1), stream'[i])
      <4>1. CASE i > n
        <5>1. PICK j \in 1 .. Len(evs) : i = n + j
          <6>1. i - n \in 1 .. Len(evs) /\ i = n + (i - n)
            BY <2>2, <4>1
          <6> QED
            BY <6>1
        <5>2. i + 1 = n + (j + 1) /\ j + 1 \in 1 .. Len(evs) + 1
          BY <2>2, <5>1
        <5>3. Later(stream', i + 1) = Later(evs, j + 1) /\ stream'[i] = evs[j]
          BY <2>2, <5>1, <5>2
        <5> QED
          BY <5>3 DEF Tells
      <4>2. CASE i \in 1 .. n
        <5>1. ItemRight(real, realFocus, Later(stream, i + 1), stream[i]) /\ stream[i] \in Items
          BY <1>1, <1>5, <2>2, <2>3, <3>1, <4>2 DEF StreamRight
        <5>2. ItemRight(real', realFocus', Later(stream, i + 1) \cup said, stream[i])
          BY <2>0, <5>1, ItemStillRight
        <5>3. Later(stream', i + 1) = Later(stream, i + 1) \cup said /\ stream'[i] = stream[i]
          BY <2>2, <4>2
        <5> QED
          BY <5>2, <5>3
      <4> QED
        BY <2>2, <4>1, <4>2
    <3> QED
      BY <3>1 DEF StreamRight, Later, Fresh
  <2>6. Announced'
    <3>1. ASSUME NEW i \in 1 .. Len(stream'), stream'[i].kind = "disconnected"
          PROVE  \E e \in Later(stream', i + 1) : e.kind = "connected"
      <4>1. i \in 1 .. n
        <5>1. SUFFICES ASSUME i \notin 1 .. n PROVE FALSE
          OBVIOUS
        <5>2. i - n \in 1 .. Len(evs) /\ stream'[i] = evs[i - n]
          BY <2>2, <5>1
        <5>3. evs[i - n] \in said
          BY <5>2 DEF said, Later
        <5> QED
          BY <2>0, <3>1, <5>2, <5>3 DEF Markers
      <4>2. \E e \in Later(stream, i + 1) : e.kind = "connected"
        BY <1>5, <2>2, <3>1, <4>1 DEF Announced
      <4> QED
        BY <2>2, <4>1, <4>2
    <3> QED
      BY <3>1 DEF Announced, Later
  <2>7. DumpRight'
    BY <1>2, <2>0, <2>4, StillTrue, StillAllTrue DEF DumpRight
  <2>8. KnownRight'
    BY <1>2, <2>0, <2>4, StillTrue, StillAllTrue DEF KnownRight
  <2>9. FoundRight'
    BY <1>2, <2>0, <2>4, StillTrue, TaskFields DEF FoundRight
  <2> QED
    BY <1>3, <2>5, <2>6, <2>7, <2>8, <2>9
<1> QED
  BY <1>4, <1>5

LEMMA CompositorAgrees ==
  ASSUME Inv, Compositor
  PROVE  Agree'
<1> USE ToldAgrees DEF Inv
<1>1. ASSUME NEW w \in Windows, NEW p \in Places, Open(w, p) PROVE Agree'
  BY <1>1, OpenTells DEF Open
<1>2. ASSUME NEW w \in Windows, NEW p \in Places, Move(w, p) PROVE Agree'
  BY <1>2, MoveTells DEF Move
<1>3. ASSUME NEW w \in Windows, Close(w) PROVE Agree'
  <2>1. Others
    BY <1>3 DEF Close
  <2> QED
    BY <1>3, <2>1, CloseTells
<1>4. ASSUME NEW w \in Windows \cup {NULL}, Focus(w) PROVE Agree'
  BY <1>4, FocusTells DEF Focus
<1>5. ASSUME Fullscreen PROVE Agree'
  <2>1. PICK on \in BOOLEAN : Tell(<<Event("fullscreen", NULL, NULL, on)>>) /\ Others
    BY <1>5 DEF Fullscreen
  <2> QED
    BY <1>5, <2>1, FullscreenTells
<1> QED
  BY <1>1, <1>2, <1>3, <1>4, <1>5 DEF Compositor

-----------------------------------------------------------------------------
(* The pump and the saves *)

LEMMA ConnectAgrees ==
  ASSUME Inv, Connect
  PROVE  Agree'
<1> USE DEF Inv, Agree
<1>1. stream \in Seq(Items) /\ stream' = Append(stream, Item("connected")) /\ linked' = TRUE
      /\ reply' = reply /\ saves' = saves
  BY DEF Connect, TypeOK, around
<1>2. Item("connected") \in Items /\ Item("connected").kind = "connected"
  BY EventTypes DEF Item, Event
<1>3. Len(stream') = Len(stream) + 1 /\ Len(stream) \in Nat
      /\ stream'[Len(stream) + 1] = Item("connected")
  BY <1>1, <1>2
<1>4. \A i \in 1 .. Len(stream) + 1 : Item("connected") \in Later(stream', i)
  BY <1>1, <1>2, LaterAppend
<1>5. \A i \in 1 .. Len(stream') : ~Fresh(stream', i)
  BY <1>2, <1>3, <1>4 DEF Fresh, Markers
<1>6. StreamRight'
  BY <1>5 DEF StreamRight, Fresh, Later
<1>7. Announced'
  <2>1. ASSUME NEW i \in 1 .. Len(stream'), stream'[i].kind = "disconnected"
        PROVE  \E e \in Later(stream', i + 1) : e.kind = "connected"
    <3>1. i + 1 \in 1 .. Len(stream) + 1
      BY <1>2, <1>3, <2>1
    <3> QED
      BY <1>2, <1>4, <3>1
  <2> QED
    BY <2>1 DEF Announced, Later
<1>8. ~Following'
  <2>1. 1 \in 1 .. Len(stream')
    BY <1>3
  <2> QED
    BY <1>5, <2>1 DEF Following, Fresh, Later
<1> QED
  BY <1>1, <1>6, <1>7, <1>8 DEF DumpRight, KnownRight, FoundRight, SavesCounted

LEMMA DropAgrees ==
  ASSUME Inv, Drop
  PROVE  Agree'
<1>1. ~linked' /\ reply' = reply /\ saves' = saves
  BY DEF Drop, around
<1> QED
  BY <1>1 DEF Inv, Agree, StreamRight, Announced, DumpRight, KnownRight, FoundRight, Following,
              SavesCounted

\* A save only writes places and states of windows that are known.
LEMMA SaveAgrees ==
  ASSUME Inv, SaveFetch \/ SaveRefresh
  PROVE  Agree'
<1> USE DEF Inv, Agree
<1>1. UNCHANGED <<real, realFocus, linked, stream, task, focus, sound>>
  BY DEF SaveFetch, SaveRefresh, hypr, world
<1>2. StreamRight' /\ Announced' /\ DumpRight' /\ FoundRight' /\ (Following' <=> Following)
      /\ Later(stream, 1)' = Later(stream, 1)
  BY <1>1 DEF StreamRight, Announced, DumpRight, FoundRight, Following, Fresh, Later
<1>3. saves' # 0
  <2>1. saves \in Nat
    BY DEF TypeOK
  <2>2. CASE SaveFetch
    <3>1. saves' = saves + 1
      BY <2>2 DEF SaveFetch
    <3> QED
      BY <2>1, <3>1
  <2>3. CASE SaveRefresh
    BY <2>3 DEF SaveRefresh, SavesCounted
  <2> QED
    BY <2>2, <2>3
<1>4. \A w \in Windows : /\ known'[w] = NULL <=> known[w] = NULL
                         /\ known[w] # NULL => (known'[w].whole <=> known[w].whole)
  <2>1. CASE SaveFetch
    BY <2>1 DEF SaveFetch, world
  <2>2. CASE SaveRefresh
    <3>1. ASSUME NEW w \in Windows, known[w] # NULL
          PROVE  known'[w] # NULL /\ known'[w].whole = known[w].whole
      <4>1. known[w] \in [place : Places, full : BOOLEAN, whole : BOOLEAN]
        BY <3>1 DEF TypeOK, Tracks
      <4>2. CASE reply[w] = NULL
        BY <2>2, <3>1, <4>2 DEF SaveRefresh
      <4>3. CASE reply[w] # NULL
        <5>1. reply[w] \in [place : Places, full : BOOLEAN]
          BY <2>2, <4>3 DEF SaveRefresh, TypeOK, Clients
        <5>2. PICK k \in [place : Places, full : BOOLEAN, whole : BOOLEAN] :
                k = [known[w] EXCEPT !.place = reply[w].place, !.full = reply[w].full]
          BY <4>1, <5>1
        <5>3. known'[w] = k
          BY <2>2, <3>1, <4>3, <5>2 DEF SaveRefresh
        <5> QED
          BY <4>1, <5>2, <5>3, NullAssumption
      <4> QED
        BY <4>2, <4>3
    <3>2. \A w \in Windows : known[w] = NULL => known'[w] = NULL
      BY <2>2 DEF SaveRefresh
    <3> QED
      BY <3>1, <3>2
  <2> QED
    BY <2>1, <2>2
<1>5. KnownRight'
  BY <1>1, <1>2, <1>3, <1>4 DEF KnownRight, Present, Whole
<1> QED
  BY <1>2, <1>3, <1>5 DEF SavesCounted

-----------------------------------------------------------------------------
(* The task *)

\* One item less at the head of the stream.
LEMMA StreamShrinks ==
  ASSUME NEW s \in Seq(Items), s # << >>
  PROVE  /\ Len(s) \in Nat \ {0} /\ Len(Tail(s)) = Len(s) - 1
         /\ \A i \in 1 .. Len(s) - 1 : Tail(s)[i] = s[i + 1]
         /\ \A i \in Nat \ {0} : /\ Later(Tail(s), i) = Later(s, i + 1)
                                 /\ Fresh(Tail(s), i) <=> Fresh(s, i + 1)
         /\ Later(s, 1) = {Head(s)} \cup Later(Tail(s), 1)
         /\ Head(s) \in Items /\ Head(s) = s[1]
<1>1. \A i \in Nat \ {0} : Later(Tail(s), i) = Later(s, i + 1)
  BY LaterTail
<1>2. \A i \in Nat \ {0} : Fresh(Tail(s), i) <=> Fresh(s, i + 1)
  BY <1>1 DEF Fresh
<1>3. Later(Tail(s), 1) = Later(s, 2)
  BY <1>1
<1> QED
  BY <1>1, <1>2, <1>3, LaterHead

LEMMA PoppedAgrees ==
  ASSUME Inv, stream # << >>, stream' = Tail(stream), UNCHANGED <<real, realFocus, linked>>
  PROVE  StreamRight' /\ Announced'
<1>1. stream \in Seq(Items) /\ StreamRight /\ Announced
  BY DEF Inv, Agree, TypeOK
<1>2. /\ Len(stream) \in Nat \ {0} /\ Len(stream') = Len(stream) - 1
      /\ \A i \in 1 .. Len(stream) - 1 : stream'[i] = stream[i + 1]
      /\ \A i \in Nat \ {0} : /\ Later(stream', i) = Later(stream, i + 1)
                              /\ Fresh(stream', i) <=> Fresh(stream, i + 1)
  BY <1>1, StreamShrinks
<1>3. ASSUME linked, NEW i \in 1 .. Len(stream'), Fresh(stream', i)
      PROVE  ItemRight(real', realFocus', Later(stream', i + 1), stream'[i])
  <2>1. i + 1 \in 1 .. Len(stream) /\ i \in Nat \ {0} /\ i + 1 \in Nat \ {0}
    BY <1>2
  <2>2. ItemRight(real, realFocus, Later(stream, (i + 1) + 1), stream[i + 1])
    BY <1>1, <1>2, <1>3, <2>1 DEF StreamRight
  <2>3. Later(stream', i + 1) = Later(stream, (i + 1) + 1) /\ stream'[i] = stream[i + 1]
    BY <1>2, <2>1
  <2> QED
    BY <2>2, <2>3
<1>4. ASSUME linked, NEW i \in 1 .. Len(stream'), stream'[i].kind = "disconnected"
      PROVE  \E e \in Later(stream', i + 1) : e.kind = "connected"
  <2>1. i + 1 \in 1 .. Len(stream) /\ i + 1 \in Nat \ {0}
    BY <1>2
  <2>2. \E e \in Later(stream, (i + 1) + 1) : e.kind = "connected"
    BY <1>1, <1>2, <1>4, <2>1 DEF Announced
  <2> QED
    BY <1>2, <2>1, <2>2
<1> QED
  BY <1>3, <1>4 DEF StreamRight, Announced, Fresh, Later

LEMMA ConnectedAgrees ==
  ASSUME Inv, Connected
  PROVE  Agree'
<1>1. stream # << >> /\ stream' = Tail(stream) /\ UNCHANGED <<real, realFocus, linked, reply, saves>>
  BY DEF Connected, Takes, hypr, around
<1>2. StreamRight' /\ Announced' /\ SavesCounted'
  BY <1>1, PoppedAgrees DEF Inv, Agree, SavesCounted
<1>3. CASE ~sound'
  BY <1>2, <1>3 DEF Agree, DumpRight, KnownRight, FoundRight, Following
<1>4. CASE task' = [at |-> "dumping", clients |-> real]
  <2>1. task'.at = "dumping" /\ task'.clients = real
    BY <1>4
  <2>2. \A rest : Present(real, rest, real) /\ Placed(real, rest, real)
    BY DEF Present, Placed, StillThere, StillGone, StillAt
  <2>3. DumpRight'
    BY <1>1, <2>1, <2>2 DEF DumpRight
  <2> QED
    BY <1>2, <2>1, <2>3 DEF Agree, KnownRight, FoundRight
<1> QED
  BY <1>3, <1>4, Zenon DEF Connected

\* A step that leaves stream and compositor alone.
LEMMA StillStream ==
  ASSUME Inv, UNCHANGED <<real, realFocus, linked, stream, reply, saves>>
  PROVE  /\ StreamRight' /\ Announced' /\ SavesCounted'
         /\ Later(stream, 1)' = Later(stream, 1) /\ (Fresh(stream, 1)' <=> Fresh(stream, 1))
BY DEF Inv, Agree, StreamRight, Announced, SavesCounted, Fresh, Later

\* The focus asked for while events wait is the last one among them, if any.
LEMMA FocusNow == \A rest : StillFocused(realFocus, rest, realFocus)
BY DEF StillFocused

LEMMA DumpAgrees ==
  ASSUME Inv, Dump
  PROVE  Agree'
<1>1. UNCHANGED <<real, realFocus, linked, stream, reply, saves>>
  BY DEF Dump, hypr, around
<1>2. CASE ~sound'
  BY <1>1, <1>2, StillStream DEF Agree, DumpRight, KnownRight, FoundRight, Following
<1>3. CASE task' = [at |-> "dumped", clients |-> task.clients, focus |-> realFocus] /\ sound' = sound
  <2>1. task'.at = "dumped" /\ task'.clients = task.clients /\ task'.focus = realFocus
        /\ task.at = "dumping"
    BY <1>3 DEF Dump
  <2>2. DumpRight'
    BY <1>1, <1>3, <2>1, StillStream, FocusNow DEF Inv, Agree, DumpRight, Following
  <2> QED
    BY <1>1, <2>1, <2>2, StillStream DEF Agree, KnownRight, FoundRight
<1> QED
  BY <1>2, <1>3, Zenon DEF Dump

LEMMA HydrateAgrees ==
  ASSUME Inv, Hydrate
  PROVE  Agree'
<1> DEFINE rest == Later(stream, 1)
<1>1. UNCHANGED <<real, realFocus, linked, stream, reply, saves, sound>> /\ task.at = "dumped"
      /\ focus' = task.focus /\ task' = Idle
  BY DEF Hydrate, hypr, around
<1>2. task'.at = "idle" /\ task.clients \in Clients
  BY <1>1, TaskFields DEF Idle, Inv
<1>3. \A w \in Windows : /\ task.clients[w] = NULL <=> known'[w] = NULL
                         /\ task.clients[w] # NULL => /\ known'[w].place = task.clients[w].place
                                                      /\ known'[w].whole
  <2>1. ASSUME NEW w \in Windows
        PROVE  /\ task.clients[w] = NULL <=> Tracked(task.clients[w]) = NULL
               /\ task.clients[w] # NULL => /\ Tracked(task.clients[w]).place = task.clients[w].place
                                            /\ Tracked(task.clients[w]).whole
    BY <1>2, TrackedType DEF Clients
  <2> QED
    BY <2>1 DEF Hydrate, Dumped
<1>4. ASSUME Following'
      PROVE  /\ Present(real, rest, known') /\ Placed(real, rest, known')
             /\ StillFocused(realFocus, rest, focus') /\ Whole(rest, known', task')
  <2>1. /\ Present(real, rest, task.clients) /\ Placed(real, rest, task.clients)
        /\ StillFocused(realFocus, rest, task.focus)
    BY <1>1, <1>4, StillStream DEF Inv, Agree, DumpRight, Following
  <2> QED
    BY <1>1, <1>3, <2>1 DEF Present, Placed, Whole
<1> HIDE DEF rest
<1>5. KnownRight'
  BY <1>1, <1>2, <1>4, StillStream DEF KnownRight, rest
<1> QED
  BY <1>1, <1>2, <1>5, StillStream DEF Agree, DumpRight, FoundRight

\* The loss of a connection is taken from the stream before its successor.
LEMMA DisconnectedAgrees ==
  ASSUME Inv, Disconnected
  PROVE  Agree'
<1>1. /\ stream # << >> /\ stream' = Tail(stream) /\ Head(stream).kind = "disconnected"
      /\ UNCHANGED <<real, realFocus, linked, reply, saves, task>>
  BY DEF Disconnected, Takes, hypr, around
<1>2. StreamRight' /\ Announced' /\ SavesCounted'
  BY <1>1, PoppedAgrees DEF Inv, Agree, SavesCounted
<1>3. ~Following'
  <2>1. stream \in Seq(Items)
    BY DEF Inv, TypeOK
  <2>2. stream[1].kind = "disconnected" /\ 1 \in 1 .. Len(stream)
        /\ Later(stream', 1) = Later(stream, 1 + 1)
    BY <1>1, <2>1, StreamShrinks
  <2>3. linked => \E e \in Later(stream', 1) : e.kind = "connected"
    BY <2>2 DEF Inv, Agree, Announced
  <2> QED
    BY <1>1, <2>3 DEF Following, Fresh, Markers, Later
<1> QED
  BY <1>2, <1>3 DEF Agree, DumpRight, KnownRight, FoundRight

LEMMA LookupAgrees ==
  ASSUME Inv, Lookup
  PROVE  Agree'
<1> DEFINE rest == Later(stream, 1)
<1>1. UNCHANGED <<real, realFocus, linked, stream, reply, saves, known, focus>> /\ task.at = "opened"
  BY DEF Lookup, hypr, around, world
<1>2. CASE ~sound'
  BY <1>1, <1>2, StillStream DEF Agree, DumpRight, KnownRight, FoundRight, Following
<1>3. CASE task' = Found(task.window) /\ sound' = sound
  <2>1. task.window \in Windows
    BY <1>1, TaskFields DEF Inv
  <2>2. ASSUME Following'
        PROVE  /\ Present(real, rest, known) /\ (saves = 0 => Placed(real, rest, known))
               /\ StillFocused(realFocus, rest, focus) /\ Whole(rest, known, task)
    BY <1>1, <1>3, <2>2, StillStream DEF Inv, Agree, KnownRight, Following
  <2>3. CASE real[task.window] = NULL
    <3>1. task' = Idle /\ task'.at = "idle"
      BY <1>3, <2>3 DEF Found, Idle
    <3>2. ASSUME Following' PROVE Whole(rest, known, task')
      BY <2>1, <2>2, <2>3, <3>2 DEF Whole, Present, StillThere
    <3>3. KnownRight'
      BY <1>1, <2>2, <3>1, <3>2, StillStream DEF KnownRight
    <3> QED
      BY <1>1, <3>1, <3>3, StillStream DEF Agree, DumpRight, FoundRight
  <2>4. CASE real[task.window] # NULL
    <3>1. /\ task'.at = "enriched" /\ task'.window = task.window
          /\ task'.facts = real[task.window]
      BY <1>3, <2>4 DEF Found
    <3>2. ASSUME Following' PROVE Whole(rest, known, task')
      BY <1>1, <2>2, <3>1, <3>2 DEF Whole
    <3>3. KnownRight'
      BY <1>1, <2>2, <3>1, <3>2, StillStream DEF KnownRight
    <3>4. FoundRight'
      BY <1>1, <2>4, <3>1, StillStream DEF FoundRight, StillThere, StillAt
    <3> QED
      BY <1>1, <3>1, <3>3, <3>4, StillStream DEF Agree, DumpRight
  <2> QED
    BY <2>3, <2>4
<1> QED
  BY <1>2, <1>3, Zenon DEF Lookup

LEMMA EnrichAgrees ==
  ASSUME Inv, Enrich
  PROVE  Agree'
<1> DEFINE rest == Later(stream, 1)
           w    == task.window
<1>1. UNCHANGED <<real, realFocus, linked, stream, reply, saves, focus, sound>> /\ task.at = "enriched"
      /\ task' = Idle
  BY DEF Enrich, hypr, around
<1>2. task'.at = "idle" /\ w \in Windows /\ task.facts \in [place : Places, full : BOOLEAN]
  BY <1>1, TaskFields DEF Idle, Inv
<1>3. /\ known' = [known EXCEPT ![w] = Tracked(task.facts)] /\ known \in Tracks
      /\ Tracked(task.facts) # NULL /\ Tracked(task.facts).place = task.facts.place
      /\ Tracked(task.facts).whole
  <2>1. task.facts # NULL
    BY <1>2, NullAssumption
  <2>2. known' = [known EXCEPT ![w] = Tracked(task.facts)] /\ known \in Tracks
    BY DEF Enrich, Inv, TypeOK
  <2>3. /\ Tracked(task.facts) = [place |-> task.facts.place, full |-> task.facts.full, whole |-> TRUE]
        /\ Tracked(task.facts) # NULL
    <3>1. PICK c \in [place : Places, full : BOOLEAN] \cup {NULL} : c = task.facts
      BY <1>2
    <3> QED
      BY <2>1, <3>1, TrackedType
  <2> QED
    BY <2>2, <2>3
<1>4. ASSUME Following'
      PROVE  /\ Present(real, rest, known') /\ (saves = 0 => Placed(real, rest, known'))
             /\ StillFocused(realFocus, rest, focus) /\ Whole(rest, known', task')
  <2>1. /\ Present(real, rest, known) /\ (saves = 0 => Placed(real, rest, known))
        /\ StillFocused(realFocus, rest, focus) /\ Whole(rest, known, task)
        /\ StillThere(real, rest, w) /\ StillAt(real, rest, task.facts.place, w)
    BY <1>1, <1>4, StillStream DEF Inv, Agree, KnownRight, FoundRight, Following
  <2>2. known'[w] = Tracked(task.facts) /\ \A v \in Windows \ {w} : known'[v] = known[v]
    BY <1>2, <1>3 DEF Tracks
  <2> HIDE DEF rest, w
  <2>3. Present(real, rest, known') /\ (saves = 0 => Placed(real, rest, known'))
    BY <1>3, <2>1, <2>2 DEF Present, Placed
  <2>4. Whole(rest, known', task')
    BY <1>3, <2>1, <2>2 DEF Whole, w
  <2> QED
    BY <2>1, <2>3, <2>4
<1> HIDE DEF rest, w
<1>5. KnownRight'
  BY <1>1, <1>2, <1>4, StillStream DEF KnownRight, rest
<1> QED
  BY <1>1, <1>2, <1>5, StillStream DEF Agree, DumpRight, FoundRight

\* The world after an event, given that it was right about windows the event
\* and the rest do not speak of.
LEMMA AppliedAgrees ==
  ASSUME TypeOK, NEW rest, NEW e \in Items, Apply(e), task.at = "idle",
         NEW at, e.kind = "open" => at.at = "opened" /\ at.window = e.window,
         ItemRight(real, realFocus, rest, e),
         Present(real, {e} \cup rest, known),
         saves = 0 => Placed(real, {e} \cup rest, known),
         StillFocused(realFocus, {e} \cup rest, focus),
         Whole({e} \cup rest, known, task)
  PROVE  /\ Present(real, rest, known')
         /\ saves = 0 => Placed(real, rest, known')
         /\ StillFocused(realFocus, rest, focus')
         /\ Whole(rest, known', at)
<1> USE DEF Present, Placed, Whole, AboutLife, AboutPlace
<1>0. known \in Tracks /\ known \in [Windows -> [place : Places, full : BOOLEAN, whole : BOOLEAN] \cup {NULL}]
  BY DEF TypeOK, Tracks
<1>1. CASE e.kind = "open"
  <2>1. PICK k \in [place : Places, full : BOOLEAN, whole : BOOLEAN] : k = Bare(e.place)
    BY <1>1, ItemFields DEF Bare, Markers
  <2>2. /\ known' = [known EXCEPT ![e.window] = k] /\ focus' = focus /\ e.window \in Windows
        /\ k # NULL /\ k.place = e.place
    BY <1>1, <2>1, ItemFields, NullAssumption DEF Apply, Bare, Markers
  <2>3. StillThere(real, rest, e.window) /\ StillAt(real, rest, e.place, e.window)
    BY <1>1 DEF ItemRight
  <2>4. Present(real, rest, known')
    BY <1>0, <1>1, <2>2, <2>3 DEF StillThere, StillGone
  <2>5. saves = 0 => Placed(real, rest, known')
    BY <1>0, <1>1, <2>2, <2>3 DEF StillAt
  <2>6. StillFocused(realFocus, rest, focus')
    BY <1>1, <2>2 DEF StillFocused
  <2>7. Whole(rest, known', at)
    BY <1>0, <1>1, <2>2
  <2> QED
    BY <2>4, <2>5, <2>6, <2>7
<1>2. CASE e.kind = "close"
  <2>1. /\ known' = [known EXCEPT ![e.window] = NULL] /\ e.window \in Windows
        /\ focus' = focus \/ (focus' = NULL /\ focus = e.window)
    BY <1>2, ItemFields DEF Apply, Closed, FocusWithout, Markers
  <2>2. StillGone(real, rest, e.window) /\ StillUnfocused(realFocus, rest, e.window)
    BY <1>2 DEF ItemRight
  <2>3. Present(real, rest, known')
    BY <1>0, <1>2, <2>1, <2>2 DEF StillThere, StillGone
  <2>4. saves = 0 => Placed(real, rest, known')
    BY <1>0, <1>2, <2>1, <2>2 DEF StillAt
  <2>5. StillFocused(realFocus, rest, focus')
    BY <1>2, <2>1, <2>2 DEF StillFocused, StillUnfocused
  <2>6. Whole(rest, known', at)
    BY <1>0, <1>2, <2>1
  <2> QED
    BY <2>3, <2>4, <2>5, <2>6
<1>3. CASE e.kind = "move"
  <2>1. focus' = focus /\ e.window \in Windows
    BY <1>3, ItemFields DEF Apply, Markers
  <2>2. StillAt(real, rest, e.place, e.window)
    BY <1>3 DEF ItemRight
  <2>3. CASE known[e.window] = NULL
    <3>1. known' = known
      BY <1>3, <2>3 DEF Apply, Moved
    <3> QED
      BY <1>0, <1>3, <2>1, <2>3, <3>1 DEF StillThere, StillGone, StillAt, StillFocused
  <2>4. CASE known[e.window] # NULL
    <3>1. known[e.window] \in [place : Places, full : BOOLEAN, whole : BOOLEAN] /\ e.place \in Places
      BY <1>0, <1>3, <2>1, <2>4, ItemFields DEF Markers
    <3>2. PICK k \in [place : Places, full : BOOLEAN, whole : BOOLEAN] :
            k = [known[e.window] EXCEPT !.place = e.place]
      BY <3>1
    <3>3. k # NULL /\ k.place = e.place /\ k.whole = known[e.window].whole
      BY <3>1, <3>2, NullAssumption
    <3>4. known' = [known EXCEPT ![e.window] = k]
      BY <1>3, <2>4, <3>2 DEF Apply, Moved
    <3>5. Present(real, rest, known')
      BY <1>0, <1>3, <2>1, <2>4, <3>3, <3>4 DEF StillThere, StillGone
    <3>6. saves = 0 => Placed(real, rest, known')
      BY <1>0, <1>3, <2>1, <2>2, <3>3, <3>4 DEF StillAt
    <3>7. Whole(rest, known', at)
      BY <1>0, <1>3, <2>1, <2>4, <3>3, <3>4
    <3> QED
      BY <1>3, <2>1, <3>5, <3>6, <3>7 DEF StillFocused
  <2> QED
    BY <2>3, <2>4
<1>4. CASE e.kind = "focus"
  <2>1. known' = known /\ focus' = e.window /\ StillFocused(realFocus, rest, e.window)
    BY <1>4 DEF Apply, ItemRight
  <2> QED
    BY <1>4, <2>1 DEF StillThere, StillGone, StillAt
<1>5. CASE e.kind = "fullscreen"
  <2>1. focus' = focus /\ e.on \in BOOLEAN
    BY <1>5, ItemFields DEF Apply, Markers
  <2>2. \A w \in Windows : /\ known'[w] = NULL <=> known[w] = NULL
                           /\ known[w] # NULL => /\ known'[w].place = known[w].place
                                                 /\ known'[w].whole = known[w].whole
    <3>1. CASE focus = NULL \/ known[focus] = NULL
      BY <1>5, <3>1 DEF Apply, FullscreenFocused
    <3>2. CASE focus # NULL /\ known[focus] # NULL
      <4>1. focus \in Windows /\ known[focus] \in [place : Places, full : BOOLEAN, whole : BOOLEAN]
        BY <1>0, <3>2 DEF TypeOK
      <4>2. PICK k \in [place : Places, full : BOOLEAN, whole : BOOLEAN] :
              k = [known[focus] EXCEPT !.full = e.on]
        BY <2>1, <4>1
      <4>3. k # NULL /\ k.place = known[focus].place /\ k.whole = known[focus].whole
        BY <4>1, <4>2, NullAssumption
      <4>4. known' = [known EXCEPT ![focus] = k]
        BY <1>5, <3>2, <4>2 DEF Apply, FullscreenFocused
      <4> QED
        BY <1>0, <3>2, <4>1, <4>3, <4>4
    <3> QED
      BY <3>1, <3>2
  <2>3. Present(real, rest, known')
    BY <1>5, <2>2 DEF StillThere, StillGone
  <2>4. saves = 0 => Placed(real, rest, known')
    BY <1>5, <2>2 DEF StillAt
  <2>5. Whole(rest, known', at)
    BY <1>5, <2>2
  <2> QED
    BY <1>5, <2>1, <2>3, <2>4, <2>5 DEF StillFocused
<1> QED
  BY <1>1, <1>2, <1>3, <1>4, <1>5 DEF Apply

LEMMA HandleAgrees ==
  ASSUME Inv, Handle
  PROVE  Agree'
<1> DEFINE e    == Head(stream)
           rest == Later(stream, 1)'
<1>1. /\ stream # << >> /\ stream' = Tail(stream) /\ e.kind \notin Markers /\ Apply(e)
      /\ task = Idle /\ task' = Follow
      /\ UNCHANGED <<real, realFocus, linked, reply, saves, sound>>
  BY DEF Handle, hypr, around
<1>2. StreamRight' /\ Announced' /\ SavesCounted'
  BY <1>1, PoppedAgrees DEF Inv, Agree, SavesCounted
<1>3. /\ stream \in Seq(Items) /\ e \in Items /\ e = stream[1] /\ 1 \in 1 .. Len(stream)
      /\ Later(stream, 1) = {e} \cup rest /\ rest = Later(stream, 1 + 1)
      /\ (Fresh(stream, 1)' <=> Fresh(stream, 1 + 1))
  <2>1. stream \in Seq(Items)
    BY DEF Inv, TypeOK
  <2>2. rest = Later(Tail(stream), 1) /\ (Fresh(stream, 1)' <=> Fresh(Tail(stream), 1))
    BY <1>1 DEF Later, Fresh
  <2> QED
    BY <1>1, <2>1, <2>2, StreamShrinks
<1>4. Following' => Following
  BY <1>1, <1>3 DEF Following, Fresh
<1>5. /\ task.at = "idle" /\ task'.at \in {"idle", "opened"}
      /\ e.kind = "open" => task'.at = "opened" /\ task'.window = e.window
  BY <1>1 DEF Follow, Idle
<1>6. ASSUME Following'
      PROVE  /\ Present(real, rest, known')
             /\ saves = 0 => Placed(real, rest, known')
             /\ StillFocused(realFocus, rest, focus')
             /\ Whole(rest, known', task')
  <2>1. Following /\ linked /\ Fresh(stream, 1)
    BY <1>4, <1>6 DEF Following
  <2>2. /\ Present(real, {e} \cup rest, known)
        /\ saves = 0 => Placed(real, {e} \cup rest, known)
        /\ StillFocused(realFocus, {e} \cup rest, focus)
        /\ Whole({e} \cup rest, known, task)
    BY <1>3, <1>5, <2>1 DEF Inv, Agree, KnownRight
  <2>3. ItemRight(real, realFocus, rest, e)
    BY <1>3, <2>1 DEF Inv, Agree, StreamRight
  <2> HIDE DEF rest, e
  <2> QED
    BY <1>1, <1>3, <1>5, <2>2, <2>3, AppliedAgrees DEF Inv
<1>7. KnownRight'
  BY <1>1, <1>5, <1>6 DEF KnownRight
<1> QED
  BY <1>2, <1>5, <1>7 DEF Agree, DumpRight, FoundRight

-----------------------------------------------------------------------------
(* Theorems *)

LEMMA InitAgrees == ASSUME Init PROVE Agree
BY DEF Init, Agree, StreamRight, Announced, DumpRight, KnownRight, FoundRight, Following, SavesCounted

LEMMA StepAgrees ==
  ASSUME Inv, [Next]_vars
  PROVE  Agree'
<1>1. CASE UNCHANGED vars
  BY <1>1 DEF vars, Inv, Agree, StreamRight, Announced, DumpRight, KnownRight, FoundRight,
              Following, Fresh, Later, SavesCounted, Present, Placed, Whole
<1>2. CASE Compositor
  BY <1>2, CompositorAgrees
<1>3. CASE Connect \/ Drop
  BY <1>3, ConnectAgrees, DropAgrees
<1>4. CASE TaskStep
  BY <1>4, ConnectedAgrees, DumpAgrees, HydrateAgrees, DisconnectedAgrees, HandleAgrees,
     LookupAgrees, EnrichAgrees DEF TaskStep
<1>5. CASE SaveFetch \/ SaveRefresh
  BY <1>5, SaveAgrees
<1> QED
  BY <1>1, <1>2, <1>3, <1>4, <1>5 DEF Next

\* What the daemon holds is right but for what events on their way will correct,
\* from the first connection on.
THEOREM Invariance == Spec => []Inv
<1>1. Init => Inv
  BY InitTypes, InitAgrees DEF Inv
<1>2. Inv /\ [Next]_vars => Inv'
  BY TypesPreserved, StepAgrees DEF Inv
<1> QED
  BY <1>1, <1>2, PTL DEF Spec

\* Type correctness of the task, the stream and what is tracked.
THEOREM TypeCorrect == Spec => []TypeOK
BY Invariance, PTL DEF Inv

LEMMA QuietIsKnown ==
  ASSUME Inv, Quiet, sound
  PROVE  /\ Present(real, {}, known) /\ (saves = 0 => Placed(real, {}, known))
         /\ StillFocused(realFocus, {}, focus) /\ Whole({}, known, task) /\ task.at = "idle"
<1>1. stream = << >> /\ linked /\ task.at = "idle"
  BY DEF Quiet, Idle
<1>2. Later(stream, 1) = {}
  BY <1>1 DEF Later
<1> QED
  BY <1>1, <1>2 DEF Inv, Agree, KnownRight, Following, Fresh

\* Once nothing is on its way, World holds the windows and the focus there are.
THEOREM WindowsAgree == Spec => []WindowsConverge
<1>1. Inv => WindowsConverge
  BY QuietIsKnown DEF WindowsConverge, Present, StillThere, StillGone, StillFocused
<1> QED
  BY <1>1, Invariance, PTL

\* And the workspaces they are on, if no save interfered.
THEOREM PlacesAgree == Spec => []PlacesConverge
<1>1. ASSUME Inv PROVE PlacesConverge
  <2>1. ASSUME Quiet, sound, saves = 0, NEW w \in Windows, real[w] # NULL
        PROVE  known[w].place = real[w].place
    BY <1>1, <2>1, QuietIsKnown DEF Present, Placed, StillGone, StillAt
  <2> QED
    BY <2>1 DEF PlacesConverge
<1> QED
  BY <1>1, Invariance, PTL

\* And the facts of every window that opened.
THEOREM FactsAreComplete == Spec => []FactsComplete
<1>1. Inv => FactsComplete
  BY QuietIsKnown DEF FactsComplete, Whole
<1> QED
  BY <1>1, Invariance, PTL

=============================================================================
