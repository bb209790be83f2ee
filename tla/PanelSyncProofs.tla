--------------------------- MODULE PanelSyncProofs ---------------------------
(***************************************************************************)
(* The panel is fresh when nothing is on its way, never goes back, is owed *)
(* what it waits for, and has its requests handled in order: for any       *)
(* events, requests, capacities and ends of the daemon.                    *)
(***************************************************************************)
EXTENDS PanelSync, SequenceTheorems, TLAPS

Kinds == {"subscribe", "snapshot"} \cup UiKinds
Lines == [id : Nat, kind : Kinds, n : Nat]
PanelLines == [type : {"response", "event"}, id : Nat, ok : BOOLEAN, stamp : Nat,
               event : Emitted \cup {"none"}]
Announcements == [event : Emitted, at : Nat]
Servings == [id : Nat, kind : {"idle"} \cup Kinds, n : Nat, answered : BOOLEAN, ok : BOOLEAN,
             stamp : Nat]
Notes == [id : Nat, kind : {"snapshot", "details", "capture"}]

Types ==
    /\ phase \in {"running", "stopping", "down"} /\ link \in {"none", "up", "closing"}
    /\ sub \in BOOLEAN /\ lagged \in BOOLEAN
    /\ stamp \in Nat /\ seq \in Nat /\ stops \in Nat /\ said \in Nat /\ lost \in Nat
    /\ nextId \in Nat /\ asked \in Nat /\ shown \in Nat
    /\ handled \in Seq(Nat) /\ outbox \in Seq([n : Nat, kind : UiKinds])
    /\ inbox \in Seq(Announcements) /\ Len(inbox) <= BusCapacity
    /\ toPanel \in Seq(PanelLines) /\ Len(toPanel) <= SocketCapacity
    /\ toServer \in Seq(Lines)
    /\ serving \in Servings
    /\ pending \subseteq Notes
    /\ ui \in {"blank", "live", "disconnected"}

\* What a connection that is not up has left.
Ends ==
    /\ link # "up" => serving = Idle /\ toServer = <<>> /\ sub = FALSE
    /\ link = "none" => toPanel = <<>> /\ pending = {}
    /\ phase = "down" => link # "up"
    /\ sub = FALSE => inbox = <<>> /\ lagged = FALSE

IsResponse(line) == line.type = "response"

\* Every id is used once, and the ids on their way are in order.
InLine ==
    /\ \A i \in 1 .. Len(toServer) : toServer[i].id < nextId
    /\ \A i, j \in 1 .. Len(toServer) : i < j => toServer[i].id < toServer[j].id
    /\ serving # Idle =>
          /\ serving.id < nextId
          /\ \A i \in 1 .. Len(toServer) : serving.id < toServer[i].id
    /\ \A i \in 1 .. Len(toPanel) : IsResponse(toPanel[i]) =>
          /\ toPanel[i].id < nextId
          /\ serving # Idle => toPanel[i].id < serving.id
          /\ \A j \in 1 .. Len(toServer) : toPanel[i].id < toServer[j].id
          /\ \A j \in 1 .. Len(toPanel) :
                i < j /\ IsResponse(toPanel[j]) => toPanel[i].id < toPanel[j].id
    /\ \A p \in pending : p.id < nextId

\* The subscription is the first request of a connection and the snapshot
\* the second.
Opening ==
    /\ nextId >= 1 /\ (link = "up" => nextId >= 3)
    /\ \A i \in 1 .. Len(toServer) :
          (toServer[i].kind = "subscribe" <=> toServer[i].id = 1) /\ toServer[i].id >= 1
    /\ serving # Idle => serving.id >= 2 /\ serving.kind # "idle" /\ serving.kind # "subscribe"
    /\ serving.answered => serving # Idle
    /\ serving.ok => serving.answered
    /\ \A p \in pending : p.id >= 2
    /\ link = "up" /\ sub => \A i \in 1 .. Len(toServer) : toServer[i].id >= 2
    /\ link = "up" /\ ~sub =>
          /\ Len(toServer) >= 2 /\ toServer[1].id = 1 /\ toServer[2].id = 2
          /\ [id |-> 2, kind |-> "snapshot"] \in pending
          /\ serving = Idle

\* The snapshot notes are of requests for snapshots, which a running daemon
\* does not refuse.
Known(p) ==
    /\ \A i \in 1 .. Len(toServer) : toServer[i].id = p.id => toServer[i].kind = "snapshot"
    /\ serving.id = p.id => /\ serving.kind = "snapshot"
                            /\ phase = "running" /\ serving.answered => serving.ok
    /\ phase = "running" /\ link = "up" =>
          \A i \in 1 .. Len(toPanel) :
              IsResponse(toPanel[i]) /\ toPanel[i].id = p.id => toPanel[i].ok
NotesKnown == \A p \in pending : p.kind = "snapshot" => Known(p)

\* Announcements are dropped, kept and made in the order of the changes.
BusInOrder ==
    /\ lost <= said
    /\ \A i \in 1 .. Len(inbox) : Announces(inbox[i].event) =>
          /\ lost < inbox[i].at /\ inbox[i].at <= said
          /\ \A j \in 1 .. Len(inbox) :
                i < j /\ Announces(inbox[j].event) => inbox[i].at < inbox[j].at

\* Copies of the state on their way, in order of their age.
Copy(line) == IsResponse(line) /\ line.ok /\ line.id >= 2
Rising ==
    /\ shown <= stamp /\ said <= stamp
    /\ \A i \in 1 .. Len(toPanel) : Copy(toPanel[i]) =>
          /\ shown <= toPanel[i].stamp /\ toPanel[i].stamp <= stamp
          /\ serving.answered /\ serving.ok => toPanel[i].stamp <= serving.stamp
          /\ \A j \in 1 .. Len(toPanel) :
                i < j /\ Copy(toPanel[j]) => toPanel[i].stamp <= toPanel[j].stamp
    /\ serving.answered /\ serving.ok => shown <= serving.stamp /\ serving.stamp <= stamp

\* A snapshot under note p will show the last announced change.
Coming(p) ==
    \/ \E i \in 1 .. Len(toServer) : toServer[i].id = p.id
    \/ serving.id = p.id /\ (serving.answered => serving.stamp >= said)
    \/ \E i \in 1 .. Len(toPanel) :
          IsResponse(toPanel[i]) /\ toPanel[i].id = p.id /\ toPanel[i].stamp >= said

\* The i-th line will make the client fetch a snapshot, if no copy that is
\* fresh enough follows it.
Heralds(i) ==
    /\ ~IsResponse(toPanel[i]) /\ ~Noisy(toPanel[i].event)
    /\ serving.answered /\ serving.ok => serving.stamp >= said
    /\ \A j \in 1 .. Len(toPanel) : i < j /\ Copy(toPanel[j]) => toPanel[j].stamp >= said

Covered ==
    \/ shown >= said
    \/ lost = said
    \/ \E i \in 1 .. Len(inbox) : Announces(inbox[i].event) /\ inbox[i].at = said
    \/ \E i \in 1 .. Len(toPanel) : Heralds(i)
    \/ \E p \in pending : p.kind = "snapshot" /\ Coming(p)

Lively == ui = "live" \/ Fetching
Fresh == link = "up" /\ phase = "running" => Covered /\ Lively

\* The requests of the user on their way, in order.
Waits == serving.kind \in UiKinds /\ ~serving.answered
InTurn ==
    /\ AtMostOnceInOrder
    /\ \A i \in 1 .. Len(handled) :
          /\ handled[i] <= asked
          /\ Waits => handled[i] < serving.n
          /\ \A j \in 1 .. Len(toServer) : toServer[j].kind \in UiKinds => handled[i] < toServer[j].n
          /\ \A j \in 1 .. Len(outbox) : handled[i] < outbox[j].n
    /\ Waits =>
          /\ serving.n <= asked
          /\ \A j \in 1 .. Len(toServer) : toServer[j].kind \in UiKinds => serving.n < toServer[j].n
          /\ \A j \in 1 .. Len(outbox) : serving.n < outbox[j].n
    /\ \A i \in 1 .. Len(toServer) : toServer[i].kind \in UiKinds =>
          /\ toServer[i].n <= asked
          /\ \A j \in 1 .. Len(toServer) :
                i < j /\ toServer[j].kind \in UiKinds => toServer[i].n < toServer[j].n
          /\ \A j \in 1 .. Len(outbox) : toServer[i].n < outbox[j].n
    /\ \A i \in 1 .. Len(outbox) :
          /\ outbox[i].n <= asked
          /\ \A j \in 1 .. Len(outbox) : i < j => outbox[i].n < outbox[j].n

Ids == InLine /\ Opening /\ OwedReplies
Inv == Types /\ Ends /\ Ids /\ NotesKnown /\ BusInOrder /\ Rising /\ Fresh /\ InTurn

-----------------------------------------------------------------------------
(* Types *)

LEMMA AppendFacts ==
    ASSUME NEW S, NEW s \in Seq(S), NEW e \in S
    PROVE  /\ Append(s, e) \in Seq(S) /\ Len(Append(s, e)) = Len(s) + 1 /\ Len(s) \in Nat
           /\ \A i \in 1 .. Len(s) : Append(s, e)[i] = s[i]
           /\ Append(s, e)[Len(s) + 1] = e
OBVIOUS

LEMMA TailFacts ==
    ASSUME NEW S, NEW s \in Seq(S), s # <<>>
    PROVE  /\ Tail(s) \in Seq(S) /\ Len(Tail(s)) = Len(s) - 1 /\ Len(s) \in Nat \ {0}
           /\ Head(s) = s[1] /\ Head(s) \in S
           /\ \A i \in 1 .. Len(s) - 1 : Tail(s)[i] = s[i + 1]
OBVIOUS

LEMMA ServingTypes ==
    /\ Idle \in Servings
    /\ \A l \in Lines : [id |-> l.id, kind |-> l.kind, n |-> l.n, answered |-> FALSE,
                          ok |-> FALSE, stamp |-> 0] \in Servings
    /\ \A s \in Servings, ok \in BOOLEAN, at \in Nat :
          /\ [s EXCEPT !.answered = TRUE, !.ok = ok, !.stamp = at] \in Servings
          /\ [s EXCEPT !.answered = TRUE] \in Servings
BY DEF Idle, Servings, Lines, Kinds

LEMMA EmitTypes ==
    ASSUME Types, NEW event \in Emitted, NEW at \in Nat, Emit(event, at)
    PROVE  /\ seq' \in Nat /\ said' \in Nat /\ lost' \in Nat /\ lagged' \in BOOLEAN
           /\ inbox' \in Seq(Announcements) /\ Len(inbox') <= BusCapacity
<1>1. seq' \in Nat /\ said' \in Nat
    BY DEF Types, Emit
<1>2. CASE ~sub
    BY <1>1, <1>2 DEF Types, Emit
<1>3. CASE sub
    <2> DEFINE e == [event |-> event, at |-> at]
               full == Len(inbox) = BusCapacity
               old == IF full THEN Tail(inbox) ELSE inbox
    <2>1. e \in Announcements
        BY DEF Announcements
    <2>2. old \in Seq(Announcements) /\ Len(old) + 1 <= BusCapacity
        BY CapacityAssumption, TailFacts DEF Types
    <2>3. inbox' = Append(old, e) /\ lagged' = (lagged \/ full)
        BY <1>3 DEF Emit
    <2>4. full => Head(inbox).at \in Nat
        <3>1. inbox \in Seq(Announcements)
            BY DEF Types
        <3>2. full => inbox # <<>>
            BY CapacityAssumption
        <3>3. full => Head(inbox) \in Announcements
            BY <3>1, <3>2, TailFacts
        <3> QED BY <3>3 DEF Announcements
    <2>5. lost' \in Nat
        BY <1>3, <2>4 DEF Emit, Types
    <2>6. inbox' \in Seq(Announcements) /\ Len(inbox') = Len(old) + 1
        BY <2>1, <2>2, <2>3, AppendFacts
    <2> QED BY <1>1, <2>2, <2>3, <2>5, <2>6 DEF Types
<1> QED BY <1>2, <1>3

\* The state actor's steps.
LEMMA ActorTypes == ASSUME Types, Actor PROVE Types'
<1>1. ASSUME NEW ok \in BOOLEAN, Reply(ok)
      PROVE  serving' \in Servings /\ handled' \in Seq(Nat)
    <2>1. serving.n \in Nat /\ serving' \in Servings
        BY <1>1, ServingTypes DEF Types, Reply, Servings
    <2> QED BY <1>1, <2>1, AppendFacts DEF Types, Reply
<1>2. CASE AnswerSnapshot
    BY <1>1, <1>2 DEF AnswerSnapshot, Types, clientVars
<1>3. ASSUME NEW ok \in BOOLEAN, AnswerQuietly(ok) PROVE Types'
    BY <1>1, <1>3 DEF AnswerQuietly, Types, clientVars
<1>4. ASSUME NEW event \in Emitted, Obey(event) PROVE Types'
    <2>1. serving' \in Servings /\ handled' \in Seq(Nat)
        BY <1>1, <1>4 DEF Obey
    <2>2. stamp + 1 \in Nat
        BY DEF Types
    <2> QED BY <1>4, <2>1, <2>2, EmitTypes DEF Obey, Types, clientVars
<1> QED BY <1>2, <1>3, <1>4 DEF Actor

LEMMA ResponseTypes ==
    ASSUME NEW id \in Nat, NEW ok \in BOOLEAN, NEW at \in Nat, NEW event \in Emitted
    PROVE  Response(id, ok, at) \in PanelLines /\ EventLine(event) \in PanelLines
BY DEF Response, EventLine, PanelLines

\* A line the server's end adds to the socket.
LEMMA WriteTypes ==
    ASSUME Types, CanWrite, NEW line \in PanelLines
    PROVE  Append(toPanel, line) \in Seq(PanelLines) /\ Len(Append(toPanel, line)) <= SocketCapacity
<1>1. toPanel \in Seq(PanelLines) /\ Len(toPanel) < SocketCapacity /\ SocketCapacity \in Nat
    BY CapacityAssumption DEF Types, CanWrite
<1> QED BY <1>1, AppendFacts

LEMMA TakenTypes ==
    ASSUME Types, toServer # <<>>
    PROVE  /\ Tail(toServer) \in Seq(Lines) /\ Head(toServer) \in Lines
           /\ Head(toServer).id \in Nat /\ Head(toServer).n \in Nat
<1>1. toServer \in Seq(Lines)
    BY DEF Types
<1>2. Tail(toServer) \in Seq(Lines) /\ Head(toServer) \in Lines
    BY <1>1, TailFacts
<1> QED BY <1>2 DEF Lines

LEMMA HangUpTypes ==
    ASSUME Types, HangUp
    PROVE  /\ link' \in {"none", "up", "closing"} /\ toServer' \in Seq(Lines)
           /\ sub' \in BOOLEAN /\ lagged' \in BOOLEAN /\ serving' \in Servings
           /\ inbox' \in Seq(Announcements) /\ Len(inbox') <= BusCapacity
<1>1. <<>> \in Seq(Lines) /\ <<>> \in Seq(Announcements) /\ Len(<<>>) <= BusCapacity
    BY CapacityAssumption
<1> QED BY <1>1, ServingTypes DEF HangUp, Types

\* The steps of the server's end.
LEMMA ServerTypes == ASSUME Types, Server PROVE Types'
<1>1. CASE Subscribe
    <2>1. Append(toPanel, Response(Head(toServer).id, TRUE, 0)) \in Seq(PanelLines)
          /\ Len(Append(toPanel, Response(Head(toServer).id, TRUE, 0))) <= SocketCapacity
        <3>1. Response(Head(toServer).id, TRUE, 0) \in PanelLines
            BY <1>1, TakenTypes DEF Subscribe, Response, PanelLines
        <3> QED BY <1>1, <3>1, WriteTypes DEF Subscribe
    <2>2. <<>> \in Seq(Announcements) /\ Len(<<>>) <= BusCapacity
        BY CapacityAssumption
    <2> QED BY <1>1, <2>1, <2>2, TakenTypes DEF Subscribe, Types, daemonVars, clientVars
<1>2. CASE Forward
    <2>1. serving' \in Servings
        BY <1>2, TakenTypes, ServingTypes DEF Forward
    <2> QED BY <1>2, <2>1, TakenTypes DEF Forward, Types, daemonVars, clientVars
<1>3. CASE AnswerDropped
    BY <1>3, ServingTypes DEF AnswerDropped, Types, daemonVars, clientVars
<1>4. CASE WriteResponse
    <2>1. Response(serving.id, serving.ok, serving.stamp) \in PanelLines
        BY ResponseTypes DEF Types, Servings, Response, PanelLines
    <2> QED BY <1>4, <2>1, WriteTypes, ServingTypes DEF WriteResponse, Types, daemonVars, clientVars
<1>5. CASE Push
    <2>1. CASE lagged
        BY <1>5, <2>1 DEF Push, Types, daemonVars, clientVars
    <2>2. CASE ~lagged
        <3>1. inbox \in Seq(Announcements) /\ inbox # <<>>
            BY <1>5, <2>2 DEF Push, Types
        <3>2. Tail(inbox) \in Seq(Announcements) /\ Len(Tail(inbox)) <= BusCapacity
              /\ Head(inbox) \in Announcements
            BY <3>1, TailFacts, CapacityAssumption DEF Types
        <3>3. EventLine(Head(inbox).event) \in PanelLines
            BY <3>2 DEF EventLine, PanelLines, Announcements
        <3>4. toPanel' \in Seq(PanelLines) /\ Len(toPanel') <= SocketCapacity
            BY <1>5, <2>2, <3>3, WriteTypes DEF Push, Types
        <3> QED BY <1>5, <2>2, <3>2, <3>4 DEF Push, Types, daemonVars, clientVars
    <2> QED BY <2>1, <2>2
<1>6. CASE Cancelled
    BY <1>6, HangUpTypes DEF Cancelled, Types, daemonVars, clientVars
<1> QED BY <1>1, <1>2, <1>3, <1>4, <1>5, <1>6 DEF Server

LEMMA LoseTypes ==
    ASSUME Types, Lose
    PROVE  /\ link' \in {"none", "up", "closing"} /\ toServer' \in Seq(Lines)
           /\ toPanel' \in Seq(PanelLines) /\ Len(toPanel') <= SocketCapacity
           /\ pending' \subseteq Notes /\ ui' \in {"blank", "live", "disconnected"}
<1>1. <<>> \in Seq(Lines) /\ <<>> \in Seq(PanelLines) /\ Len(<<>>) <= SocketCapacity
    BY CapacityAssumption
<1> QED BY <1>1 DEF Lose

LEMMA ReadTypes ==
    ASSUME Types, toPanel # <<>>
    PROVE  /\ Tail(toPanel) \in Seq(PanelLines) /\ Len(Tail(toPanel)) <= SocketCapacity
           /\ Head(toPanel) \in PanelLines /\ Head(toPanel).stamp \in Nat
<1>1. toPanel \in Seq(PanelLines) /\ Len(toPanel) <= SocketCapacity
    BY DEF Types
<1>2. /\ Tail(toPanel) \in Seq(PanelLines) /\ Head(toPanel) \in PanelLines
      /\ Len(Tail(toPanel)) = Len(toPanel) - 1 /\ Len(toPanel) \in Nat
    BY <1>1, TailFacts
<1>3. Len(Tail(toPanel)) <= SocketCapacity
    BY <1>1, <1>2, CapacityAssumption
<1> QED BY <1>2, <1>3 DEF PanelLines

\* The steps of the panel's thread.
LEMMA ClientTypes == ASSUME Types, Client PROVE Types'
<1>1. CASE Connect
    <2>1. toServer' \in Seq(Lines) /\ toPanel' \in Seq(PanelLines) /\ Len(toPanel') <= SocketCapacity
        <3>1. Line(1, "subscribe", 0) \in Lines /\ Line(2, "snapshot", 0) \in Lines
            BY DEF Line, Lines, Kinds
        <3>2. toServer' = <<Line(1, "subscribe", 0), Line(2, "snapshot", 0)>> /\ toPanel' = <<>>
            BY <1>1 DEF Connect
        <3> QED BY <3>1, <3>2, CapacityAssumption
    <2>2. pending' \subseteq Notes /\ nextId' \in Nat /\ link' \in {"none", "up", "closing"}
          /\ lost' \in Nat
        BY <1>1 DEF Connect, Notes
    <2> QED BY <1>1, <2>1, <2>2 DEF Connect, Types, daemonVars
<1>2. CASE ConnectRefused
    BY <1>2, LoseTypes DEF ConnectRefused, Types, daemonVars, serverVars
<1>3. CASE EndOfFile
    BY <1>3, LoseTypes DEF EndOfFile, Types, daemonVars, serverVars
<1>4. CASE TakeAsked
    <2>1. outbox' \in Seq([n : Nat, kind : UiKinds]) /\ Head(outbox) \in [n : Nat, kind : UiKinds]
        <3>1. outbox \in Seq([n : Nat, kind : UiKinds]) /\ outbox # <<>> /\ outbox' = Tail(outbox)
            BY <1>4 DEF TakeAsked, Types
        <3> QED BY <3>1, TailFacts
    <2>2. CASE link = "closing"
        BY <1>4, <2>1, <2>2, LoseTypes DEF TakeAsked, Types, daemonVars, serverVars
    <2>3. CASE link # "closing"
        <3> DEFINE request == Head(outbox)
                   note == Expects(request.kind)
        <3>1. Line(nextId, request.kind, request.n) \in Lines /\ nextId + 1 \in Nat
            BY <2>1 DEF Line, Lines, Kinds, Types
        <3>2. Append(toServer, Line(nextId, request.kind, request.n)) \in Seq(Lines)
            BY <3>1, AppendFacts DEF Types
        <3>3. note # "nothing" => [id |-> nextId, kind |-> note] \in Notes
            BY DEF Notes, Expects, Types
        <3>4. /\ toServer' = Append(toServer, Line(nextId, request.kind, request.n))
              /\ nextId' = nextId + 1
              /\ pending' = IF note = "nothing" THEN pending
                            ELSE pending \cup {[id |-> nextId, kind |-> note]}
              /\ UNCHANGED <<link, toPanel, ui, daemonVars, serverVars, asked, shown>>
            BY <1>4, <2>3 DEF TakeAsked
        <3>5. pending' \subseteq Notes
            BY <3>3, <3>4 DEF Types
        <3> HIDE DEF request, note
        <3> QED BY <2>1, <3>1, <3>2, <3>4, <3>5 DEF Types, daemonVars, serverVars
    <2> QED BY <2>2, <2>3
<1>5. CASE ReadResponse
    BY <1>5, ReadTypes DEF ReadResponse, Types, daemonVars, serverVars
<1>6. CASE ReadEvent
    <2>1. CASE Noisy(Head(toPanel).event) \/ Fetching
        BY <1>6, <2>1, ReadTypes DEF ReadEvent, Types, daemonVars, serverVars
    <2>2. CASE ~(Noisy(Head(toPanel).event) \/ Fetching) /\ link = "closing"
        BY <1>6, <2>2, LoseTypes DEF ReadEvent, Types, daemonVars, serverVars
    <2>3. CASE ~(Noisy(Head(toPanel).event) \/ Fetching) /\ link # "closing"
        <3>1. Line(nextId, "snapshot", 0) \in Lines /\ nextId + 1 \in Nat
            BY DEF Line, Lines, Kinds, Types
        <3>2. Append(toServer, Line(nextId, "snapshot", 0)) \in Seq(Lines)
            BY <3>1, AppendFacts DEF Types
        <3>3. pending \cup {[id |-> nextId, kind |-> "snapshot"]} \subseteq Notes
            BY DEF Notes, Types
        <3> QED BY <1>6, <2>3, <3>1, <3>2, <3>3, ReadTypes DEF ReadEvent, Types, daemonVars, serverVars
    <2> QED BY <2>1, <2>2, <2>3
<1> QED BY <1>1, <1>2, <1>3, <1>4, <1>5, <1>6 DEF Client

\* What happens around them.
LEMMA OtherTypes == ASSUME Types, Environment \/ Exit \/ Start PROVE Types'
<1>1. ASSUME NEW event \in Emitted, Change(event) PROVE Types'
    <2>1. stamp + 1 \in Nat
        BY DEF Types
    <2> QED BY <1>1, <2>1, EmitTypes DEF Change, Types, clientVars
<1>2. ASSUME NEW event \in Emitted, Noise(event) PROVE Types'
    <2>1. stamp \in Nat
        BY DEF Types
    <2> QED BY <1>2, <2>1, EmitTypes DEF Noise, Types, clientVars
<1>3. CASE SilentChange
    BY <1>3 DEF SilentChange, Types, serverVars, clientVars
<1>4. ASSUME NEW kind \in UiKinds, Ask(kind) PROVE Types'
    <2> DEFINE Requests == [n : Nat, kind : UiKinds]
    <2>1. [n |-> asked + 1, kind |-> kind] \in Requests /\ asked + 1 \in Nat
        BY DEF Types
    <2>2. outbox' \in Seq(Requests)
        BY <1>4, <2>1, AppendFacts DEF Ask, Types
    <2> QED BY <1>4, <2>1, <2>2 DEF Ask, Types, daemonVars, serverVars
<1>5. CASE StopActor
    BY <1>5 DEF StopActor, Types, serverVars, clientVars
<1>6. CASE Crash
    BY <1>6, HangUpTypes DEF Crash, Types, clientVars
<1>7. CASE Exit
    BY <1>7, HangUpTypes DEF Exit, Types, clientVars
<1>8. CASE Start
    BY <1>8 DEF Start, Types, serverVars, clientVars
<1> QED BY <1>1, <1>2, <1>3, <1>4, <1>5, <1>6, <1>7, <1>8 DEF Environment

-----------------------------------------------------------------------------
(* What the steps do to the lines on their way. *)

LEMMA ServerTakes ==
    ASSUME Types, toServer # <<>>, toServer' = Tail(toServer)
    PROVE  /\ Len(toServer) \in Nat \ {0} /\ Len(toServer') = Len(toServer) - 1
           /\ Head(toServer) = toServer[1] /\ Head(toServer) \in Lines
           /\ 1 \in 1 .. Len(toServer)
           /\ \A i \in 1 .. Len(toServer') :
                 i + 1 \in 1 .. Len(toServer) /\ toServer'[i] = toServer[i + 1]
<1>1. toServer \in Seq(Lines)
    BY DEF Types
<1>2. /\ Len(toServer) \in Nat \ {0} /\ Len(Tail(toServer)) = Len(toServer) - 1
      /\ Head(toServer) = toServer[1] /\ Head(toServer) \in Lines
      /\ \A i \in 1 .. Len(toServer) - 1 : Tail(toServer)[i] = toServer[i + 1]
    BY <1>1, TailFacts
<1> QED BY <1>2

LEMMA ServerGets ==
    ASSUME Types, NEW line \in Lines, toServer' = Append(toServer, line)
    PROVE  /\ Len(toServer) \in Nat /\ Len(toServer') = Len(toServer) + 1
           /\ toServer'[Len(toServer')] = line /\ Len(toServer') \in 1 .. Len(toServer')
           /\ \A i \in 1 .. Len(toServer) : i \in 1 .. Len(toServer') /\ toServer'[i] = toServer[i]
           /\ \A i \in 1 .. Len(toServer') : i # Len(toServer') => i \in 1 .. Len(toServer)
<1>1. toServer \in Seq(Lines)
    BY DEF Types
<1>2. /\ Len(toServer') = Len(toServer) + 1 /\ Len(toServer) \in Nat
      /\ \A i \in 1 .. Len(toServer) : toServer'[i] = toServer[i]
      /\ toServer'[Len(toServer) + 1] = line
    BY <1>1, AppendFacts
<1> QED BY <1>2

LEMMA PanelReads ==
    ASSUME Types, toPanel # <<>>, toPanel' = Tail(toPanel)
    PROVE  /\ Len(toPanel) \in Nat \ {0} /\ Len(toPanel') = Len(toPanel) - 1
           /\ Head(toPanel) = toPanel[1] /\ Head(toPanel) \in PanelLines
           /\ 1 \in 1 .. Len(toPanel)
           /\ \A i \in 1 .. Len(toPanel') :
                 i + 1 \in 1 .. Len(toPanel) /\ toPanel'[i] = toPanel[i + 1]
<1>1. toPanel \in Seq(PanelLines)
    BY DEF Types
<1>2. /\ Len(toPanel) \in Nat \ {0} /\ Len(Tail(toPanel)) = Len(toPanel) - 1
      /\ Head(toPanel) = toPanel[1] /\ Head(toPanel) \in PanelLines
      /\ \A i \in 1 .. Len(toPanel) - 1 : Tail(toPanel)[i] = toPanel[i + 1]
    BY <1>1, TailFacts
<1> QED BY <1>2

LEMMA PanelGets ==
    ASSUME Types, NEW line \in PanelLines, toPanel' = Append(toPanel, line)
    PROVE  /\ Len(toPanel) \in Nat /\ Len(toPanel') = Len(toPanel) + 1
           /\ toPanel'[Len(toPanel')] = line /\ Len(toPanel') \in 1 .. Len(toPanel')
           /\ \A i \in 1 .. Len(toPanel) : i \in 1 .. Len(toPanel') /\ toPanel'[i] = toPanel[i]
           /\ \A i \in 1 .. Len(toPanel') : i # Len(toPanel') => i \in 1 .. Len(toPanel)
<1>1. toPanel \in Seq(PanelLines)
    BY DEF Types
<1>2. /\ Len(toPanel') = Len(toPanel) + 1 /\ Len(toPanel) \in Nat
      /\ \A i \in 1 .. Len(toPanel) : toPanel'[i] = toPanel[i]
      /\ toPanel'[Len(toPanel) + 1] = line
    BY <1>1, AppendFacts
<1> QED BY <1>2

-----------------------------------------------------------------------------
(* Requests of the user *)

\* Whatever else a step does, requests that only leave keep the others in turn.
LEMMA TurnLess ==
    ASSUME Types, Types', InTurn,
           handled' = handled, asked' = asked, outbox' = outbox,
           toServer' = toServer \/ toServer' = <<>>,
           Waits' => Waits /\ serving'.n = serving.n
    PROVE  InTurn'
<1>1. Len(<<>>) = 0
    OBVIOUS
<1>2. AtMostOnceInOrder'
    BY DEF InTurn, AtMostOnceInOrder
<1>3. CASE toServer' = toServer
    BY <1>2, <1>3 DEF InTurn
<1>4. CASE toServer' = <<>>
    BY <1>1, <1>2, <1>4 DEF InTurn
<1> QED BY <1>3, <1>4

\* The actor takes the request the server's end waits with.
LEMMA TurnHandled ==
    ASSUME Types, InTurn, NEW ok \in BOOLEAN, Reply(ok), asked' = asked, outbox' = outbox,
           toServer' = toServer
    PROVE  InTurn'
<1>1. ~Waits'
    BY DEF Reply, Waits, Types, Servings
<1>2. CASE serving.kind \notin UiKinds
    <2>1. handled' = handled
        BY <1>2 DEF Reply
    <2> QED BY <1>1, <2>1 DEF InTurn, AtMostOnceInOrder
<1>3. CASE serving.kind \in UiKinds
    <2>1. Waits /\ handled' = Append(handled, serving.n) /\ serving.n \in Nat /\ handled \in Seq(Nat)
        BY <1>3 DEF Reply, Waits, Types, Servings
    <2>2. /\ Len(handled) \in Nat /\ Len(handled') = Len(handled) + 1
          /\ \A i \in 1 .. Len(handled) : handled'[i] = handled[i] /\ handled[i] \in Nat
          /\ handled'[Len(handled')] = serving.n
          /\ DOMAIN handled = 1 .. Len(handled) /\ DOMAIN handled' = 1 .. Len(handled')
        BY <2>1, AppendFacts
    <2>3. \A i \in 1 .. Len(handled') : i \in 1 .. Len(handled) \/ i = Len(handled')
        BY <2>2
    <2>4. AtMostOnceInOrder'
        <3> SUFFICES ASSUME NEW i \in 1 .. Len(handled'), NEW j \in 1 .. Len(handled'), i < j
                     PROVE  handled'[i] < handled'[j]
            BY <2>2 DEF AtMostOnceInOrder
        <3>1. i \in 1 .. Len(handled) /\ handled'[i] = handled[i]
            BY <2>2
        <3>2. CASE j = Len(handled')
            BY <2>1, <2>2, <3>1, <3>2 DEF InTurn
        <3>3. CASE j # Len(handled')
            <4>1. j \in 1 .. Len(handled) /\ handled'[j] = handled[j]
                BY <2>2, <2>3, <3>3
            <4> QED BY <2>2, <3>1, <4>1 DEF InTurn, AtMostOnceInOrder
        <3> QED BY <3>2, <3>3
    <2>5. ASSUME NEW i \in 1 .. Len(handled')
          PROVE  /\ handled'[i] <= asked
                 /\ \A j \in 1 .. Len(toServer) :
                       toServer[j].kind \in UiKinds => handled'[i] < toServer[j].n
                 /\ \A j \in 1 .. Len(outbox) : handled'[i] < outbox[j].n
        <3>1. CASE i = Len(handled')
            BY <2>1, <2>2, <3>1 DEF InTurn
        <3>2. CASE i # Len(handled')
            <4>1. i \in 1 .. Len(handled) /\ handled'[i] = handled[i]
                BY <2>2, <2>3, <3>2
            <4> QED BY <4>1 DEF InTurn
        <3> QED BY <3>1, <3>2
    <2> QED BY <1>1, <2>4, <2>5 DEF InTurn
<1> QED BY <1>2, <1>3

\* The server's end takes a line that is no request of the user, or waits with
\* the one it takes.
LEMMA TurnTaken ==
    ASSUME Types, InTurn, toServer # <<>>, toServer' = Tail(toServer), ~Waits,
           handled' = handled, asked' = asked, outbox' = outbox,
           Waits' => Head(toServer).kind \in UiKinds /\ serving'.n = Head(toServer).n
    PROVE  InTurn'
<1>1. AtMostOnceInOrder'
    BY DEF InTurn, AtMostOnceInOrder
<1> DEFINE N == Len(toServer)
<1>2. /\ N \in Nat \ {0} /\ Len(toServer') = N - 1 /\ Head(toServer) = toServer[1]
      /\ \A i \in 1 .. Len(toServer') : i + 1 \in 1 .. N /\ toServer'[i] = toServer[i + 1]
      /\ 1 \in 1 .. N
    BY ServerTakes
<1> HIDE DEF N
<1>3. \A i, j \in 1 .. Len(toServer') : i < j => i + 1 < j + 1
    BY <1>2
<1>4. \A j \in 1 .. Len(toServer') : 1 < j + 1
    BY <1>2
<1> QED BY <1>1, <1>2, <1>3, <1>4 DEF InTurn, N

\* The client writes a line that is no request of the user.
LEMMA TurnOther ==
    ASSUME Types, InTurn, NEW line \in Lines, line.kind \notin UiKinds,
           toServer' = Append(toServer, line),
           handled' = handled, asked' = asked, outbox' = outbox, serving' = serving
    PROVE  InTurn'
<1>1. AtMostOnceInOrder'
    BY DEF InTurn, AtMostOnceInOrder
<1>2. \A i \in 1 .. Len(toServer') : toServer'[i].kind \in UiKinds =>
          i \in 1 .. Len(toServer) /\ toServer'[i] = toServer[i]
    BY ServerGets
<1>3. Waits' <=> Waits
    BY DEF Waits
<1> QED BY <1>1, <1>2, <1>3 DEF InTurn

\* The requests the connection has not taken yet.
LEMMA OutboxTaken ==
    ASSUME Types, outbox # <<>>, outbox' = Tail(outbox)
    PROVE  /\ Len(outbox) \in Nat \ {0} /\ Len(outbox') = Len(outbox) - 1
           /\ Head(outbox) = outbox[1] /\ Head(outbox) \in [n : Nat, kind : UiKinds]
           /\ 1 \in 1 .. Len(outbox)
           /\ \A i \in 1 .. Len(outbox') :
                 i + 1 \in 1 .. Len(outbox) /\ 1 < i + 1 /\ outbox'[i] = outbox[i + 1]
<1> DEFINE Requests == [n : Nat, kind : UiKinds]
<1>1. outbox \in Seq(Requests)
    BY DEF Types
<1> HIDE DEF Requests
<1>2. /\ Len(outbox) \in Nat \ {0} /\ Len(Tail(outbox)) = Len(outbox) - 1
      /\ Head(outbox) = outbox[1] /\ Head(outbox) \in Requests
      /\ \A i \in 1 .. Len(outbox) - 1 : Tail(outbox)[i] = outbox[i + 1]
    BY <1>1, TailFacts
<1> QED BY <1>2 DEF Requests

LEMMA TurnOutboxLess ==
    ASSUME Types, InTurn, outbox # <<>>, outbox' = Tail(outbox), toServer' = <<>>,
           handled' = handled, asked' = asked, serving' = serving
    PROVE  InTurn'
<1>1. AtMostOnceInOrder' /\ Len(<<>>) = 0 /\ (Waits' <=> Waits)
    BY DEF InTurn, AtMostOnceInOrder, Waits
<1>2. \A i, j \in 1 .. Len(outbox') : i < j =>
          i + 1 \in 1 .. Len(outbox) /\ j + 1 \in 1 .. Len(outbox) /\ i + 1 < j + 1
    BY OutboxTaken
<1> QED BY <1>1, <1>2, OutboxTaken DEF InTurn

\* The client writes the request of the user that is next.
LEMMA TurnWritten ==
    ASSUME Types, InTurn, outbox # <<>>, outbox' = Tail(outbox), NEW line \in Lines,
           line.n = Head(outbox).n, toServer' = Append(toServer, line),
           handled' = handled, asked' = asked, serving' = serving
    PROVE  InTurn'
<1>1. AtMostOnceInOrder' /\ (Waits' <=> Waits)
    BY DEF InTurn, AtMostOnceInOrder, Waits
<1>2. \A i, j \in 1 .. Len(outbox') : i < j =>
          i + 1 \in 1 .. Len(outbox) /\ j + 1 \in 1 .. Len(outbox) /\ i + 1 < j + 1
    BY OutboxTaken
<1>3. \A i \in 1 .. Len(toServer') :
          \/ i \in 1 .. Len(toServer) /\ toServer'[i] = toServer[i] /\ i < Len(toServer')
          \/ i = Len(toServer') /\ toServer'[i].n = outbox[1].n
    BY ServerGets, OutboxTaken
<1>4. /\ 1 \in 1 .. Len(outbox)
      /\ \A i \in 1 .. Len(outbox') :
            i + 1 \in 1 .. Len(outbox) /\ 1 < i + 1 /\ outbox'[i] = outbox[i + 1]
    BY OutboxTaken
<1>5. /\ \A i \in 1 .. Len(handled') :
            /\ handled'[i] <= asked'
            /\ Waits' => handled'[i] < serving'.n
            /\ \A j \in 1 .. Len(toServer') :
                  toServer'[j].kind \in UiKinds => handled'[i] < toServer'[j].n
            /\ \A j \in 1 .. Len(outbox') : handled'[i] < outbox'[j].n
    BY <1>1, <1>3, <1>4 DEF InTurn
<1>6. Waits' =>
          /\ serving'.n <= asked'
          /\ \A j \in 1 .. Len(toServer') :
                toServer'[j].kind \in UiKinds => serving'.n < toServer'[j].n
          /\ \A j \in 1 .. Len(outbox') : serving'.n < outbox'[j].n
    BY <1>1, <1>3, <1>4 DEF InTurn
<1>7. \A i \in 1 .. Len(toServer') : toServer'[i].kind \in UiKinds =>
          /\ toServer'[i].n <= asked'
          /\ \A j \in 1 .. Len(toServer') :
                i < j /\ toServer'[j].kind \in UiKinds => toServer'[i].n < toServer'[j].n
          /\ \A j \in 1 .. Len(outbox') : toServer'[i].n < outbox'[j].n
    <2> TAKE i \in 1 .. Len(toServer')
    <2>1. CASE i = Len(toServer')
        BY <1>3, <1>4, <2>1 DEF InTurn
    <2>2. CASE i # Len(toServer')
        <3>1. i \in 1 .. Len(toServer) /\ toServer'[i] = toServer[i]
            BY <1>3, <2>2
        <3> QED BY <1>3, <1>4, <3>1 DEF InTurn
    <2> QED BY <2>1, <2>2
<1>8. \A i \in 1 .. Len(outbox') :
          /\ outbox'[i].n <= asked'
          /\ \A j \in 1 .. Len(outbox') : i < j => outbox'[i].n < outbox'[j].n
    BY <1>2, <1>4 DEF InTurn
<1> QED BY <1>1, <1>5, <1>6, <1>7, <1>8 DEF InTurn

LEMMA TurnAsked ==
    ASSUME Types, InTurn, NEW kind \in UiKinds, Ask(kind)
    PROVE  InTurn'
<1> DEFINE Requests == [n : Nat, kind : UiKinds]
           new == [n |-> asked + 1, kind |-> kind]
<1>1. outbox \in Seq(Requests) /\ new \in Requests /\ outbox' = Append(outbox, new)
    BY DEF Types, Ask
<1>2. new.n = asked + 1
    OBVIOUS
<1> HIDE DEF Requests, new
<1>3. /\ Len(outbox') = Len(outbox) + 1 /\ Len(outbox) \in Nat
      /\ \A i \in 1 .. Len(outbox) : outbox'[i] = outbox[i]
      /\ outbox'[Len(outbox')] = new
    BY <1>1, AppendFacts
<1>4. \A i \in 1 .. Len(outbox') :
          \/ i \in 1 .. Len(outbox) /\ outbox'[i] = outbox[i]
          \/ i = Len(outbox') /\ outbox'[i].n = asked + 1
    BY <1>2, <1>3
<1>5. /\ UNCHANGED <<handled, serving, toServer>> /\ asked' = asked + 1 /\ asked \in Nat
      /\ AtMostOnceInOrder' /\ (Waits' <=> Waits)
    BY DEF Ask, daemonVars, serverVars, Types, InTurn, AtMostOnceInOrder, Waits
<1>6. \A i \in 1 .. Len(handled) : handled[i] \in Nat
    BY DEF Types
<1>7. \A i \in 1 .. Len(toServer) : toServer[i].n \in Nat
    <2>1. \A i \in 1 .. Len(toServer) : toServer[i] \in Lines
        BY DEF Types
    <2> QED BY <2>1 DEF Lines
<1>8. serving.n \in Nat
    BY DEF Types, Servings
<1>9. \A i \in 1 .. Len(outbox) : outbox[i].n \in Nat
    <2>1. \A i \in 1 .. Len(outbox) : outbox[i] \in Requests
        BY <1>1
    <2> QED BY <2>1 DEF Requests
<1>10. \A i \in 1 .. Len(outbox') :
          /\ outbox'[i].n <= asked'
          /\ \A j \in 1 .. Len(outbox') : i < j => outbox'[i].n < outbox'[j].n
    <2> TAKE i \in 1 .. Len(outbox')
    <2>1. CASE i = Len(outbox')
        <3>1. outbox'[i].n = asked + 1
            BY <1>2, <1>3, <2>1
        <3>2. \A j \in 1 .. Len(outbox') : ~(i < j)
            BY <1>3, <2>1
        <3> QED BY <1>5, <3>1, <3>2
    <2>2. CASE i # Len(outbox')
        <3>1. i \in 1 .. Len(outbox) /\ outbox'[i] = outbox[i] /\ outbox[i].n \in Nat
            BY <1>4, <1>9, <2>2
        <3>2. /\ outbox[i].n <= asked
              /\ \A j \in 1 .. Len(outbox) : i < j => outbox[i].n < outbox[j].n
            BY <3>1 DEF InTurn
        <3>3. \A j \in 1 .. Len(outbox') : i < j => outbox[i].n < outbox'[j].n
            BY <1>4, <1>5, <3>1, <3>2
        <3> QED BY <1>5, <3>1, <3>2, <3>3
    <2> QED BY <2>1, <2>2
<1>11. \A i \in 1 .. Len(handled') :
          /\ handled'[i] <= asked'
          /\ Waits' => handled'[i] < serving'.n
          /\ \A j \in 1 .. Len(toServer') :
                toServer'[j].kind \in UiKinds => handled'[i] < toServer'[j].n
          /\ \A j \in 1 .. Len(outbox') : handled'[i] < outbox'[j].n
    <2> TAKE i \in 1 .. Len(handled')
    <2>1. i \in 1 .. Len(handled) /\ handled'[i] = handled[i] /\ handled[i] \in Nat
        BY <1>5, <1>6
    <2>2. handled[i] <= asked /\ \A j \in 1 .. Len(outbox) : handled[i] < outbox[j].n
        BY <2>1 DEF InTurn
    <2>3. \A j \in 1 .. Len(outbox') : handled[i] < outbox'[j].n
        BY <1>4, <1>5, <2>1, <2>2
    <2>4. handled[i] <= asked'
        BY <1>5, <2>1, <2>2
    <2>5. /\ Waits' => handled[i] < serving'.n
          /\ \A j \in 1 .. Len(toServer') :
                toServer'[j].kind \in UiKinds => handled[i] < toServer'[j].n
        BY <1>5, <2>1 DEF InTurn
    <2> QED BY <2>1, <2>3, <2>4, <2>5
<1>12. Waits' =>
          /\ serving'.n <= asked'
          /\ \A j \in 1 .. Len(toServer') :
                toServer'[j].kind \in UiKinds => serving'.n < toServer'[j].n
          /\ \A j \in 1 .. Len(outbox') : serving'.n < outbox'[j].n
    BY <1>4, <1>5, <1>8 DEF InTurn
<1>13. \A i \in 1 .. Len(toServer') : toServer'[i].kind \in UiKinds =>
          /\ toServer'[i].n <= asked'
          /\ \A j \in 1 .. Len(toServer') :
                i < j /\ toServer'[j].kind \in UiKinds => toServer'[i].n < toServer'[j].n
          /\ \A j \in 1 .. Len(outbox') : toServer'[i].n < outbox'[j].n
    <2> SUFFICES ASSUME NEW i \in 1 .. Len(toServer), toServer[i].kind \in UiKinds
                 PROVE  /\ toServer[i].n <= asked'
                        /\ \A j \in 1 .. Len(toServer) :
                              i < j /\ toServer[j].kind \in UiKinds => toServer[i].n < toServer[j].n
                        /\ \A j \in 1 .. Len(outbox') : toServer[i].n < outbox'[j].n
        BY <1>5
    <2>1. /\ toServer[i].n <= asked /\ toServer[i].n \in Nat
          /\ \A j \in 1 .. Len(toServer) :
                i < j /\ toServer[j].kind \in UiKinds => toServer[i].n < toServer[j].n
          /\ \A j \in 1 .. Len(outbox) : toServer[i].n < outbox[j].n
        BY <1>7 DEF InTurn
    <2>2. \A j \in 1 .. Len(outbox') : toServer[i].n < outbox'[j].n
        BY <1>4, <1>5, <2>1
    <2> QED BY <1>5, <2>1, <2>2
<1> QED BY <1>5, <1>10, <1>11, <1>12, <1>13 DEF InTurn

LEMMA IdleWaitsNot == serving = Idle => ~Waits
BY KindsAssumption DEF Idle, Waits

LEMMA TurnNext ==
    ASSUME Types, Types', InTurn, [Next]_vars
    PROVE  InTurn'
<1>1. CASE Server
    <2>1. CASE Subscribe
        <3>1. ~Waits /\ ~Waits'
            BY <2>1, IdleWaitsNot DEF Subscribe, Waits
        <3> QED BY <2>1, <3>1, TurnTaken DEF Subscribe, daemonVars, clientVars
    <2>2. CASE Forward
        <3>1. ~Waits /\ (Waits' => Head(toServer).kind \in UiKinds) /\ serving'.n = Head(toServer).n
            BY <2>2, IdleWaitsNot DEF Forward, Waits
        <3> QED BY <2>2, <3>1, TurnTaken DEF Forward, daemonVars, clientVars
    <2>3. CASE AnswerDropped
        <3>1. ~Waits'
            BY <2>3 DEF AnswerDropped, Waits, Types, Servings
        <3> QED BY <2>3, <3>1, TurnLess DEF AnswerDropped, daemonVars, clientVars
    <2>4. CASE WriteResponse
        <3>1. ~Waits'
            BY <2>4, KindsAssumption DEF WriteResponse, Waits, Idle
        <3> QED BY <2>4, <3>1, TurnLess DEF WriteResponse, daemonVars, clientVars
    <2>5. CASE Push
        <3>1. Waits' => Waits
            BY <2>5 DEF Push, Waits
        <3> QED BY <2>5, <3>1, TurnLess DEF Push, daemonVars, clientVars
    <2>6. CASE Cancelled
        <3>1. ~Waits'
            BY <2>6, KindsAssumption DEF Cancelled, HangUp, Waits, Idle
        <3> QED BY <2>6, <3>1, TurnLess DEF Cancelled, HangUp, daemonVars, clientVars
    <2> QED BY <1>1, <2>1, <2>2, <2>3, <2>4, <2>5, <2>6 DEF Server
<1>2. CASE Actor
    <2>1. CASE AnswerSnapshot
        BY <2>1, TurnHandled DEF AnswerSnapshot, clientVars
    <2>2. ASSUME NEW ok \in BOOLEAN, AnswerQuietly(ok) PROVE InTurn'
        BY <2>2, TurnHandled DEF AnswerQuietly, clientVars
    <2>3. ASSUME NEW event \in Emitted, Obey(event) PROVE InTurn'
        BY <2>3, TurnHandled DEF Obey, clientVars
    <2> QED BY <1>2, <2>1, <2>2, <2>3 DEF Actor
<1>3. CASE Client
    <2> USE DEF daemonVars, serverVars
    <2>1. CASE Connect
        <3>1. /\ Len(toServer') = 2 /\ toServer'[1].kind = "subscribe"
              /\ toServer'[2].kind = "snapshot"
            BY <2>1 DEF Connect, Line
        <3>2. \A i \in 1 .. Len(toServer') : toServer'[i].kind \notin UiKinds
            BY <3>1, KindsAssumption
        <3>3. AtMostOnceInOrder' /\ (Waits' <=> Waits) /\ UNCHANGED <<handled, serving, asked, outbox>>
            BY <2>1 DEF Connect, InTurn, AtMostOnceInOrder, Waits
        <3> QED BY <3>2, <3>3 DEF InTurn
    <2>2. CASE ConnectRefused
        BY <2>2, TurnLess DEF ConnectRefused, Lose, Waits
    <2>3. CASE EndOfFile
        BY <2>3, TurnLess DEF EndOfFile, Lose, Waits
    <2>4. CASE TakeAsked
        <3>1. CASE link = "closing"
            BY <2>4, <3>1, TurnOutboxLess DEF TakeAsked, Lose
        <3>2. CASE link # "closing"
            <4> DEFINE line == Line(nextId, Head(outbox).kind, Head(outbox).n)
            <4>1. outbox # <<>> /\ outbox' = Tail(outbox) /\ toServer' = Append(toServer, line)
                  /\ UNCHANGED <<handled, serving, asked>>
                BY <2>4, <3>2 DEF TakeAsked
            <4>2. line \in Lines /\ line.n = Head(outbox).n
                BY <4>1, OutboxTaken DEF Line, Lines, Kinds, Types
            <4> HIDE DEF line
            <4> QED BY <4>1, <4>2, TurnWritten
        <3> QED BY <3>1, <3>2
    <2>5. CASE ReadResponse
        BY <2>5, TurnLess DEF ReadResponse, Waits
    <2>6. CASE ReadEvent
        <3>1. CASE toServer' = toServer \/ toServer' = <<>>
            BY <2>6, <3>1, TurnLess DEF ReadEvent, Waits
        <3>2. CASE toServer' = Append(toServer, Line(nextId, "snapshot", 0))
            <4>1. Line(nextId, "snapshot", 0) \in Lines
                  /\ Line(nextId, "snapshot", 0).kind \notin UiKinds
                BY KindsAssumption DEF Line, Lines, Kinds, Types
            <4> QED BY <2>6, <3>2, <4>1, TurnOther DEF ReadEvent
        <3> QED BY <2>6, <3>1, <3>2 DEF ReadEvent, Lose
    <2> QED BY <1>3, <2>1, <2>2, <2>3, <2>4, <2>5, <2>6 DEF Client
<1>4. ASSUME NEW kind \in UiKinds, Ask(kind) PROVE InTurn'
    BY <1>4, TurnAsked
<1>5. CASE Crash \/ Exit
    <2>1. ~Waits'
        BY <1>5, KindsAssumption DEF Crash, Exit, HangUp, Waits, Idle
    <2> QED BY <1>5, <2>1, TurnLess DEF Crash, Exit, HangUp, clientVars
<1>6. ASSUME UNCHANGED <<handled, asked, outbox, toServer, serving>> PROVE InTurn'
    BY <1>6, TurnLess DEF Waits
<1>7. ASSUME NEW event \in Emitted, Change(event) \/ Noise(event) PROVE InTurn'
    BY <1>6, <1>7 DEF Change, Noise, clientVars
<1>8. CASE SilentChange \/ StopActor \/ Start \/ UNCHANGED vars
    BY <1>6, <1>8 DEF SilentChange, StopActor, Start, vars, clientVars, serverVars, daemonVars
<1> QED BY <1>1, <1>2, <1>3, <1>4, <1>5, <1>7, <1>8 DEF Next, Environment

LEMMA TurnInit == Init => InTurn
<1> SUFFICES ASSUME Init PROVE InTurn
    OBVIOUS
<1>1. Len(<<>>) = 0 /\ DOMAIN <<>> = 1 .. 0
    OBVIOUS
<1> QED BY <1>1, IdleWaitsNot DEF Init, InTurn, AtMostOnceInOrder

LEMMA TypesInit == Init => Types
<1> SUFFICES ASSUME Init PROVE Types
    OBVIOUS
<1>1. /\ <<>> \in Seq(Nat) /\ <<>> \in Seq([n : Nat, kind : UiKinds])
      /\ <<>> \in Seq(Announcements) /\ <<>> \in Seq(PanelLines) /\ <<>> \in Seq(Lines)
      /\ Len(<<>>) <= BusCapacity /\ Len(<<>>) <= SocketCapacity
    BY CapacityAssumption
<1> QED BY <1>1, ServingTypes DEF Init, Types

LEMMA TypesNext == ASSUME Types, [Next]_vars PROVE Types'
<1>1. CASE UNCHANGED vars
    BY <1>1 DEF Types, vars, daemonVars, serverVars, clientVars
<1> QED BY <1>1, ActorTypes, ServerTypes, ClientTypes, OtherTypes DEF Next

-----------------------------------------------------------------------------
(* What a connection that is not up has left. *)

LEMMA EmitEnds ==
    ASSUME Types, Ends, NEW event \in Emitted, NEW at \in Nat, Emit(event, at), sub' = sub
    PROVE  sub' = FALSE => inbox' = <<>> /\ lagged' = FALSE
BY DEF Types, Ends, Emit

LEMMA HangUpEnds == ASSUME Types, Ends, HangUp, UNCHANGED <<toPanel, pending>> PROVE Ends'
BY DEF Types, Ends, HangUp

LEMMA LoseEnds ==
    ASSUME Types, Ends, link # "up", Lose, UNCHANGED <<phase, serverVars>>
    PROVE  Ends'
BY DEF Types, Ends, Lose, serverVars

LEMMA EndsNext == ASSUME Types, Ends, [Next]_vars PROVE Ends'
<1> USE DEF daemonVars, serverVars, clientVars
<1>1. CASE Server
    <2>1. CASE Subscribe
        BY <2>1 DEF Subscribe, Ends
    <2>2. CASE Forward
        BY <2>2 DEF Forward, Ends
    <2>3. CASE AnswerDropped
        BY <2>3 DEF AnswerDropped, Ends
    <2>4. CASE WriteResponse
        BY <2>4 DEF WriteResponse, Ends
    <2>5. CASE Push
        BY <2>5 DEF Push, Ends
    <2>6. CASE Cancelled
        BY <2>6, HangUpEnds DEF Cancelled
    <2> QED BY <1>1, <2>1, <2>2, <2>3, <2>4, <2>5, <2>6 DEF Server
<1>2. CASE Actor
    <2>1. CASE AnswerSnapshot
        BY <2>1 DEF AnswerSnapshot, Reply, Ends
    <2>2. ASSUME NEW ok \in BOOLEAN, AnswerQuietly(ok) PROVE Ends'
        BY <2>2 DEF AnswerQuietly, Reply, Ends
    <2>3. ASSUME NEW event \in Emitted, Obey(event) PROVE Ends'
        <3>1. stamp + 1 \in Nat
            BY DEF Types
        <3> QED BY <2>3, <3>1, EmitEnds DEF Obey, Reply, Ends
    <2> QED BY <1>2, <2>1, <2>2, <2>3 DEF Actor
<1>3. CASE Client
    <2>1. CASE Connect
        BY <2>1 DEF Connect, Ends
    <2>2. CASE ConnectRefused
        BY <2>2, LoseEnds DEF ConnectRefused
    <2>3. CASE EndOfFile
        BY <2>3, LoseEnds DEF EndOfFile
    <2>4. CASE TakeAsked
        <3>1. CASE link = "closing"
            BY <2>4, <3>1, LoseEnds DEF TakeAsked
        <3>2. CASE link = "up"
            BY <2>4, <3>2 DEF TakeAsked, Ends
        <3> QED BY <2>4, <3>1, <3>2 DEF TakeAsked
    <2>5. CASE ReadResponse
        BY <2>5 DEF ReadResponse, Ends
    <2>6. CASE ReadEvent
        <3>1. link # "none"
            BY <2>6 DEF ReadEvent, Ends
        <3>2. CASE Noisy(Head(toPanel).event) \/ Fetching
            BY <2>6, <3>1, <3>2 DEF ReadEvent, Ends
        <3>3. CASE ~(Noisy(Head(toPanel).event) \/ Fetching) /\ link = "closing"
            BY <2>6, <3>3, LoseEnds DEF ReadEvent
        <3>4. CASE ~(Noisy(Head(toPanel).event) \/ Fetching) /\ link = "up"
            BY <2>6, <3>4 DEF ReadEvent, Ends
        <3> QED BY <3>1, <3>2, <3>3, <3>4 DEF Types
    <2> QED BY <1>3, <2>1, <2>2, <2>3, <2>4, <2>5, <2>6 DEF Client
<1>4. ASSUME NEW event \in Emitted, Change(event) PROVE Ends'
    <2>1. stamp + 1 \in Nat
        BY DEF Types
    <2> QED BY <1>4, <2>1, EmitEnds DEF Change, Ends
<1>5. ASSUME NEW event \in Emitted, Noise(event) PROVE Ends'
    <2>1. stamp \in Nat
        BY DEF Types
    <2> QED BY <1>5, <2>1, EmitEnds DEF Noise, Ends
<1>6. CASE Crash \/ Exit
    BY <1>6 DEF Crash, Exit, HangUp, Ends
<1>7. ASSUME NEW kind \in UiKinds, Ask(kind) PROVE Ends'
    BY <1>7 DEF Ask, Ends
<1>8. CASE SilentChange \/ StopActor \/ Start \/ UNCHANGED vars
    BY <1>8 DEF SilentChange, StopActor, Start, vars, Ends
<1> QED BY <1>1, <1>2, <1>3, <1>4, <1>5, <1>6, <1>7, <1>8 DEF Next, Environment

-----------------------------------------------------------------------------
(* Ids *)

\* The values of the lines.
LEMMA LineTypes ==
    ASSUME Types
    PROVE  /\ \A i \in 1 .. Len(toServer) : toServer[i].id \in Nat /\ toServer[i].kind \in Kinds
           /\ \A i \in 1 .. Len(toPanel) : toPanel[i].id \in Nat /\ toPanel[i].stamp \in Nat
           /\ \A p \in pending : p.id \in Nat
           /\ serving.id \in Nat /\ serving.stamp \in Nat /\ nextId \in Nat
           /\ Len(toServer) \in Nat /\ Len(toPanel) \in Nat
           /\ DOMAIN toServer = 1 .. Len(toServer) /\ DOMAIN toPanel = 1 .. Len(toPanel)
<1>1. /\ \A i \in 1 .. Len(toServer) : toServer[i] \in Lines
      /\ \A i \in 1 .. Len(toPanel) : toPanel[i] \in PanelLines
      /\ Len(toServer) \in Nat /\ Len(toPanel) \in Nat
      /\ DOMAIN toServer = 1 .. Len(toServer) /\ DOMAIN toPanel = 1 .. Len(toPanel)
    BY DEF Types
<1>2. \A i \in 1 .. Len(toServer) : toServer[i].id \in Nat /\ toServer[i].kind \in Kinds
    BY <1>1 DEF Lines
<1>3. \A i \in 1 .. Len(toPanel) : toPanel[i].id \in Nat /\ toPanel[i].stamp \in Nat
    BY <1>1 DEF PanelLines
<1>4. \A p \in pending : p.id \in Nat
    BY DEF Types, Notes
<1>5. serving.id \in Nat /\ serving.stamp \in Nat /\ nextId \in Nat
    BY DEF Types, Servings
<1> QED BY <1>1, <1>2, <1>3, <1>4, <1>5

\* Steps that touch no line, and leave the request served what it is.
LEMMA IdsFrame ==
    ASSUME Types, Types', Ids,
           UNCHANGED <<toServer, toPanel, pending, nextId, link, sub>>,
           serving' # Idle <=> serving # Idle,
           serving'.id = serving.id, serving'.kind = serving.kind,
           serving'.answered => serving' # Idle,
           serving'.ok => serving'.answered
    PROVE  Ids'
<1>1. InLine'
    BY DEF Ids, InLine
<1>2. Opening'
    BY DEF Ids, Opening
<1>3. OwedReplies'
    BY LineTypes DEF Ids, OwedReplies
<1> QED BY <1>1, <1>2, <1>3 DEF Ids

LEMMA IdsAnswered ==
    ASSUME Types, Types', Ids, serving # Idle, NEW ok \in BOOLEAN, NEW at \in Nat,
           serving' = [serving EXCEPT !.answered = TRUE, !.ok = ok, !.stamp = at],
           UNCHANGED <<toServer, toPanel, pending, nextId, link, sub>>
    PROVE  Ids'
<1>1. /\ serving'.id = serving.id /\ serving'.kind = serving.kind
      /\ serving'.answered = TRUE
    BY DEF Types, Servings
<1>2. serving' # Idle
    BY <1>1 DEF Idle
<1> QED BY <1>1, <1>2, IdsFrame

\* The connection ends at either side.
LEMMA IdsEnded ==
    ASSUME Types, Types', Ends', Ids, link' # "up", nextId' = nextId,
           \/ toPanel' = toPanel /\ pending' = pending
           \/ toPanel' = <<>> /\ pending' = {}
    PROVE  Ids'
<1>1. serving' = Idle /\ toServer' = <<>> /\ Len(<<>>) = 0
    BY DEF Ends
<1>2. ~serving'.answered /\ ~serving'.ok
    BY <1>1 DEF Idle
<1>3. InLine'
    BY <1>1 DEF Ids, InLine
<1>4. Opening'
    BY <1>1, <1>2 DEF Ids, Opening
<1>5. OwedReplies'
    BY DEF OwedReplies
<1> QED BY <1>3, <1>4, <1>5 DEF Ids

\* A line the server's end writes for what is first in its turn.
LEMMA IdsWritten ==
    ASSUME Types, Types', Ids, NEW line \in PanelLines, toPanel' = Append(toPanel, line),
           IsResponse(line) =>
               /\ line.id < nextId
               /\ \A i \in 1 .. Len(toPanel) : IsResponse(toPanel[i]) => toPanel[i].id < line.id
               /\ \A j \in 1 .. Len(toServer') : line.id < toServer'[j].id,
           serving' = Idle,
           \A j \in 1 .. Len(toServer') : \E k \in 1 .. Len(toServer) : toServer'[j] = toServer[k],
           nextId' = nextId
    PROVE  \A i \in 1 .. Len(toPanel') : IsResponse(toPanel'[i]) =>
               /\ toPanel'[i].id < nextId'
               /\ serving' # Idle => toPanel'[i].id < serving'.id
               /\ \A j \in 1 .. Len(toServer') : toPanel'[i].id < toServer'[j].id
               /\ \A j \in 1 .. Len(toPanel') :
                     i < j /\ IsResponse(toPanel'[j]) => toPanel'[i].id < toPanel'[j].id
<1> TAKE i \in 1 .. Len(toPanel')
<1>1. /\ Len(toPanel) \in Nat /\ Len(toPanel') = Len(toPanel) + 1
      /\ toPanel'[Len(toPanel')] = line
      /\ \A k \in 1 .. Len(toPanel) : toPanel'[k] = toPanel[k]
      /\ \A k \in 1 .. Len(toPanel') : k # Len(toPanel') => k \in 1 .. Len(toPanel)
    BY PanelGets
<1>2. CASE i = Len(toPanel')
    BY <1>1, <1>2
<1>3. CASE i # Len(toPanel')
    <2>1. i \in 1 .. Len(toPanel) /\ toPanel'[i] = toPanel[i]
        BY <1>1, <1>3
    <2>2. IsResponse(toPanel[i]) =>
              /\ toPanel[i].id < nextId
              /\ \A j \in 1 .. Len(toServer) : toPanel[i].id < toServer[j].id
              /\ \A j \in 1 .. Len(toPanel) :
                    i < j /\ IsResponse(toPanel[j]) => toPanel[i].id < toPanel[j].id
        BY <2>1 DEF Ids, InLine
    <2> QED BY <1>1, <2>1, <2>2
<1> QED BY <1>2, <1>3

LEMMA IdsSubscribe == ASSUME Types, Types', Ends, Ids, Subscribe PROVE Ids'
<1> DEFINE line == Response(Head(toServer).id, TRUE, 0)
           N == Len(toServer)
<1>1. /\ toServer # <<>> /\ toServer' = Tail(toServer) /\ toPanel' = Append(toPanel, line)
      /\ serving = Idle /\ serving' = Idle /\ link = "up" /\ link' = "up" /\ sub'
      /\ UNCHANGED <<pending, nextId>> /\ Head(toServer).kind = "subscribe"
    BY DEF Subscribe, clientVars
<1>2. /\ N \in Nat \ {0} /\ Len(toServer') = N - 1 /\ Head(toServer) = toServer[1]
      /\ \A i \in 1 .. Len(toServer') : i + 1 \in 1 .. N /\ toServer'[i] = toServer[i + 1]
      /\ 1 \in 1 .. N
    BY <1>1, ServerTakes
<1>3. line \in PanelLines /\ IsResponse(line) /\ line.id = toServer[1].id
    BY <1>1, <1>2, TakenTypes DEF Response, PanelLines, IsResponse
<1>4. toServer[1].id = 1
    BY <1>1, <1>2 DEF Ids, Opening
<1> HIDE DEF line, N
<1>5. /\ line.id < nextId
      /\ \A i \in 1 .. Len(toPanel) : IsResponse(toPanel[i]) => toPanel[i].id < line.id
      /\ \A j \in 1 .. Len(toServer') : line.id < toServer'[j].id
    <2>1. \A j \in 1 .. Len(toServer') : 1 < j + 1
        BY <1>2
    <2> QED BY <1>2, <1>3, <2>1 DEF Ids, InLine, N
<1>6. InLine'
    <2>1. \A i, j \in 1 .. Len(toServer') : i < j => i + 1 < j + 1
        BY <1>2
    <2>2. /\ \A i \in 1 .. Len(toServer') : toServer'[i].id < nextId'
          /\ \A i, j \in 1 .. Len(toServer') : i < j => toServer'[i].id < toServer'[j].id
        BY <1>1, <1>2, <2>1 DEF Ids, InLine, N
    <2>3. \A j \in 1 .. Len(toServer') : \E k \in 1 .. Len(toServer) : toServer'[j] = toServer[k]
        BY <1>2 DEF N
    <2>4. \A i \in 1 .. Len(toPanel') : IsResponse(toPanel'[i]) =>
               /\ toPanel'[i].id < nextId'
               /\ serving' # Idle => toPanel'[i].id < serving'.id
               /\ \A j \in 1 .. Len(toServer') : toPanel'[i].id < toServer'[j].id
               /\ \A j \in 1 .. Len(toPanel') :
                     i < j /\ IsResponse(toPanel'[j]) => toPanel'[i].id < toPanel'[j].id
        BY <1>1, <1>3, <1>5, <2>3, IdsWritten
    <2> QED BY <1>1, <2>2, <2>4 DEF Ids, InLine
<1>7. Opening'
    <2>1. \A i \in 1 .. Len(toServer') : toServer'[i].id >= 2
        BY <1>2, <1>3, <1>4, <1>5, LineTypes DEF N
    <2>2. \A i \in 1 .. Len(toServer') : (toServer'[i].kind = "subscribe" <=> toServer'[i].id = 1)
        BY <1>2 DEF Ids, Opening, N
    <2>3. \A i \in 1 .. Len(toServer') : toServer'[i].id >= 1
        BY <1>2 DEF Ids, Opening, N
    <2> QED BY <1>1, <2>1, <2>2, <2>3 DEF Ids, Opening
<1>8. OwedReplies'
    <2> SUFFICES ASSUME NEW p \in pending
                 PROVE  \/ \E i \in DOMAIN toServer' : toServer'[i].id = p.id
                        \/ \E i \in DOMAIN toPanel' : toPanel'[i].type = "response" /\ toPanel'[i].id = p.id
        BY <1>1 DEF OwedReplies
    <2>1. p.id >= 2 /\ p.id \in Nat
        BY LineTypes DEF Ids, Opening
    <2>2. serving.id # p.id
        BY <1>1, <2>1 DEF Idle
    <2>3. CASE \E i \in 1 .. Len(toServer) : toServer[i].id = p.id
        <3>1. PICK i \in 1 .. Len(toServer) : toServer[i].id = p.id
            BY <2>3
        <3>2. i # 1
            BY <1>4, <2>1, <3>1
        <3>3. i - 1 \in 1 .. Len(toServer') /\ toServer'[i - 1] = toServer[i]
            BY <1>2, <3>1, <3>2 DEF N
        <3>4. DOMAIN toServer' = 1 .. Len(toServer')
            BY DEF Types
        <3> QED BY <3>1, <3>3, <3>4
    <2>4. CASE \E i \in 1 .. Len(toPanel) : toPanel[i].type = "response" /\ toPanel[i].id = p.id
        <3>1. DOMAIN toPanel' = 1 .. Len(toPanel')
            BY DEF Types
        <3> QED BY <1>1, <1>3, <2>4, <3>1, PanelGets
    <2> QED BY <1>1, <2>2, <2>3, <2>4, LineTypes DEF Ids, OwedReplies
<1> QED BY <1>6, <1>7, <1>8 DEF Ids

LEMMA IdsForward == ASSUME Types, Types', Ends, Ids, Forward PROVE Ids'
<1> DEFINE N == Len(toServer)
<1>1. /\ toServer # <<>> /\ toServer' = Tail(toServer) /\ toPanel' = toPanel
      /\ serving = Idle /\ link = "up" /\ link' = "up" /\ sub' = sub
      /\ UNCHANGED <<pending, nextId>> /\ Head(toServer).kind # "subscribe"
      /\ serving' = [id |-> Head(toServer).id, kind |-> Head(toServer).kind,
                     n |-> Head(toServer).n, answered |-> FALSE, ok |-> FALSE, stamp |-> 0]
    BY DEF Forward, clientVars
<1>2. /\ N \in Nat \ {0} /\ Len(toServer') = N - 1 /\ Head(toServer) = toServer[1]
      /\ Head(toServer) \in Lines
      /\ \A i \in 1 .. Len(toServer') : i + 1 \in 1 .. N /\ toServer'[i] = toServer[i + 1]
      /\ 1 \in 1 .. N
    BY <1>1, ServerTakes
<1>3. /\ serving'.id = toServer[1].id /\ serving'.kind = toServer[1].kind
      /\ ~serving'.answered /\ ~serving'.ok
    BY <1>1, <1>2
<1>4. toServer[1].id \in Nat /\ toServer[1].id >= 2 /\ toServer[1].kind \in Kinds
    <2>1. toServer[1].id # 1 /\ toServer[1].id >= 1
        BY <1>1, <1>2 DEF Ids, Opening, N
    <2> QED BY <1>2, <2>1, LineTypes DEF N
<1>5. serving' # Idle /\ serving'.kind # "idle" /\ serving'.kind # "subscribe"
    BY <1>1, <1>2, <1>3, <1>4, KindsAssumption DEF Idle, Kinds
<1> HIDE DEF N
<1>6. \A j \in 1 .. Len(toServer') : toServer[1].id < toServer'[j].id
    <2>1. \A j \in 1 .. Len(toServer') : 1 < j + 1
        BY <1>2
    <2> QED BY <1>2, <2>1 DEF Ids, InLine, N
<1>7. InLine'
    <2>1. \A i, j \in 1 .. Len(toServer') : i < j => i + 1 < j + 1
        BY <1>2
    <2>2. /\ \A i \in 1 .. Len(toServer') : toServer'[i].id < nextId'
          /\ \A i, j \in 1 .. Len(toServer') : i < j => toServer'[i].id < toServer'[j].id
        BY <1>1, <1>2, <2>1 DEF Ids, InLine, N
    <2>3. serving'.id < nextId'
        BY <1>1, <1>2, <1>3 DEF Ids, InLine, N
    <2>4. \A i \in 1 .. Len(toPanel') : IsResponse(toPanel'[i]) =>
               /\ toPanel'[i].id < nextId'
               /\ toPanel'[i].id < serving'.id
               /\ \A j \in 1 .. Len(toServer') : toPanel'[i].id < toServer'[j].id
               /\ \A j \in 1 .. Len(toPanel') :
                     i < j /\ IsResponse(toPanel'[j]) => toPanel'[i].id < toPanel'[j].id
        BY <1>1, <1>2, <1>3 DEF Ids, InLine, N
    <2> QED BY <1>1, <1>3, <1>6, <2>2, <2>3, <2>4 DEF Ids, InLine
<1>8. Opening'
    <2>1. sub
        <3>1. toServer[1].id # 1
            BY <1>4
        <3> QED BY <1>1, <3>1 DEF Ids, Opening
    <2>2. \A i \in 1 .. Len(toServer') :
              /\ (toServer'[i].kind = "subscribe" <=> toServer'[i].id = 1)
              /\ toServer'[i].id >= 1 /\ toServer'[i].id >= 2
        BY <1>1, <1>2, <2>1 DEF Ids, Opening, N
    <2> QED BY <1>1, <1>3, <1>4, <1>5, <2>1, <2>2 DEF Ids, Opening
<1>9. OwedReplies'
    <2> SUFFICES ASSUME NEW p \in pending
                 PROVE  \/ \E i \in DOMAIN toServer' : toServer'[i].id = p.id
                        \/ serving'.id = p.id
                        \/ \E i \in DOMAIN toPanel' : toPanel'[i].type = "response" /\ toPanel'[i].id = p.id
        BY <1>1 DEF OwedReplies
    <2>1. serving.id # p.id
        BY <1>1 DEF Idle, Ids, Opening
    <2>2. CASE \E i \in 1 .. Len(toServer) : toServer[i].id = p.id
        <3>1. PICK i \in 1 .. Len(toServer) : toServer[i].id = p.id
            BY <2>2
        <3>2. CASE i = 1
            BY <1>3, <3>1, <3>2
        <3>3. CASE i # 1
            <4>1. i - 1 \in 1 .. Len(toServer') /\ toServer'[i - 1] = toServer[i]
                BY <1>2, <3>1, <3>3 DEF N
            <4>2. DOMAIN toServer' = 1 .. Len(toServer')
                BY DEF Types
            <4> QED BY <3>1, <4>1, <4>2
        <3> QED BY <3>2, <3>3
    <2> QED BY <1>1, <2>1, <2>2, LineTypes DEF Ids, OwedReplies
<1> QED BY <1>7, <1>8, <1>9 DEF Ids

LEMMA IdsWriteResponse == ASSUME Types, Types', Ends, Ids, WriteResponse PROVE Ids'
<1> DEFINE line == Response(serving.id, serving.ok, serving.stamp)
<1>1. /\ toPanel' = Append(toPanel, line) /\ serving # Idle /\ serving' = Idle
      /\ link = "up" /\ UNCHANGED <<toServer, pending, nextId, link, sub>>
    BY DEF WriteResponse, clientVars, Idle
<1>2. line \in PanelLines /\ IsResponse(line) /\ line.id = serving.id
    BY DEF Response, PanelLines, IsResponse, Types, Servings
<1> HIDE DEF line
<1>3. InLine'
    <2>1. /\ line.id < nextId
          /\ \A i \in 1 .. Len(toPanel) : IsResponse(toPanel[i]) => toPanel[i].id < line.id
          /\ \A j \in 1 .. Len(toServer') : line.id < toServer'[j].id
        BY <1>1, <1>2 DEF Ids, InLine
    <2>2. \A i \in 1 .. Len(toPanel') : IsResponse(toPanel'[i]) =>
               /\ toPanel'[i].id < nextId'
               /\ serving' # Idle => toPanel'[i].id < serving'.id
               /\ \A j \in 1 .. Len(toServer') : toPanel'[i].id < toServer'[j].id
               /\ \A j \in 1 .. Len(toPanel') :
                     i < j /\ IsResponse(toPanel'[j]) => toPanel'[i].id < toPanel'[j].id
        BY <1>1, <1>2, <2>1, IdsWritten
    <2> QED BY <1>1, <2>2 DEF Ids, InLine
<1>4. Opening'
    BY <1>1 DEF Ids, Opening, Idle
<1>5. OwedReplies'
    <2> SUFFICES ASSUME NEW p \in pending
                 PROVE  \/ \E i \in DOMAIN toServer' : toServer'[i].id = p.id
                        \/ \E i \in DOMAIN toPanel' : toPanel'[i].type = "response" /\ toPanel'[i].id = p.id
        BY <1>1 DEF OwedReplies
    <2>1. DOMAIN toPanel' = 1 .. Len(toPanel')
        BY DEF Types
    <2> QED BY <1>1, <1>2, <2>1, PanelGets, LineTypes DEF Ids, OwedReplies, IsResponse
<1> QED BY <1>3, <1>4, <1>5 DEF Ids

\* Events are not responses.
LEMMA IdsPush == ASSUME Types, Types', Ends, Ids, Push PROVE Ids'
<1>1. UNCHANGED <<toServer, pending, nextId, link, sub, serving>> /\ serving = Idle
    BY DEF Push, clientVars
<1>2. CASE toPanel' = toPanel
    <2>1. (serving.answered => serving # Idle) /\ (serving.ok => serving.answered)
        BY DEF Ids, Opening
    <2> QED BY <1>1, <1>2, <2>1, IdsFrame
<1>3. ASSUME NEW line \in PanelLines, ~IsResponse(line), toPanel' = Append(toPanel, line)
      PROVE  Ids'
    <2>1. \A i \in 1 .. Len(toPanel') : IsResponse(toPanel'[i]) =>
               /\ toPanel'[i].id < nextId'
               /\ serving' # Idle => toPanel'[i].id < serving'.id
               /\ \A j \in 1 .. Len(toServer') : toPanel'[i].id < toServer'[j].id
               /\ \A j \in 1 .. Len(toPanel') :
                     i < j /\ IsResponse(toPanel'[j]) => toPanel'[i].id < toPanel'[j].id
        BY <1>1, <1>3, IdsWritten
    <2>2. InLine'
        BY <1>1, <2>1 DEF Ids, InLine
    <2>3. Opening'
        BY <1>1 DEF Ids, Opening
    <2>4. DOMAIN toPanel' = 1 .. Len(toPanel')
        BY DEF Types
    <2>5. OwedReplies'
        BY <1>1, <1>3, <2>4, PanelGets, LineTypes DEF Ids, OwedReplies
    <2> QED BY <2>2, <2>3, <2>5 DEF Ids
<1>4. CASE toPanel' = Append(toPanel, EventLine(Head(inbox).event)) /\ inbox # <<>>
    <2>1. Head(inbox) \in Announcements
        BY <1>4, TailFacts DEF Types
    <2>2. EventLine(Head(inbox).event) \in PanelLines /\ ~IsResponse(EventLine(Head(inbox).event))
        BY <2>1 DEF EventLine, PanelLines, Announcements, IsResponse
    <2> QED BY <1>3, <1>4, <2>2
<1> QED BY <1>2, <1>4 DEF Push

LEMMA IdsConnect == ASSUME Types, Types', Ends, Connect PROVE Ids'
<1>1. /\ Len(toServer') = 2 /\ toServer'[1].id = 1 /\ toServer'[1].kind = "subscribe"
      /\ toServer'[2].id = 2 /\ toServer'[2].kind = "snapshot" /\ DOMAIN toServer' = 1 .. 2
    BY DEF Connect, Line
<1>2. /\ Len(toPanel') = 0 /\ pending' = {[id |-> 2, kind |-> "snapshot"]} /\ nextId' = 3
      /\ serving' = Idle /\ sub' = FALSE
    BY DEF Connect, Ends
<1>3. \A i \in 1 .. 2 : i = 1 \/ i = 2
    OBVIOUS
<1>4. InLine'
    BY <1>1, <1>2, <1>3 DEF InLine
<1>5. Opening'
    BY <1>1, <1>2, <1>3 DEF Opening, Idle
<1>6. OwedReplies'
    BY <1>1, <1>2 DEF OwedReplies
<1> QED BY <1>4, <1>5, <1>6 DEF Ids

\* The client writes a line under a new id.
LEMMA IdsNew ==
    ASSUME Types, Types', Ids, NEW line \in Lines, line.id = nextId, line.kind # "subscribe",
           link = "up", toServer' = Append(toServer, line), nextId' = nextId + 1,
           \/ pending' = pending
           \/ \E kind \in {"snapshot", "details", "capture", "nothing"} :
                 pending' = pending \cup {[id |-> nextId, kind |-> kind]},
           \/ toPanel' = toPanel
           \/ toPanel # <<>> /\ ~IsResponse(Head(toPanel)) /\ toPanel' = Tail(toPanel),
           UNCHANGED <<link, sub, serving>>
    PROVE  Ids'
<1> DEFINE N == Len(toServer)
<1>1. /\ N \in Nat /\ Len(toServer') = N + 1 /\ toServer'[N + 1] = line
      /\ \A i \in 1 .. N : toServer'[i] = toServer[i] /\ i \in 1 .. Len(toServer')
      /\ \A i \in 1 .. Len(toServer') : i # N + 1 => i \in 1 .. N
    BY ServerGets
<1>2. \A i \in 1 .. Len(toServer') :
          \/ i = N + 1 /\ toServer'[i].id = nextId /\ toServer'[i].kind # "subscribe"
          \/ i \in 1 .. N /\ toServer'[i] = toServer[i] /\ i < N + 1
    BY <1>1
<1>3. \A p \in pending' : p \in pending \/ p.id = nextId
    OBVIOUS
<1>4. \A i \in 1 .. Len(toPanel') : \E k \in 1 .. Len(toPanel) : k >= i /\ toPanel'[i] = toPanel[k]
    <2>1. CASE toPanel' = toPanel
        BY <2>1, LineTypes
    <2>2. CASE toPanel # <<>> /\ toPanel' = Tail(toPanel)
        <3>1. /\ Len(toPanel) \in Nat \ {0} /\ Len(toPanel') = Len(toPanel) - 1
              /\ \A i \in 1 .. Len(toPanel') :
                    i + 1 \in 1 .. Len(toPanel) /\ toPanel'[i] = toPanel[i + 1]
            BY <2>2, PanelReads
        <3>2. \A i \in 1 .. Len(toPanel') : i + 1 >= i
            BY <3>1
        <3> QED BY <3>1, <3>2
    <2> QED BY <2>1, <2>2
<1>5. \A i, j \in 1 .. Len(toPanel') : i < j /\ IsResponse(toPanel'[i]) /\ IsResponse(toPanel'[j])
          => toPanel'[i].id < toPanel'[j].id
    <2>1. CASE toPanel' = toPanel
        BY <2>1 DEF Ids, InLine
    <2>2. CASE toPanel # <<>> /\ toPanel' = Tail(toPanel)
        <3>1. /\ Len(toPanel) \in Nat \ {0} /\ Len(toPanel') = Len(toPanel) - 1
              /\ \A i \in 1 .. Len(toPanel') :
                    i + 1 \in 1 .. Len(toPanel) /\ toPanel'[i] = toPanel[i + 1]
            BY <2>2, PanelReads
        <3>2. \A i, j \in 1 .. Len(toPanel') : i < j => i + 1 < j + 1
            BY <3>1
        <3> QED BY <3>1, <3>2 DEF Ids, InLine
    <2> QED BY <2>1, <2>2
<1> HIDE DEF N
<1>6. nextId \in Nat /\ nextId >= 3 /\ serving.id \in Nat
    BY LineTypes DEF Ids, Opening
<1>7. InLine'
    <2>1. \A i \in 1 .. Len(toServer') : toServer'[i].id < nextId'
        BY <1>2, <1>6, LineTypes DEF Ids, InLine, N
    <2>2. \A i, j \in 1 .. Len(toServer') : i < j => toServer'[i].id < toServer'[j].id
        BY <1>1, <1>2, <1>6 DEF Ids, InLine, N
    <2>3. serving' # Idle =>
              serving'.id < nextId' /\ \A i \in 1 .. Len(toServer') : serving'.id < toServer'[i].id
        BY <1>2, <1>6 DEF Ids, InLine, N
    <2>4. \A i \in 1 .. Len(toPanel') : IsResponse(toPanel'[i]) =>
              /\ toPanel'[i].id < nextId'
              /\ serving' # Idle => toPanel'[i].id < serving'.id
              /\ \A j \in 1 .. Len(toServer') : toPanel'[i].id < toServer'[j].id
        <3> SUFFICES ASSUME NEW k \in 1 .. Len(toPanel), IsResponse(toPanel[k])
                     PROVE  /\ toPanel[k].id < nextId'
                            /\ serving' # Idle => toPanel[k].id < serving'.id
                            /\ \A j \in 1 .. Len(toServer') : toPanel[k].id < toServer'[j].id
            BY <1>4
        <3>1. /\ toPanel[k].id < nextId /\ toPanel[k].id \in Nat
              /\ serving # Idle => toPanel[k].id < serving.id
              /\ \A j \in 1 .. Len(toServer) : toPanel[k].id < toServer[j].id
            BY LineTypes DEF Ids, InLine
        <3> QED BY <1>2, <1>6, <3>1 DEF N
    <2>5. \A p \in pending' : p.id < nextId'
        BY <1>3, <1>6, LineTypes DEF Ids, InLine
    <2> QED BY <1>5, <2>1, <2>2, <2>3, <2>4, <2>5 DEF InLine
<1>8. Opening'
    <2>1. \A i \in 1 .. Len(toServer') :
              (toServer'[i].kind = "subscribe" <=> toServer'[i].id = 1) /\ toServer'[i].id >= 1
        BY <1>2, <1>6 DEF Ids, Opening, N
    <2>2. \A p \in pending' : p.id >= 2
        BY <1>3, <1>6 DEF Ids, Opening
    <2>3. sub => \A i \in 1 .. Len(toServer') : toServer'[i].id >= 2
        BY <1>2, <1>6 DEF Ids, Opening, N
    <2>4. ~sub =>
          /\ Len(toServer') >= 2 /\ toServer'[1].id = 1 /\ toServer'[2].id = 2
          /\ [id |-> 2, kind |-> "snapshot"] \in pending'
          /\ serving' = Idle
        <3> SUFFICES ASSUME ~sub
                     PROVE  /\ Len(toServer') >= 2 /\ toServer'[1].id = 1 /\ toServer'[2].id = 2
                            /\ [id |-> 2, kind |-> "snapshot"] \in pending'
                            /\ serving' = Idle
            OBVIOUS
        <3>1. /\ N >= 2 /\ toServer[1].id = 1 /\ toServer[2].id = 2 /\ serving = Idle
              /\ [id |-> 2, kind |-> "snapshot"] \in pending
            BY DEF Ids, Opening, N
        <3>2. 1 \in 1 .. N /\ 2 \in 1 .. N
            BY <1>1, <3>1
        <3>3. toServer'[1] = toServer[1] /\ toServer'[2] = toServer[2] /\ Len(toServer') >= 2
            BY <1>1, <3>1, <3>2
        <3>4. pending \subseteq pending'
            OBVIOUS
        <3>5. toServer'[1].id = 1 /\ toServer'[2].id = 2
            BY <3>1, <3>3
        <3>6. [id |-> 2, kind |-> "snapshot"] \in pending'
            BY <3>1, <3>4
        <3>7. serving' = Idle
            BY <3>1
        <3> QED BY <3>3, <3>5, <3>6, <3>7, Zenon
    <2>5. /\ (serving # Idle => serving.id >= 2 /\ serving.kind # "idle" /\ serving.kind # "subscribe")
          /\ (serving.answered => serving # Idle) /\ (serving.ok => serving.answered)
        BY DEF Ids, Opening
    <2>6. nextId' >= 3 /\ nextId' >= 1
        BY <1>6
    <2>7. UNCHANGED <<link, sub, serving>> /\ link = "up"
        OBVIOUS
    <2> QED BY <2>1, <2>2, <2>3, <2>4, <2>5, <2>6, <2>7 DEF Opening
<1>9. OwedReplies'
    <2> SUFFICES ASSUME NEW p \in pending'
                 PROVE  \/ \E i \in 1 .. Len(toServer') : toServer'[i].id = p.id
                        \/ serving'.id = p.id
                        \/ \E i \in 1 .. Len(toPanel') : toPanel'[i].type = "response" /\ toPanel'[i].id = p.id
        <3>1. DOMAIN toServer' = 1 .. Len(toServer') /\ DOMAIN toPanel' = 1 .. Len(toPanel')
            BY DEF Types
        <3> QED BY <3>1 DEF OwedReplies
    <2>1. CASE p \notin pending
        <3>1. N + 1 \in 1 .. Len(toServer')
            BY <1>1
        <3> QED BY <1>1, <1>3, <2>1, <3>1
    <2>2. CASE p \in pending
        <3>1. \/ \E i \in 1 .. Len(toServer) : toServer[i].id = p.id
              \/ serving.id = p.id
              \/ \E i \in 1 .. Len(toPanel) : toPanel[i].type = "response" /\ toPanel[i].id = p.id
            BY <2>2, LineTypes DEF Ids, OwedReplies
        <3>2. CASE \E i \in 1 .. Len(toServer) : toServer[i].id = p.id
            BY <1>1, <3>2 DEF N
        <3>3. ASSUME NEW i \in 1 .. Len(toPanel), toPanel[i].type = "response", toPanel[i].id = p.id
              PROVE  \E k \in 1 .. Len(toPanel') : toPanel'[k].type = "response" /\ toPanel'[k].id = p.id
            <4>1. CASE toPanel' = toPanel
                BY <3>3, <4>1
            <4>2. CASE toPanel # <<>> /\ ~IsResponse(Head(toPanel)) /\ toPanel' = Tail(toPanel)
                <5>1. i # 1
                    BY <3>3, <4>2, PanelReads DEF IsResponse
                <5>2. i - 1 \in 1 .. Len(toPanel') /\ toPanel'[i - 1] = toPanel[i]
                    <6>1. /\ Len(toPanel) \in Nat \ {0} /\ Len(toPanel') = Len(toPanel) - 1
                          /\ \A j \in 1 .. Len(toPanel') : toPanel'[j] = toPanel[j + 1]
                        BY <4>2, PanelReads
                    <6> QED BY <3>3, <5>1, <6>1
                <5> QED BY <3>3, <5>2
            <4> QED BY <4>1, <4>2
        <3> QED BY <3>1, <3>2, <3>3
    <2> QED BY <2>1, <2>2
<1> QED BY <1>7, <1>8, <1>9 DEF Ids

\* The client takes a line off the socket; a response takes its notes along.
LEMMA IdsRead ==
    ASSUME Types, Types', Ids, toPanel # <<>>, toPanel' = Tail(toPanel),
           pending' = IF IsResponse(Head(toPanel))
                      THEN pending \ {p \in pending : p.id = Head(toPanel).id} ELSE pending,
           UNCHANGED <<toServer, nextId, link, sub, serving>>
    PROVE  Ids'
<1>1. /\ Head(toPanel) = toPanel[1] /\ 1 \in 1 .. Len(toPanel)
      /\ Len(toPanel) \in Nat /\ Len(toPanel') = Len(toPanel) - 1
      /\ \A i \in 1 .. Len(toPanel') : i + 1 \in 1 .. Len(toPanel) /\ toPanel'[i] = toPanel[i + 1]
    BY PanelReads
<1>2. \A i, j \in 1 .. Len(toPanel') : i < j => i + 1 < j + 1
    BY <1>1
<1>3. InLine'
    <2>1. \A i \in 1 .. Len(toPanel') : IsResponse(toPanel'[i]) =>
               /\ toPanel'[i].id < nextId'
               /\ serving' # Idle => toPanel'[i].id < serving'.id
               /\ \A j \in 1 .. Len(toServer') : toPanel'[i].id < toServer'[j].id
               /\ \A j \in 1 .. Len(toPanel') :
                     i < j /\ IsResponse(toPanel'[j]) => toPanel'[i].id < toPanel'[j].id
        BY <1>1, <1>2 DEF Ids, InLine
    <2> QED BY <2>1 DEF Ids, InLine
<1>4. Opening'
    <2>1. link = "up" /\ ~sub => [id |-> 2, kind |-> "snapshot"] \in pending'
        <3> SUFFICES ASSUME link = "up", ~sub PROVE [id |-> 2, kind |-> "snapshot"] \in pending'
            OBVIOUS
        <3>1. Len(toServer) >= 2 /\ toServer[1].id = 1 /\ [id |-> 2, kind |-> "snapshot"] \in pending
            BY DEF Ids, Opening
        <3>2. 1 \in 1 .. Len(toServer)
            BY <3>1, LineTypes
        <3>3. IsResponse(Head(toPanel)) => Head(toPanel).id < 1
            BY <1>1, <3>1, <3>2 DEF Ids, InLine
        <3>4. IsResponse(Head(toPanel)) => Head(toPanel).id # 2
            BY <1>1, <3>3, LineTypes
        <3> QED BY <3>1, <3>4
    <2> QED BY <2>1 DEF Ids, Opening
<1>5. OwedReplies'
    <2> SUFFICES ASSUME link = "up", NEW p \in pending'
                 PROVE  \/ \E i \in 1 .. Len(toServer) : toServer[i].id = p.id
                        \/ serving.id = p.id
                        \/ \E i \in 1 .. Len(toPanel') : toPanel'[i].type = "response" /\ toPanel'[i].id = p.id
        <3>1. DOMAIN toPanel' = 1 .. Len(toPanel')
            BY DEF Types
        <3>2. DOMAIN toServer = 1 .. Len(toServer)
            BY LineTypes
        <3> QED BY <3>1, <3>2 DEF OwedReplies
    <2>1. p \in pending /\ (IsResponse(toPanel[1]) => toPanel[1].id # p.id)
        BY <1>1
    <2>2. ASSUME NEW i \in 1 .. Len(toPanel), toPanel[i].type = "response", toPanel[i].id = p.id
          PROVE  \E k \in 1 .. Len(toPanel') : toPanel'[k].type = "response" /\ toPanel'[k].id = p.id
        <3>1. i # 1
            BY <2>1, <2>2 DEF IsResponse
        <3>2. i - 1 \in 1 .. Len(toPanel') /\ toPanel'[i - 1] = toPanel[i]
            BY <1>1, <3>1
        <3> QED BY <2>2, <3>2
    <2> QED BY <2>1, <2>2, LineTypes DEF Ids, OwedReplies
<1> QED BY <1>3, <1>4, <1>5 DEF Ids

LEMMA IdsNext ==
    ASSUME Types, Types', Ends, Ends', Ids, [Next]_vars
    PROVE  Ids'
<1> USE DEF daemonVars, serverVars, clientVars
<1>1. ASSUME UNCHANGED <<toServer, toPanel, pending, nextId, link, sub, serving>> PROVE Ids'
    <2>1. (serving.answered => serving # Idle) /\ (serving.ok => serving.answered)
        BY DEF Ids, Opening
    <2> QED BY <1>1, <2>1, IdsFrame
<1>2. ASSUME NEW ok \in BOOLEAN, Reply(ok),
             UNCHANGED <<toServer, toPanel, pending, nextId, link, sub>>
      PROVE  Ids'
    <2>1. stamp \in Nat
        BY DEF Types
    <2> QED BY <1>2, <2>1, IdsAnswered DEF Reply
<1>3. CASE AnswerDropped
    <2>1. /\ serving'.id = serving.id /\ serving'.kind = serving.kind
          /\ serving'.answered = TRUE
        BY <1>3 DEF AnswerDropped, Types, Servings
    <2>2. serving' # Idle /\ serving # Idle
        BY <1>3, <2>1 DEF Idle, AnswerDropped
    <2> QED BY <1>3, <2>1, <2>2, IdsFrame DEF AnswerDropped
<1>4. CASE Server
    <2>1. CASE Cancelled
        BY <2>1, IdsEnded DEF Cancelled, HangUp
    <2> QED BY <1>3, <1>4, <2>1, IdsSubscribe, IdsForward, IdsWriteResponse, IdsPush DEF Server
<1>5. CASE Actor
    <2>1. CASE AnswerSnapshot
        BY <1>2, <2>1 DEF AnswerSnapshot
    <2>2. ASSUME NEW ok \in BOOLEAN, AnswerQuietly(ok) PROVE Ids'
        BY <1>2, <2>2 DEF AnswerQuietly
    <2>3. ASSUME NEW event \in Emitted, Obey(event) PROVE Ids'
        BY <1>2, <2>3 DEF Obey
    <2> QED BY <1>5, <2>1, <2>2, <2>3 DEF Actor
<1>6. ASSUME Lose, nextId' = nextId PROVE Ids'
    BY <1>6, IdsEnded DEF Lose
<1>7. CASE Client
    <2>1. CASE TakeAsked
        <3>1. CASE link = "closing"
            BY <1>6, <2>1, <3>1 DEF TakeAsked
        <3>2. CASE link = "up"
            <4> DEFINE line == Line(nextId, Head(outbox).kind, Head(outbox).n)
            <4>1. /\ outbox # <<>> /\ toServer' = Append(toServer, line) /\ nextId' = nextId + 1
                  /\ UNCHANGED <<link, toPanel, sub, serving>>
                  /\ \/ pending' = pending
                     \/ pending' = pending \cup
                           {[id |-> nextId, kind |-> Expects(Head(outbox).kind)]}
                BY <2>1, <3>2 DEF TakeAsked
            <4>2. Head(outbox) \in [n : Nat, kind : UiKinds]
                <5> DEFINE Requests == [n : Nat, kind : UiKinds]
                <5>1. outbox \in Seq(Requests)
                    BY DEF Types
                <5> HIDE DEF Requests
                <5>2. Head(outbox) \in Requests
                    BY <4>1, <5>1, TailFacts
                <5> QED BY <5>2 DEF Requests
            <4>3. line \in Lines /\ line.id = nextId /\ line.kind # "subscribe"
                BY <4>2, KindsAssumption DEF Line, Lines, Kinds, Types
            <4>4. Expects(Head(outbox).kind) \in {"snapshot", "details", "capture", "nothing"}
                BY DEF Expects
            <4> HIDE DEF line
            <4> QED BY <3>2, <4>1, <4>3, <4>4, IdsNew
        <3> QED BY <2>1, <3>1, <3>2 DEF TakeAsked
    <2>2. CASE ReadResponse
        <3>1. /\ toPanel # <<>> /\ toPanel' = Tail(toPanel) /\ IsResponse(Head(toPanel))
              /\ pending' = pending \ {p \in pending : p.id = Head(toPanel).id}
              /\ UNCHANGED <<toServer, nextId, link, sub, serving>>
            BY <2>2 DEF ReadResponse, IsResponse
        <3> QED BY <3>1, IdsRead
    <2>3. CASE ReadEvent
        <3>1. /\ toPanel # <<>> /\ ~IsResponse(Head(toPanel)) /\ link # "none"
              /\ UNCHANGED <<sub, serving>>
            BY <2>3 DEF ReadEvent, IsResponse, Ends
        <3>2. CASE Noisy(Head(toPanel).event) \/ Fetching
            BY <2>3, <3>1, <3>2, IdsRead DEF ReadEvent
        <3>3. CASE ~(Noisy(Head(toPanel).event) \/ Fetching) /\ link = "closing"
            BY <1>6, <2>3, <3>3 DEF ReadEvent
        <3>4. CASE ~(Noisy(Head(toPanel).event) \/ Fetching) /\ link = "up"
            <4> DEFINE line == Line(nextId, "snapshot", 0)
            <4>1. line \in Lines /\ line.id = nextId /\ line.kind # "subscribe"
                BY DEF Line, Lines, Kinds, Types
            <4>2. /\ toServer' = Append(toServer, line) /\ nextId' = nextId + 1
                  /\ toPanel' = Tail(toPanel) /\ link' = link
                  /\ pending' = pending \cup {[id |-> nextId, kind |-> "snapshot"]}
                BY <2>3, <3>4 DEF ReadEvent
            <4> HIDE DEF line
            <4> QED BY <3>1, <3>4, <4>1, <4>2, IdsNew
        <3> QED BY <3>1, <3>2, <3>3, <3>4 DEF Types
    <2>4. CASE ConnectRefused \/ EndOfFile
        BY <1>6, <2>4 DEF ConnectRefused, EndOfFile
    <2> QED BY <1>7, <2>1, <2>2, <2>3, <2>4, IdsConnect DEF Client
<1>8. CASE Crash \/ Exit
    BY <1>8, IdsEnded DEF Crash, Exit, HangUp
<1>9. ASSUME NEW event \in Emitted, Change(event) \/ Noise(event) PROVE Ids'
    BY <1>1, <1>9 DEF Change, Noise
<1>10. ASSUME NEW kind \in UiKinds, Ask(kind) PROVE Ids'
    BY <1>1, <1>10 DEF Ask
<1>11. CASE SilentChange \/ StopActor \/ Start \/ UNCHANGED vars
    BY <1>1, <1>11 DEF SilentChange, StopActor, Start, vars
<1> QED BY <1>4, <1>5, <1>7, <1>8, <1>9, <1>10, <1>11 DEF Next, Environment

-----------------------------------------------------------------------------
(* The bus *)

LEMMA InboxTypes ==
    ASSUME Types
    PROVE  /\ Len(inbox) \in Nat
           /\ \A i \in 1 .. Len(inbox) : inbox[i].at \in Nat /\ inbox[i].event \in Emitted
           /\ inbox # <<>> => /\ Len(inbox) \in Nat \ {0} /\ Head(inbox) = inbox[1]
                              /\ 1 \in 1 .. Len(inbox)
                              /\ Len(Tail(inbox)) = Len(inbox) - 1
                              /\ Tail(inbox) \in Seq(Announcements)
                              /\ \A i \in 1 .. Len(Tail(inbox)) :
                                    /\ i + 1 \in 1 .. Len(inbox)
                                    /\ Tail(inbox)[i] = inbox[i + 1]
<1>1. inbox \in Seq(Announcements)
    BY DEF Types
<1>2. \A i \in 1 .. Len(inbox) : inbox[i] \in Announcements
    BY <1>1
<1>3. \A i \in 1 .. Len(inbox) : inbox[i].at \in Nat /\ inbox[i].event \in Emitted
    BY <1>2 DEF Announcements
<1>4. ASSUME inbox # <<>>
      PROVE  /\ Len(inbox) \in Nat \ {0} /\ Head(inbox) = inbox[1]
             /\ Len(Tail(inbox)) = Len(inbox) - 1 /\ Tail(inbox) \in Seq(Announcements)
             /\ \A i \in 1 .. Len(inbox) - 1 : Tail(inbox)[i] = inbox[i + 1]
    BY <1>1, <1>4, TailFacts
<1>5. Len(inbox) \in Nat
    BY <1>1
<1> QED BY <1>3, <1>4, <1>5

\* What a full bus keeps of the receiver's events, and the new one.
LEMMA EmitInbox ==
    ASSUME Types, NEW event \in Emitted, NEW at \in Nat, Emit(event, at), sub
    PROVE  \E d \in {0, 1} :
              /\ Len(inbox') = Len(inbox) - d + 1 /\ Len(inbox) \in Nat
              /\ d = 1 => /\ 1 \in 1 .. Len(inbox) /\ Head(inbox) = inbox[1]
                          /\ lost' = IF Announces(inbox[1].event) THEN inbox[1].at ELSE lost
              /\ d = 0 => lost' = lost
              /\ \A i \in 1 .. Len(inbox) - d :
                    /\ i + d \in 1 .. Len(inbox) /\ i \in 1 .. Len(inbox')
                    /\ inbox'[i] = inbox[i + d]
              /\ \A i \in 1 .. Len(inbox') : i # Len(inbox') => i \in 1 .. Len(inbox) - d
              /\ Len(inbox') \in 1 .. Len(inbox')
              /\ inbox'[Len(inbox')] = [event |-> event, at |-> at]
<1> DEFINE e == [event |-> event, at |-> at]
<1>1. e \in Announcements
    BY DEF Announcements
<1>2. inbox \in Seq(Announcements)
    BY DEF Types
<1>3. CASE Len(inbox) = BusCapacity
    <2>1. inbox # <<>>
        BY <1>3, CapacityAssumption
    <2>2. inbox' = Append(Tail(inbox), e)
          /\ lost' = IF Announces(Head(inbox).event) THEN Head(inbox).at ELSE lost
        BY <1>3 DEF Emit
    <2>3. /\ Len(inbox) \in Nat \ {0} /\ Head(inbox) = inbox[1] /\ 1 \in 1 .. Len(inbox)
          /\ Len(Tail(inbox)) = Len(inbox) - 1
          /\ Tail(inbox) \in Seq(Announcements)
          /\ \A i \in 1 .. Len(Tail(inbox)) :
                i + 1 \in 1 .. Len(inbox) /\ Tail(inbox)[i] = inbox[i + 1]
        BY <2>1, InboxTypes
    <2> HIDE DEF e
    <2>4. /\ Len(inbox') = Len(Tail(inbox)) + 1
          /\ \A i \in 1 .. Len(Tail(inbox)) : inbox'[i] = Tail(inbox)[i]
          /\ inbox'[Len(Tail(inbox)) + 1] = e
        BY <1>1, <2>2, <2>3, AppendFacts
    <2>5. /\ Len(inbox') = Len(inbox) - 1 + 1 /\ Len(inbox) \in Nat
          /\ 1 \in 1 .. Len(inbox) /\ Head(inbox) = inbox[1]
          /\ lost' = IF Announces(inbox[1].event) THEN inbox[1].at ELSE lost
          /\ \A i \in 1 .. Len(inbox) - 1 :
                /\ i + 1 \in 1 .. Len(inbox) /\ i \in 1 .. Len(inbox')
                /\ inbox'[i] = inbox[i + 1]
          /\ \A i \in 1 .. Len(inbox') : i # Len(inbox') => i \in 1 .. Len(inbox) - 1
          /\ Len(inbox') \in 1 .. Len(inbox')
          /\ inbox'[Len(inbox')] = e
        <3> DEFINE N == Len(inbox)
        <3>1. /\ N \in Nat \ {0} /\ Len(Tail(inbox)) = N - 1 /\ Len(inbox') = N
            BY <2>3, <2>4
        <3>2. \A i \in 1 .. N - 1 : inbox'[i] = inbox[i + 1]
            BY <2>3, <2>4, <3>1
        <3>3. inbox'[N] = e
            BY <2>4, <3>1
        <3>4. lost' = IF Announces(inbox[1].event) THEN inbox[1].at ELSE lost
            BY <2>2, <2>3
        <3>5. Head(inbox) = inbox[1]
            BY <2>3
        <3> HIDE DEF N
        <3>6. /\ Len(inbox') = N - 1 + 1 /\ 1 \in 1 .. N
              /\ \A i \in 1 .. N - 1 : i + 1 \in 1 .. N /\ i \in 1 .. Len(inbox')
              /\ \A i \in 1 .. Len(inbox') : i # Len(inbox') => i \in 1 .. N - 1
              /\ Len(inbox') \in 1 .. Len(inbox')
            BY <3>1
        <3> QED BY <3>1, <3>2, <3>3, <3>4, <3>5, <3>6 DEF N
    <2> QED BY <2>5 DEF e
<1>4. CASE Len(inbox) # BusCapacity
    <2>1. inbox' = Append(inbox, e) /\ lost' = lost
        BY <1>4 DEF Emit
    <2> HIDE DEF e
    <2>2. /\ Len(inbox) \in Nat /\ Len(inbox') = Len(inbox) + 1
          /\ \A i \in 1 .. Len(inbox) : inbox'[i] = inbox[i]
          /\ inbox'[Len(inbox) + 1] = e
        BY <1>1, <1>2, <2>1, AppendFacts
    <2>3. /\ Len(inbox') = Len(inbox) - 0 + 1
          /\ \A i \in 1 .. Len(inbox) - 0 :
                /\ i + 0 \in 1 .. Len(inbox) /\ i \in 1 .. Len(inbox')
                /\ inbox'[i] = inbox[i + 0]
          /\ \A i \in 1 .. Len(inbox') : i # Len(inbox') => i \in 1 .. Len(inbox) - 0
          /\ Len(inbox') \in 1 .. Len(inbox')
          /\ inbox'[Len(inbox')] = e
        BY <2>2
    <2> QED BY <2>1, <2>2, <2>3 DEF e
<1> QED BY <1>3, <1>4

\* An announcement is of a change no earlier one was of.
LEMMA BusEmit ==
    ASSUME Types, BusInOrder, NEW event \in Emitted, NEW at \in Nat, Emit(event, at),
           Announces(event) => said < at
    PROVE  BusInOrder'
<1>1. said' = (IF Announces(event) THEN at ELSE said) /\ said <= said' /\ said \in Nat /\ lost \in Nat
    BY DEF Emit, Types
<1>2. CASE ~sub
    <2>1. UNCHANGED <<inbox, lost>>
        BY <1>2 DEF Emit
    <2>2. \A i \in 1 .. Len(inbox) : inbox[i].at \in Nat
        BY InboxTypes
    <2> QED BY <1>1, <2>1, <2>2 DEF BusInOrder
<1>3. CASE sub
    <2>1. PICK d \in {0, 1} :
              /\ Len(inbox') = Len(inbox) - d + 1 /\ Len(inbox) \in Nat
              /\ d = 1 => /\ 1 \in 1 .. Len(inbox) /\ Head(inbox) = inbox[1]
                          /\ lost' = IF Announces(inbox[1].event) THEN inbox[1].at ELSE lost
              /\ d = 0 => lost' = lost
              /\ \A i \in 1 .. Len(inbox) - d :
                    /\ i + d \in 1 .. Len(inbox) /\ i \in 1 .. Len(inbox')
                    /\ inbox'[i] = inbox[i + d]
              /\ \A i \in 1 .. Len(inbox') : i # Len(inbox') => i \in 1 .. Len(inbox) - d
              /\ Len(inbox') \in 1 .. Len(inbox')
              /\ inbox'[Len(inbox')] = [event |-> event, at |-> at]
        BY <1>3, EmitInbox
    <2>2. lost' \in Nat /\ lost' <= said
        BY <1>1, <2>1, InboxTypes DEF BusInOrder
    <2>3. ASSUME NEW i \in 1 .. Len(inbox), Announces(inbox[i].event), d = 1 => i # 1
          PROVE  lost' < inbox[i].at
        <3>1. lost < inbox[i].at
            BY <2>3 DEF BusInOrder
        <3>2. CASE d = 0
            BY <2>1, <3>1, <3>2
        <3>3. CASE d = 1 /\ Announces(inbox[1].event)
            <4>1. 1 < i /\ 1 \in 1 .. Len(inbox)
                BY <2>1, <2>3, <3>3
            <4>2. inbox[1].at < inbox[i].at
                BY <2>3, <3>3, <4>1 DEF BusInOrder
            <4> QED BY <2>1, <3>3, <4>2
        <3>4. CASE d = 1 /\ ~Announces(inbox[1].event)
            BY <2>1, <3>1, <3>4
        <3> QED BY <3>2, <3>3, <3>4
    <2>4. \A i \in 1 .. Len(inbox') : Announces(inbox'[i].event) =>
              /\ lost' < inbox'[i].at /\ inbox'[i].at <= said'
              /\ i # Len(inbox') => inbox'[i].at <= said
        <3> TAKE i \in 1 .. Len(inbox')
        <3>1. CASE i = Len(inbox')
            BY <1>1, <2>1, <2>2, <3>1
        <3>2. CASE i # Len(inbox')
            <4>1. i \in 1 .. Len(inbox) - d /\ i + d \in 1 .. Len(inbox) /\ inbox'[i] = inbox[i + d]
                BY <2>1, <3>2
            <4>2. d = 1 => i + d # 1
                BY <2>1, <4>1
            <4>3. inbox[i + d].at \in Nat
                BY <4>1, InboxTypes
            <4> QED BY <1>1, <2>3, <4>1, <4>2, <4>3 DEF BusInOrder
        <3> QED BY <3>1, <3>2
    <2>5. \A i, j \in 1 .. Len(inbox') :
              i < j /\ Announces(inbox'[i].event) /\ Announces(inbox'[j].event)
                  => inbox'[i].at < inbox'[j].at
        <3> TAKE i, j \in 1 .. Len(inbox')
        <3> SUFFICES ASSUME i < j, Announces(inbox'[i].event), Announces(inbox'[j].event)
                     PROVE  inbox'[i].at < inbox'[j].at
            OBVIOUS
        <3>1. i # Len(inbox')
            BY <2>1
        <3>2. i \in 1 .. Len(inbox) - d /\ i + d \in 1 .. Len(inbox) /\ inbox'[i] = inbox[i + d]
            BY <2>1, <3>1
        <3>3. CASE j = Len(inbox')
            <4>1. inbox'[i].at <= said /\ inbox'[i].at \in Nat
                BY <2>4, <3>1, <3>2, InboxTypes
            <4>2. inbox'[j].at = at /\ said < at
                BY <2>1, <3>3
            <4> QED BY <1>1, <4>1, <4>2
        <3>4. CASE j # Len(inbox')
            <4>1. j \in 1 .. Len(inbox) - d /\ j + d \in 1 .. Len(inbox) /\ inbox'[j] = inbox[j + d]
                BY <2>1, <3>4
            <4>2. i + d < j + d
                BY <2>1, <3>2, <4>1
            <4> QED BY <3>2, <4>1, <4>2 DEF BusInOrder
        <3> QED BY <3>3, <3>4
    <2>6. lost' <= said'
        BY <1>1, <2>2
    <2> QED BY <2>4, <2>5, <2>6 DEF BusInOrder
<1> QED BY <1>2, <1>3

LEMMA BusNext ==
    ASSUME Types, Types', Ends, Ids, BusInOrder, said <= stamp, [Next]_vars
    PROVE  BusInOrder'
<1> USE DEF daemonVars, serverVars, clientVars
<1>1. ASSUME UNCHANGED <<inbox, lost, said>> PROVE BusInOrder'
    BY <1>1 DEF BusInOrder
<1>2. ASSUME inbox' = <<>>, UNCHANGED <<lost, said>> PROVE BusInOrder'
    <2>1. Len(<<>>) = 0
        OBVIOUS
    <2> QED BY <1>2, <2>1 DEF BusInOrder
<1>3. stamp \in Nat /\ stamp + 1 \in Nat /\ said \in Nat /\ said < stamp + 1
    BY DEF Types
<1>4. CASE Server
    <2>1. CASE Push
        <3>1. CASE inbox # <<>> /\ inbox' = Tail(inbox)
            <4>1. \A i, j \in 1 .. Len(inbox') :
                      /\ i + 1 \in 1 .. Len(inbox) /\ inbox'[i] = inbox[i + 1]
                      /\ j + 1 \in 1 .. Len(inbox) /\ inbox'[j] = inbox[j + 1]
                BY <3>1, InboxTypes
            <4>2. \A i, j \in 1 .. Len(inbox') : i < j => i + 1 < j + 1
                BY <3>1, InboxTypes
            <4>3. UNCHANGED <<lost, said>>
                BY <2>1 DEF Push
            <4> QED BY <4>1, <4>2, <4>3 DEF BusInOrder
        <3> QED BY <1>1, <2>1, <3>1 DEF Push
    <2>2. CASE Subscribe \/ Cancelled
        BY <1>2, <2>2 DEF Subscribe, Cancelled, HangUp
    <2>3. CASE Forward \/ AnswerDropped \/ WriteResponse
        BY <1>1, <2>3 DEF Forward, AnswerDropped, WriteResponse
    <2> QED BY <1>4, <2>1, <2>2, <2>3 DEF Server
<1>5. CASE Actor
    <2>1. CASE AnswerSnapshot
        BY <1>1, <2>1 DEF AnswerSnapshot
    <2>2. ASSUME NEW ok \in BOOLEAN, AnswerQuietly(ok) PROVE BusInOrder'
        BY <1>1, <2>2 DEF AnswerQuietly
    <2>3. ASSUME NEW event \in Emitted, Obey(event) PROVE BusInOrder'
        BY <1>3, <2>3, BusEmit DEF Obey
    <2> QED BY <1>5, <2>1, <2>2, <2>3 DEF Actor
<1>6. CASE Client
    <2>1. CASE Connect
        <3>1. inbox = <<>> /\ inbox' = inbox /\ lost' = 0 /\ said' = said /\ Len(<<>>) = 0
            BY <2>1 DEF Connect, Ends
        <3> QED BY <1>3, <3>1 DEF BusInOrder
    <2>2. CASE ConnectRefused \/ EndOfFile \/ TakeAsked \/ ReadResponse \/ ReadEvent
        BY <1>1, <2>2 DEF ConnectRefused, EndOfFile, TakeAsked, ReadResponse, ReadEvent
    <2> QED BY <1>6, <2>1, <2>2 DEF Client
<1>7. CASE Crash \/ Exit
    BY <1>2, <1>7 DEF Crash, Exit, HangUp
<1>8. ASSUME NEW event \in Emitted, Change(event) PROVE BusInOrder'
    BY <1>3, <1>8, BusEmit DEF Change
<1>9. ASSUME NEW event \in Emitted, Noise(event) PROVE BusInOrder'
    BY <1>3, <1>9, BusEmit DEF Noise
<1>10. CASE Start
    <2>1. inbox = <<>> /\ inbox' = inbox /\ lost' = lost /\ said' = stamp + 1 /\ Len(<<>>) = 0
        <3>1. sub = FALSE
            BY <1>10 DEF Start, Ends
        <3> QED BY <1>10, <3>1 DEF Start, Ends
    <2>2. lost <= said /\ lost \in Nat
        BY DEF BusInOrder, Types
    <2> QED BY <1>3, <2>1, <2>2 DEF BusInOrder
<1>11. ASSUME NEW kind \in UiKinds, Ask(kind) PROVE BusInOrder'
    BY <1>1, <1>11 DEF Ask
<1>12. CASE SilentChange \/ StopActor \/ UNCHANGED vars
    BY <1>1, <1>12 DEF SilentChange, StopActor, vars
<1> QED BY <1>4, <1>5, <1>6, <1>7, <1>8, <1>9, <1>10, <1>11, <1>12 DEF Next, Environment

-----------------------------------------------------------------------------
(* The notes of snapshots *)

\* A step that adds nothing under the ids of the notes.
LEMMA NotesFrame ==
    ASSUME Types, Types', Ids, NotesKnown, pending' \subseteq pending,
           \A i \in 1 .. Len(toServer') : \E k \in 1 .. Len(toServer) : toServer'[i] = toServer[k],
           \/ serving'.id = 0
           \/ serving'.id = serving.id /\ serving'.kind = serving.kind
              /\ (phase' = "running" /\ serving'.answered /\ serving.kind = "snapshot" =>
                     serving'.ok \/ (serving.answered /\ serving'.ok = serving.ok)),
           phase' = "running" => phase = "running" \/ serving'.id = 0,
           phase' = "running" /\ link' = "up" =>
               /\ phase = "running" /\ link = "up"
               /\ \A i \in 1 .. Len(toPanel') : IsResponse(toPanel'[i]) =>
                     \/ \E k \in 1 .. Len(toPanel) : toPanel'[i] = toPanel[k]
                     \/ toPanel'[i].ok
                     \/ serving.answered /\ toPanel'[i].id = serving.id /\ toPanel'[i].ok = serving.ok
    PROVE  NotesKnown'
<1> SUFFICES ASSUME NEW p \in pending, p.kind = "snapshot" PROVE Known(p)'
    BY DEF NotesKnown
<1>1. Known(p) /\ p.id >= 2 /\ p.id # 0
    BY LineTypes DEF NotesKnown, Ids, Opening
<1>2. \A i \in 1 .. Len(toServer') : toServer'[i].id = p.id => toServer'[i].kind = "snapshot"
    BY <1>1 DEF Known
<1>3. serving'.id = p.id => /\ serving'.kind = "snapshot"
                            /\ phase' = "running" /\ serving'.answered => serving'.ok
    BY <1>1 DEF Known
<1>4. phase' = "running" /\ link' = "up" =>
          \A i \in 1 .. Len(toPanel') :
              IsResponse(toPanel'[i]) /\ toPanel'[i].id = p.id => toPanel'[i].ok
    BY <1>1 DEF Known
<1> QED BY <1>2, <1>3, <1>4 DEF Known

\* A line written by the client is under an id of its own.
LEMMA NotesNew ==
    ASSUME Types, Types', Ids, NotesKnown, NEW line \in Lines, line.id = nextId, link = "up",
           toServer' = Append(toServer, line),
           \/ pending' = pending
           \/ \E kind \in {"snapshot", "details", "capture", "nothing"} :
                 /\ pending' = pending \cup {[id |-> nextId, kind |-> kind]}
                 /\ kind = "snapshot" => line.kind = "snapshot",
           \A i \in 1 .. Len(toPanel') : \E k \in 1 .. Len(toPanel) : toPanel'[i] = toPanel[k],
           UNCHANGED <<link, serving, phase>>
    PROVE  NotesKnown'
<1>1. \A i \in 1 .. Len(toServer') :
          toServer'[i] = line \/ \E k \in 1 .. Len(toServer) : toServer'[i] = toServer[k]
    BY ServerGets
<1>2. nextId \in Nat /\ nextId >= 3
    BY LineTypes DEF Ids, Opening
<1> SUFFICES ASSUME NEW p \in pending', p.kind = "snapshot" PROVE Known(p)'
    BY DEF NotesKnown
<1>3. CASE p \in pending
    <2>1. Known(p) /\ p.id < nextId /\ p.id \in Nat
        BY <1>3, LineTypes DEF NotesKnown, Ids, InLine
    <2>2. p.id # line.id
        BY <1>2, <2>1
    <2>3. \A i \in 1 .. Len(toServer') : toServer'[i].id = p.id => toServer'[i].kind = "snapshot"
        BY <1>1, <2>1, <2>2 DEF Known
    <2>4. serving'.id = p.id => /\ serving'.kind = "snapshot"
                                /\ phase' = "running" /\ serving'.answered => serving'.ok
        BY <2>1 DEF Known
    <2>5. ASSUME phase' = "running", link' = "up", NEW i \in 1 .. Len(toPanel'),
                 IsResponse(toPanel'[i]), toPanel'[i].id = p.id
          PROVE  toPanel'[i].ok
        <3>1. PICK k \in 1 .. Len(toPanel) : toPanel'[i] = toPanel[k]
            OBVIOUS
        <3> QED BY <2>1, <2>5, <3>1 DEF Known
    <2> QED BY <2>3, <2>4, <2>5 DEF Known
<1>4. CASE p \notin pending
    <2>1. p.id = nextId /\ line.kind = "snapshot"
        BY <1>4
    <2>2. \A k \in 1 .. Len(toServer) : toServer[k].id # nextId
        BY <1>2, LineTypes DEF Ids, InLine
    <2>3. serving.id # nextId
        BY <1>2, LineTypes DEF Ids, InLine, Idle
    <2>4. \A k \in 1 .. Len(toPanel) : IsResponse(toPanel[k]) => toPanel[k].id # nextId
        BY <1>2, LineTypes DEF Ids, InLine
    <2> QED BY <1>1, <2>1, <2>2, <2>3, <2>4 DEF Known
<1> QED BY <1>3, <1>4

LEMMA NotesForward == ASSUME Types, Types', Ends, Ids, NotesKnown, Forward PROVE NotesKnown'
<1>1. /\ toServer # <<>> /\ toServer' = Tail(toServer) /\ ~serving'.answered
      /\ serving'.id = Head(toServer).id /\ serving'.kind = Head(toServer).kind
      /\ UNCHANGED <<phase, link, toPanel, pending>>
    BY DEF Forward, daemonVars, clientVars
<1>2. /\ Head(toServer) = toServer[1] /\ 1 \in 1 .. Len(toServer)
      /\ \A i \in 1 .. Len(toServer') : \E k \in 1 .. Len(toServer) : toServer'[i] = toServer[k]
    BY <1>1, ServerTakes
<1> SUFFICES ASSUME NEW p \in pending, p.kind = "snapshot" PROVE Known(p)'
    BY <1>1 DEF NotesKnown
<1>3. Known(p)
    BY DEF NotesKnown
<1> QED BY <1>1, <1>2, <1>3 DEF Known

LEMMA NotesConnect == ASSUME Types, Types', Ends, Connect PROVE NotesKnown'
<1>1. /\ Len(toServer') = 2 /\ toServer'[1].id = 1
      /\ toServer'[2].id = 2 /\ toServer'[2].kind = "snapshot"
    BY DEF Connect, Line
<1>2. /\ Len(toPanel') = 0 /\ pending' = {[id |-> 2, kind |-> "snapshot"]}
      /\ serving' = Idle
    BY DEF Connect, Ends
<1>3. \A i \in 1 .. 2 : i = 1 \/ i = 2
    OBVIOUS
<1>4. serving'.id = 0
    BY <1>2 DEF Idle
<1> SUFFICES ASSUME NEW p \in pending' PROVE Known(p)'
    BY DEF NotesKnown
<1> QED BY <1>1, <1>2, <1>3, <1>4 DEF Known

LEMMA NotesNext ==
    ASSUME Types, Types', Ends, Ends', Ids, NotesKnown, [Next]_vars
    PROVE  NotesKnown'
<1> USE DEF daemonVars, serverVars, clientVars
<1>1. ASSUME pending' \subseteq pending, UNCHANGED <<serving, phase>>,
             \A i \in 1 .. Len(toServer') : \E k \in 1 .. Len(toServer) : toServer'[i] = toServer[k],
             link' = "up" => link = "up",
             \A i \in 1 .. Len(toPanel') : \E k \in 1 .. Len(toPanel) : toPanel'[i] = toPanel[k]
      PROVE  NotesKnown'
    BY <1>1, NotesFrame
<1>2. ASSUME UNCHANGED <<pending, serving, phase, toServer, toPanel, link>> PROVE NotesKnown'
    BY <1>1, <1>2
<1>3. ASSUME Lose, UNCHANGED <<serving, phase>> PROVE NotesKnown'
    <2>1. Len(<<>>) = 0
        OBVIOUS
    <2> QED BY <1>1, <1>3, <2>1 DEF Lose
<1>4. ASSUME HangUp, UNCHANGED <<pending, toPanel>>, phase' = "running" => phase = "running"
      PROVE  NotesKnown'
    <2>1. serving'.id = 0 /\ toServer' = <<>> /\ link' # "up" /\ Len(<<>>) = 0
        BY <1>4 DEF HangUp, Idle
    <2> QED BY <1>4, <2>1, NotesFrame
<1>5. ASSUME NEW ok \in BOOLEAN, Reply(ok), serving.kind = "snapshot" => ok = TRUE,
             UNCHANGED <<phase, link, toServer, toPanel, pending>>
      PROVE  NotesKnown'
    <2>1. serving'.id = serving.id /\ serving'.kind = serving.kind /\ serving'.ok = ok
        BY <1>5 DEF Reply, Types, Servings
    <2> QED BY <1>5, <2>1, NotesFrame
<1>6. CASE Server
    <2>1. CASE Subscribe
        <3> DEFINE line == Response(Head(toServer).id, TRUE, 0)
        <3>1. /\ toServer # <<>> /\ toServer' = Tail(toServer) /\ toPanel' = Append(toPanel, line)
              /\ UNCHANGED <<phase, link, serving, pending>>
            BY <2>1 DEF Subscribe
        <3>2. line \in PanelLines /\ line.ok
            BY <3>1, TakenTypes DEF Response, PanelLines
        <3> HIDE DEF line
        <3>3. \A i \in 1 .. Len(toServer') : \E k \in 1 .. Len(toServer) : toServer'[i] = toServer[k]
            BY <3>1, ServerTakes
        <3>4. \A i \in 1 .. Len(toPanel') :
                  (\E k \in 1 .. Len(toPanel) : toPanel'[i] = toPanel[k]) \/ toPanel'[i].ok
            BY <3>1, <3>2, PanelGets
        <3>5. link = "up"
            BY <2>1 DEF Subscribe
        <3> QED BY <3>1, <3>3, <3>4, <3>5, NotesFrame
    <2>2. CASE AnswerDropped
        <3>1. /\ serving'.id = serving.id /\ serving'.kind = serving.kind
              /\ phase' # "running" /\ UNCHANGED <<phase, pending, toServer, toPanel>>
            BY <2>2 DEF AnswerDropped, Types, Servings
        <3> QED BY <3>1, NotesFrame
    <2>3. CASE WriteResponse
        <3> DEFINE line == Response(serving.id, serving.ok, serving.stamp)
        <3>1. /\ toPanel' = Append(toPanel, line) /\ serving'.id = 0 /\ serving.answered
              /\ UNCHANGED <<phase, link, toServer, pending>>
            BY <2>3 DEF WriteResponse, Idle
        <3>2. line \in PanelLines /\ line.ok = serving.ok /\ line.id = serving.id
            BY DEF Response, PanelLines, Types, Servings
        <3> HIDE DEF line
        <3>3. \A i \in 1 .. Len(toPanel') :
                  \/ \E k \in 1 .. Len(toPanel) : toPanel'[i] = toPanel[k]
                  \/ serving.answered /\ toPanel'[i].id = serving.id /\ toPanel'[i].ok = serving.ok
            BY <3>1, <3>2, PanelGets
        <3> QED BY <3>1, <3>3, NotesFrame
    <2>4. CASE Push
        <3>1. UNCHANGED <<phase, link, serving, pending, toServer>>
            BY <2>4 DEF Push
        <3>2. CASE toPanel' = toPanel
            BY <1>2, <3>1, <3>2
        <3>3. CASE toPanel' = Append(toPanel, EventLine(Head(inbox).event)) /\ inbox # <<>>
            <4>1. Head(inbox) \in Announcements
                BY <3>3, TailFacts DEF Types
            <4>2. EventLine(Head(inbox).event) \in PanelLines
                  /\ EventLine(Head(inbox).event).ok
                BY <4>1 DEF EventLine, PanelLines, Announcements
            <4>3. \A i \in 1 .. Len(toPanel') :
                      (\E k \in 1 .. Len(toPanel) : toPanel'[i] = toPanel[k]) \/ toPanel'[i].ok
                BY <3>3, <4>2, PanelGets
            <4> QED BY <3>1, <4>3, NotesFrame
        <3> QED BY <2>4, <3>2, <3>3 DEF Push
    <2>5. CASE Cancelled
        BY <1>4, <2>5 DEF Cancelled
    <2> QED BY <1>6, <2>1, <2>2, <2>3, <2>4, <2>5, NotesForward DEF Server
<1>7. CASE Actor
    <2>1. CASE AnswerSnapshot
        BY <1>5, <2>1 DEF AnswerSnapshot
    <2>2. ASSUME NEW ok \in BOOLEAN, AnswerQuietly(ok) PROVE NotesKnown'
        BY <1>5, <2>2, KindsAssumption DEF AnswerQuietly
    <2>3. ASSUME NEW event \in Emitted, Obey(event) PROVE NotesKnown'
        BY <1>5, <2>3, KindsAssumption DEF Obey
    <2> QED BY <1>7, <2>1, <2>2, <2>3 DEF Actor
<1>8. CASE Client
    <2>1. CASE TakeAsked
        <3>1. CASE link = "closing"
            BY <1>3, <2>1, <3>1 DEF TakeAsked
        <3>2. CASE link = "up"
            <4> DEFINE line == Line(nextId, Head(outbox).kind, Head(outbox).n)
                       note == Expects(Head(outbox).kind)
            <4>1. /\ outbox # <<>> /\ toServer' = Append(toServer, line)
                  /\ UNCHANGED <<link, toPanel, phase, serving>>
                  /\ \/ pending' = pending
                     \/ pending' = pending \cup {[id |-> nextId, kind |-> note]}
                BY <2>1, <3>2 DEF TakeAsked
            <4>2. Head(outbox) \in [n : Nat, kind : UiKinds]
                <5> DEFINE Requests == [n : Nat, kind : UiKinds]
                <5>1. outbox \in Seq(Requests)
                    BY DEF Types
                <5> HIDE DEF Requests
                <5>2. Head(outbox) \in Requests
                    BY <4>1, <5>1, TailFacts
                <5> QED BY <5>2 DEF Requests
            <4>3. line \in Lines /\ line.id = nextId
                BY <4>2 DEF Line, Lines, Kinds, Types
            <4>4. note \in {"details", "capture", "nothing"}
                BY DEF Expects
            <4>5. \A i \in 1 .. Len(toPanel') : \E k \in 1 .. Len(toPanel) : toPanel'[i] = toPanel[k]
                BY <4>1
            <4> HIDE DEF line, note
            <4> QED BY <3>2, <4>1, <4>3, <4>4, <4>5, NotesNew
        <3> QED BY <2>1, <3>1, <3>2 DEF TakeAsked
    <2>2. CASE ReadResponse
        <3>1. /\ toPanel # <<>> /\ toPanel' = Tail(toPanel) /\ pending' \subseteq pending
              /\ UNCHANGED <<toServer, link, phase, serving>>
            BY <2>2 DEF ReadResponse
        <3>2. \A i \in 1 .. Len(toPanel') : \E k \in 1 .. Len(toPanel) : toPanel'[i] = toPanel[k]
            BY <3>1, PanelReads
        <3> QED BY <1>1, <3>1, <3>2
    <2>3. CASE ReadEvent
        <3>1. toPanel # <<>> /\ UNCHANGED <<phase, serving>> /\ link # "none"
            BY <2>3 DEF ReadEvent, Ends
        <3>2. CASE Noisy(Head(toPanel).event) \/ Fetching
            <4>1. toPanel' = Tail(toPanel) /\ UNCHANGED <<link, toServer, pending>>
                BY <2>3, <3>2 DEF ReadEvent
            <4>2. \A i \in 1 .. Len(toPanel') : \E k \in 1 .. Len(toPanel) : toPanel'[i] = toPanel[k]
                BY <3>1, <4>1, PanelReads
            <4> QED BY <1>1, <3>1, <4>1, <4>2
        <3>3. CASE ~(Noisy(Head(toPanel).event) \/ Fetching) /\ link = "closing"
            BY <1>3, <2>3, <3>3 DEF ReadEvent
        <3>4. CASE ~(Noisy(Head(toPanel).event) \/ Fetching) /\ link = "up"
            <4> DEFINE line == Line(nextId, "snapshot", 0)
            <4>1. line \in Lines /\ line.id = nextId /\ line.kind = "snapshot"
                BY DEF Line, Lines, Kinds, Types
            <4>2. /\ toServer' = Append(toServer, line)
                  /\ toPanel' = Tail(toPanel) /\ link' = link
                  /\ pending' = pending \cup {[id |-> nextId, kind |-> "snapshot"]}
                BY <2>3, <3>4 DEF ReadEvent
            <4>3. \A i \in 1 .. Len(toPanel') : \E k \in 1 .. Len(toPanel) : toPanel'[i] = toPanel[k]
                BY <3>1, <4>2, PanelReads
            <4> HIDE DEF line
            <4> QED BY <3>1, <3>4, <4>1, <4>2, <4>3, NotesNew
        <3> QED BY <3>1, <3>2, <3>3, <3>4 DEF Types
    <2>4. CASE ConnectRefused \/ EndOfFile
        BY <1>3, <2>4 DEF ConnectRefused, EndOfFile
    <2> QED BY <1>8, <2>1, <2>2, <2>3, <2>4, NotesConnect DEF Client
<1>9. CASE Crash \/ Exit
    BY <1>4, <1>9 DEF Crash, Exit
<1>10. CASE Start
    <2>1. serving = Idle /\ link # "up" /\ serving.id = 0
        BY <1>10 DEF Start, Ends, Idle
    <2>2. serving' = serving /\ UNCHANGED <<pending, toServer, toPanel, link>>
        BY <1>10 DEF Start
    <2> QED BY <2>1, <2>2, NotesFrame
<1>11. CASE StopActor
    <2>1. phase' = "stopping" /\ UNCHANGED <<pending, serving, toServer, toPanel, link>>
        BY <1>11 DEF StopActor
    <2> QED BY <2>1, NotesFrame
<1>12. ASSUME NEW event \in Emitted, Change(event) \/ Noise(event) PROVE NotesKnown'
    BY <1>2, <1>12 DEF Change, Noise
<1>13. ASSUME NEW kind \in UiKinds, Ask(kind) PROVE NotesKnown'
    BY <1>2, <1>13 DEF Ask
<1>14. CASE SilentChange \/ UNCHANGED vars
    BY <1>2, <1>14 DEF SilentChange, vars
<1> QED BY <1>6, <1>7, <1>8, <1>9, <1>10, <1>11, <1>12, <1>13, <1>14 DEF Next, Environment

-----------------------------------------------------------------------------
(* The age of the copies *)

\* A step that takes lines off the socket, or none, and shows nothing new.
LEMMA RisingFrame ==
    ASSUME Types, Types', Rising, shown' = shown, stamp' >= stamp, said' <= stamp',
           NEW d \in Nat,
           \A i \in 1 .. Len(toPanel') :
               i + d \in 1 .. Len(toPanel) /\ toPanel'[i] = toPanel[i + d],
           serving'.answered /\ serving'.ok =>
               \/ serving'.stamp = stamp
               \/ serving.answered /\ serving.ok /\ serving'.stamp = serving.stamp
    PROVE  Rising'
<1>1. /\ stamp \in Nat /\ stamp' \in Nat /\ shown \in Nat /\ said \in Nat
      /\ serving.stamp \in Nat /\ Len(toPanel') \in Nat
      /\ \A i \in 1 .. Len(toPanel) : toPanel[i].stamp \in Nat
    <2>1. /\ stamp \in Nat /\ stamp' \in Nat /\ shown \in Nat /\ said \in Nat
          /\ toPanel' \in Seq(PanelLines)
        BY DEF Types
    <2>2. Len(toPanel') \in Nat
        BY <2>1
    <2> QED BY <2>1, <2>2, LineTypes
<1>2. shown <= stamp /\ shown' <= stamp'
    BY <1>1 DEF Rising
<1>3. ASSUME NEW i \in 1 .. Len(toPanel'), Copy(toPanel'[i])
      PROVE  /\ shown' <= toPanel'[i].stamp /\ toPanel'[i].stamp <= stamp'
             /\ serving'.answered /\ serving'.ok => toPanel'[i].stamp <= serving'.stamp
             /\ \A j \in 1 .. Len(toPanel') :
                   i < j /\ Copy(toPanel'[j]) => toPanel'[i].stamp <= toPanel'[j].stamp
    <2> DEFINE k == i + d
    <2>1. k \in 1 .. Len(toPanel) /\ toPanel'[i] = toPanel[k] /\ Copy(toPanel[k])
        BY <1>3
    <2>2. /\ shown <= toPanel[k].stamp /\ toPanel[k].stamp <= stamp
          /\ serving.answered /\ serving.ok => toPanel[k].stamp <= serving.stamp
          /\ \A j \in 1 .. Len(toPanel) :
                k < j /\ Copy(toPanel[j]) => toPanel[k].stamp <= toPanel[j].stamp
        BY <2>1 DEF Rising
    <2>3. \A j \in 1 .. Len(toPanel') : i < j => k < j + d
        BY <1>1
    <2>4. toPanel[k].stamp \in Nat
        BY <1>1, <2>1
    <2>5. shown' <= toPanel'[i].stamp /\ toPanel'[i].stamp <= stamp'
        BY <1>1, <2>1, <2>2, <2>4
    <2>6. serving'.answered /\ serving'.ok => toPanel'[i].stamp <= serving'.stamp
        BY <2>1, <2>2
    <2>7. ASSUME NEW j \in 1 .. Len(toPanel'), i < j, Copy(toPanel'[j])
          PROVE  toPanel'[i].stamp <= toPanel'[j].stamp
        <3>1. j + d \in 1 .. Len(toPanel) /\ toPanel'[j] = toPanel[j + d]
            OBVIOUS
        <3>2. k < j + d /\ Copy(toPanel[j + d])
            BY <2>3, <2>7, <3>1
        <3> QED BY <2>1, <2>2, <3>1, <3>2
    <2> HIDE DEF k
    <2> QED BY <2>5, <2>6, <2>7
<1>4. serving'.answered /\ serving'.ok => shown' <= serving'.stamp /\ serving'.stamp <= stamp'
    BY <1>1, <1>2 DEF Rising
<1> QED BY <1>2, <1>3, <1>4 DEF Rising

\* A line is written when nothing is being served any more: an event, or a
\* copy no older than those before it.
LEMMA RisingWritten ==
    ASSUME Types, Types', Rising, UNCHANGED <<shown, stamp, said>>,
           NEW line \in PanelLines, toPanel' = Append(toPanel, line), ~serving'.answered,
           Copy(line) => /\ serving.answered /\ serving.ok /\ line.stamp = serving.stamp
    PROVE  Rising'
<1>1. /\ Len(toPanel) \in Nat /\ Len(toPanel') = Len(toPanel) + 1
      /\ toPanel'[Len(toPanel')] = line
      /\ \A k \in 1 .. Len(toPanel) : toPanel'[k] = toPanel[k]
      /\ \A k \in 1 .. Len(toPanel') : k # Len(toPanel') => k \in 1 .. Len(toPanel)
    BY PanelGets
<1>2. ASSUME NEW i \in 1 .. Len(toPanel'), Copy(toPanel'[i])
      PROVE  /\ shown <= toPanel'[i].stamp /\ toPanel'[i].stamp <= stamp
             /\ \A j \in 1 .. Len(toPanel') :
                   i < j /\ Copy(toPanel'[j]) => toPanel'[i].stamp <= toPanel'[j].stamp
    <2>1. CASE i = Len(toPanel')
        BY <1>1, <1>2, <2>1 DEF Rising
    <2>2. CASE i # Len(toPanel')
        <3>1. i \in 1 .. Len(toPanel) /\ toPanel'[i] = toPanel[i]
            BY <1>1, <2>2
        <3>2. /\ shown <= toPanel[i].stamp /\ toPanel[i].stamp <= stamp
              /\ serving.answered /\ serving.ok => toPanel[i].stamp <= serving.stamp
              /\ \A j \in 1 .. Len(toPanel) :
                    i < j /\ Copy(toPanel[j]) => toPanel[i].stamp <= toPanel[j].stamp
            BY <1>2, <3>1 DEF Rising
        <3> QED BY <1>1, <3>1, <3>2
    <2> QED BY <2>1, <2>2
<1>3. shown <= stamp /\ said <= stamp
    BY DEF Rising
<1> QED BY <1>2, <1>3 DEF Rising

\* A response taken off the socket: what is shown next is what it carries,
\* when it was noted as a snapshot.
LEMMA RisingRead ==
    ASSUME Types, Types', Ids, Rising, ReadResponse
    PROVE  Rising' /\ shown' >= shown
<1>1. /\ toPanel # <<>> /\ toPanel' = Tail(toPanel) /\ IsResponse(Head(toPanel))
      /\ UNCHANGED <<stamp, said, serving>>
    BY DEF ReadResponse, IsResponse, daemonVars, serverVars
<1>2. /\ Head(toPanel) = toPanel[1] /\ 1 \in 1 .. Len(toPanel) /\ Len(toPanel) \in Nat
      /\ \A i \in 1 .. Len(toPanel') : i + 1 \in 1 .. Len(toPanel) /\ toPanel'[i] = toPanel[i + 1]
    BY <1>1, PanelReads
<1>3. CASE shown' = shown
    <2>1. said <= stamp /\ stamp \in Nat /\ shown \in Nat /\ 1 \in Nat
        BY DEF Rising, Types
    <2>2. stamp' >= stamp /\ said' <= stamp'
        BY <1>1, <2>1
    <2>3. \A i \in 1 .. Len(toPanel') : i + 1 \in 1 .. Len(toPanel) /\ toPanel'[i] = toPanel[i + 1]
        BY <1>2
    <2>4. Rising'
        BY <1>1, <1>3, <2>1, <2>2, <2>3, RisingFrame
    <2> QED BY <1>3, <2>1, <2>4
<1>4. CASE shown' # shown
    <2>1. PICK p \in pending : p.id = Head(toPanel).id /\ Head(toPanel).ok
                               /\ shown' = Head(toPanel).stamp
        BY <1>4 DEF ReadResponse
    <2>2. Copy(toPanel[1])
        BY <1>1, <1>2, <2>1 DEF Copy, Ids, Opening
    <2>3. /\ shown <= toPanel[1].stamp /\ toPanel[1].stamp <= stamp
          /\ serving.answered /\ serving.ok => toPanel[1].stamp <= serving.stamp
          /\ \A j \in 1 .. Len(toPanel) :
                1 < j /\ Copy(toPanel[j]) => toPanel[1].stamp <= toPanel[j].stamp
        BY <1>2, <2>2 DEF Rising
    <2>4. \A i \in 1 .. Len(toPanel') : Copy(toPanel'[i]) =>
              /\ shown' <= toPanel'[i].stamp /\ toPanel'[i].stamp <= stamp
              /\ serving.answered /\ serving.ok => toPanel'[i].stamp <= serving.stamp
              /\ \A j \in 1 .. Len(toPanel') :
                    i < j /\ Copy(toPanel'[j]) => toPanel'[i].stamp <= toPanel'[j].stamp
        <3>1. \A i, j \in 1 .. Len(toPanel') : i < j => i + 1 < j + 1
            BY LineTypes
        <3>2. \A i \in 1 .. Len(toPanel') : 1 < i + 1
            OBVIOUS
        <3> QED BY <1>2, <2>1, <2>3, <3>1, <3>2 DEF Rising
    <2>5. serving.answered /\ serving.ok => shown' <= serving.stamp /\ serving.stamp <= stamp
        BY <1>2, <2>1, <2>3 DEF Rising
    <2>6. shown' <= stamp /\ said <= stamp /\ shown' >= shown
        BY <1>2, <2>1, <2>3, LineTypes DEF Rising, Types
    <2> QED BY <1>1, <2>4, <2>5, <2>6 DEF Rising
<1> QED BY <1>3, <1>4

LEMMA RisingNext ==
    ASSUME Types, Types', Ends, Ids, Rising, [Next]_vars
    PROVE  Rising' /\ shown' >= shown
<1> USE DEF daemonVars, serverVars, clientVars
<1>1. stamp \in Nat /\ shown \in Nat /\ said \in Nat /\ said <= stamp /\ 0 \in Nat
      /\ stamp + 1 >= stamp
    BY DEF Types, Rising
<1>2. ASSUME UNCHANGED <<shown, toPanel>>, stamp' >= stamp, said' <= stamp',
             serving'.answered /\ serving'.ok =>
                 \/ serving'.stamp = stamp
                 \/ serving.answered /\ serving.ok /\ serving'.stamp = serving.stamp
      PROVE  Rising' /\ shown' >= shown
    <2>1. \A i \in 1 .. Len(toPanel') : i + 0 \in 1 .. Len(toPanel) /\ toPanel'[i] = toPanel[i + 0]
        BY <1>2, LineTypes
    <2> QED BY <1>1, <1>2, <2>1, RisingFrame
<1>3. ASSUME UNCHANGED <<shown, stamp, said, serving>>, toPanel' = <<>>
      PROVE  Rising' /\ shown' >= shown
    <2>1. \A i \in 1 .. Len(toPanel') : i + 0 \in 1 .. Len(toPanel) /\ toPanel'[i] = toPanel[i + 0]
        BY <1>3
    <2> QED BY <1>1, <1>3, <2>1, RisingFrame
<1>4. ASSUME NEW line \in PanelLines, toPanel' = Append(toPanel, line), ~serving'.answered,
             UNCHANGED <<shown, stamp, said>>,
             Copy(line) => /\ serving.answered /\ serving.ok /\ line.stamp = serving.stamp
      PROVE  Rising' /\ shown' >= shown
    BY <1>1, <1>4, RisingWritten
<1>5. ASSUME NEW ok \in BOOLEAN, Reply(ok) PROVE serving'.stamp = stamp
    BY <1>5 DEF Reply, Types, Servings
<1>6. ASSUME NEW event \in Emitted, NEW at \in Nat, Emit(event, at) PROVE said' \in {at, said}
    BY <1>6 DEF Emit
<1>7. ~Idle.answered
    BY DEF Idle
<1>8. CASE Server
    <2>1. CASE Subscribe
        <3> DEFINE line == Response(Head(toServer).id, TRUE, 0)
        <3>1. /\ toServer # <<>> /\ toPanel' = Append(toPanel, line) /\ serving' = Idle
              /\ UNCHANGED <<shown, stamp, said>> /\ Head(toServer).kind = "subscribe"
            BY <2>1 DEF Subscribe
        <3>2. line \in PanelLines /\ line.id = Head(toServer).id
            BY <3>1, TakenTypes DEF Response, PanelLines
        <3>3. Head(toServer) = toServer[1] /\ 1 \in 1 .. Len(toServer)
            BY <2>1, ServerTakes DEF Subscribe
        <3>4. line.id = 1
            BY <3>1, <3>2, <3>3 DEF Ids, Opening
        <3> HIDE DEF line
        <3>5. ~Copy(line)
            BY <3>4 DEF Copy
        <3> QED BY <1>4, <1>7, <3>1, <3>2, <3>5
    <2>2. CASE Forward
        <3>1. ~serving'.answered /\ UNCHANGED <<shown, toPanel, stamp, said>>
            BY <2>2 DEF Forward
        <3> QED BY <1>1, <1>2, <3>1
    <2>3. CASE AnswerDropped
        <3>1. serving'.ok = serving.ok /\ ~serving.answered
            BY <2>3 DEF AnswerDropped, Types, Servings
        <3>2. ~serving'.ok /\ UNCHANGED <<shown, toPanel, stamp, said>>
            BY <2>3, <3>1 DEF AnswerDropped, Ids, Opening
        <3> QED BY <1>1, <1>2, <3>2
    <2>4. CASE WriteResponse
        <3> DEFINE line == Response(serving.id, serving.ok, serving.stamp)
        <3>1. /\ toPanel' = Append(toPanel, line) /\ serving' = Idle /\ serving.answered
              /\ UNCHANGED <<shown, stamp, said>>
            BY <2>4 DEF WriteResponse
        <3>2. line \in PanelLines /\ line.ok = serving.ok /\ line.stamp = serving.stamp
            BY DEF Response, PanelLines, Types, Servings
        <3> HIDE DEF line
        <3> QED BY <1>4, <1>7, <3>1, <3>2 DEF Copy
    <2>5. CASE Push
        <3>1. UNCHANGED <<shown, stamp, said, serving>> /\ serving = Idle
            BY <2>5 DEF Push
        <3>2. CASE toPanel' = toPanel
            BY <1>1, <1>2, <3>1, <3>2
        <3>3. CASE toPanel' = Append(toPanel, EventLine(Head(inbox).event)) /\ inbox # <<>>
            <4>1. Head(inbox) \in Announcements
                BY <3>3, TailFacts DEF Types
            <4>2. EventLine(Head(inbox).event) \in PanelLines
                  /\ ~Copy(EventLine(Head(inbox).event))
                BY <4>1 DEF EventLine, PanelLines, Announcements, Copy, IsResponse
            <4> QED BY <1>4, <1>7, <3>1, <3>3, <4>2
        <3> QED BY <2>5, <3>2, <3>3 DEF Push
    <2>6. CASE Cancelled
        <3>1. ~serving'.answered /\ UNCHANGED <<shown, toPanel, stamp, said>>
            BY <1>7, <2>6 DEF Cancelled, HangUp
        <3> QED BY <1>1, <1>2, <3>1
    <2> QED BY <1>8, <2>1, <2>2, <2>3, <2>4, <2>5, <2>6 DEF Server
<1>9. CASE Actor
    <2>1. CASE AnswerSnapshot
        <3>1. serving'.stamp = stamp
            BY <1>5, <2>1 DEF AnswerSnapshot
        <3> QED BY <1>1, <1>2, <2>1, <3>1 DEF AnswerSnapshot
    <2>2. ASSUME NEW ok \in BOOLEAN, AnswerQuietly(ok) PROVE Rising' /\ shown' >= shown
        <3>1. serving'.stamp = stamp
            BY <1>5, <2>2 DEF AnswerQuietly
        <3> QED BY <1>1, <1>2, <2>2, <3>1 DEF AnswerQuietly
    <2>3. ASSUME NEW event \in Emitted, Obey(event) PROVE Rising' /\ shown' >= shown
        <3>1. serving'.stamp = stamp
            BY <1>5, <2>3 DEF Obey
        <3>2. Emit(event, stamp + 1) /\ stamp + 1 \in Nat /\ stamp' = stamp + 1
            BY <1>1, <2>3 DEF Obey
        <3>3. said' \in {stamp + 1, said}
            BY <1>6, <3>2
        <3>4. UNCHANGED <<shown, toPanel>>
            BY <2>3 DEF Obey
        <3> QED BY <1>1, <1>2, <3>1, <3>2, <3>3, <3>4
    <2> QED BY <1>9, <2>1, <2>2, <2>3 DEF Actor
<1>10. ASSUME Lose, UNCHANGED <<shown, stamp, said, serving>> PROVE Rising' /\ shown' >= shown
    BY <1>3, <1>10 DEF Lose
<1>11. CASE Client
    <2>1. CASE Connect
        BY <1>3, <2>1 DEF Connect
    <2>2. CASE ConnectRefused \/ EndOfFile
        BY <1>10, <2>2 DEF ConnectRefused, EndOfFile
    <2>3. CASE TakeAsked
        <3>1. CASE link = "closing"
            BY <1>10, <2>3, <3>1 DEF TakeAsked
        <3>2. CASE link = "up"
            <4>1. UNCHANGED <<shown, toPanel, stamp, said, serving>>
                BY <2>3, <3>2 DEF TakeAsked
            <4> QED BY <1>1, <1>2, <4>1
        <3> QED BY <2>3, <3>1, <3>2 DEF TakeAsked
    <2>4. CASE ReadEvent
        <3>1. toPanel # <<>> /\ UNCHANGED <<shown, stamp, said, serving>>
            BY <2>4 DEF ReadEvent
        <3>2. CASE Lose
            BY <1>10, <3>1, <3>2
        <3>3. CASE toPanel' = Tail(toPanel)
            <4>1. \A i \in 1 .. Len(toPanel') :
                      i + 1 \in 1 .. Len(toPanel) /\ toPanel'[i] = toPanel[i + 1]
                BY <3>1, <3>3, PanelReads
            <4>2. 1 \in Nat /\ stamp' >= stamp /\ said' <= stamp' /\ shown' >= shown
                BY <1>1, <3>1
            <4> QED BY <3>1, <4>1, <4>2, RisingFrame
        <3> QED BY <2>4, <3>2, <3>3 DEF ReadEvent
    <2> QED BY <1>11, <2>1, <2>2, <2>3, <2>4, RisingRead DEF Client
<1>12. ASSUME NEW event \in Emitted, Change(event) PROVE Rising' /\ shown' >= shown
    <2>1. Emit(event, stamp + 1) /\ stamp + 1 \in Nat /\ stamp' = stamp + 1
          /\ UNCHANGED <<shown, toPanel, serving>>
        BY <1>1, <1>12 DEF Change
    <2>2. said' \in {stamp + 1, said}
        BY <1>6, <2>1
    <2> QED BY <1>1, <1>2, <2>1, <2>2
<1>13. ASSUME NEW event \in Emitted, Noise(event) PROVE Rising' /\ shown' >= shown
    <2>1. Emit(event, stamp) /\ stamp' = stamp /\ UNCHANGED <<shown, toPanel, serving>>
        BY <1>13 DEF Noise
    <2>2. said' \in {stamp, said}
        BY <1>1, <1>6, <2>1
    <2> QED BY <1>1, <1>2, <2>1, <2>2
<1>14. CASE Crash \/ Exit
    <2>1. ~serving'.answered /\ UNCHANGED <<shown, toPanel, stamp, said>>
        BY <1>7, <1>14 DEF Crash, Exit, HangUp
    <2> QED BY <1>1, <1>2, <2>1
<1>15. CASE Start
    BY <1>1, <1>2, <1>15 DEF Start
<1>16. ASSUME NEW kind \in UiKinds, Ask(kind) PROVE Rising' /\ shown' >= shown
    BY <1>1, <1>2, <1>16 DEF Ask
<1>17. CASE SilentChange
    BY <1>1, <1>2, <1>17 DEF SilentChange
<1>18. CASE StopActor \/ UNCHANGED vars
    BY <1>1, <1>2, <1>18 DEF StopActor, vars
<1> QED BY <1>8, <1>9, <1>11, <1>12, <1>13, <1>14, <1>15, <1>16, <1>17, <1>18 DEF Next, Environment

-----------------------------------------------------------------------------
(* The copy on its way is fresh. *)

\* Only a new connection makes the two ends meet.
LEMMA MetBefore ==
    ASSUME Types, Ends, [Next]_vars, link' = "up", phase' = "running"
    PROVE  Connect \/ (link = "up" /\ phase = "running")
<1> USE DEF daemonVars, serverVars, clientVars
<1>1. CASE Server
    BY <1>1 DEF Server, Subscribe, Forward, AnswerDropped, WriteResponse, Push, Cancelled, HangUp
<1>2. CASE Actor
    BY <1>2 DEF Actor, AnswerSnapshot, AnswerQuietly, Obey, Reply
<1>3. CASE Client
    <2>1. CASE TakeAsked \/ ReadEvent \/ ReadResponse
        <3>1. link' = link \/ Lose
            BY <2>1 DEF TakeAsked, ReadEvent, ReadResponse
        <3>2. phase' = phase
            BY <2>1 DEF TakeAsked, ReadEvent, ReadResponse
        <3> QED BY <3>1, <3>2 DEF Lose
    <2>2. CASE ConnectRefused \/ EndOfFile
        BY <2>2 DEF ConnectRefused, EndOfFile, Lose
    <2> QED BY <1>3, <2>1, <2>2 DEF Client
<1>4. CASE Environment
    BY <1>4 DEF Environment, Change, Noise, SilentChange, Ask, StopActor, Crash
<1>5. CASE Exit
    BY <1>5 DEF Exit
<1>6. CASE Start
    BY <1>6 DEF Start, Ends
<1>7. CASE UNCHANGED vars
    BY <1>7 DEF vars
<1> QED BY <1>1, <1>2, <1>3, <1>4, <1>5, <1>6, <1>7 DEF Next

LEMMA LivelyNext ==
    ASSUME Types, Ends, NotesKnown, Lively, [Next]_vars, link = "up", phase = "running",
           link' = "up", phase' = "running"
    PROVE  Lively'
<1> USE DEF daemonVars, serverVars, clientVars
<1>1. ASSUME ui' = ui, pending \subseteq pending' PROVE Lively'
    BY <1>1 DEF Lively, Fetching
<1>2. ASSUME Lose PROVE FALSE
    BY <1>2 DEF Lose
<1>3. CASE Server
    BY <1>1, <1>3 DEF Server, Subscribe, Forward, AnswerDropped, WriteResponse, Push, Cancelled
<1>4. CASE Actor
    BY <1>1, <1>4 DEF Actor, AnswerSnapshot, AnswerQuietly, Obey
<1>5. CASE Client
    <2>1. CASE TakeAsked \/ ReadEvent
        <3>1. ui' = ui /\ pending \subseteq pending'
            BY <1>2, <2>1 DEF TakeAsked, ReadEvent
        <3> QED BY <1>1, <3>1
    <2>2. CASE ReadResponse
        <3> DEFINE noted == {p \in pending : p.id = Head(toPanel).id}
        <3>1. /\ toPanel # <<>> /\ IsResponse(Head(toPanel)) /\ pending' = pending \ noted
              /\ IF Head(toPanel).ok /\ \E p \in noted : p.kind = "snapshot"
                 THEN ui' = "live" ELSE ui' = ui
            BY <2>2 DEF ReadResponse, IsResponse
        <3>2. CASE \E p \in noted : p.kind = "snapshot"
            <4>1. PICK p \in pending : p.kind = "snapshot" /\ p.id = Head(toPanel).id
                BY <3>2
            <4>2. Head(toPanel) = toPanel[1] /\ 1 \in 1 .. Len(toPanel)
                BY <2>2, PanelReads DEF ReadResponse
            <4>3. Head(toPanel).ok
                BY <3>1, <4>1, <4>2 DEF NotesKnown, Known
            <4> QED BY <3>1, <3>2, <4>3 DEF Lively
        <3>3. CASE ~ \E p \in noted : p.kind = "snapshot"
            BY <3>1, <3>3 DEF Lively, Fetching
        <3> QED BY <3>2, <3>3
    <2>3. CASE Connect \/ ConnectRefused \/ EndOfFile
        BY <2>3 DEF Connect, ConnectRefused, EndOfFile
    <2> QED BY <1>5, <2>1, <2>2, <2>3 DEF Client
<1>6. CASE Environment
    BY <1>1, <1>6 DEF Environment, Change, Noise, SilentChange, Ask, StopActor, Crash
<1>7. CASE Exit \/ Start
    BY <1>7 DEF Exit, Start
<1>8. CASE UNCHANGED vars
    BY <1>1, <1>8 DEF vars
<1> QED BY <1>3, <1>4, <1>5, <1>6, <1>7, <1>8 DEF Next

\* A step that takes nothing from what is on its way.
LEMMA CoverFrame ==
    ASSUME Types, Types', Covered, UNCHANGED <<shown, said, toPanel>>, pending \subseteq pending',
           lost = said => lost' = said,
           \A i \in 1 .. Len(inbox) : Announces(inbox[i].event) /\ inbox[i].at = said =>
               lost' = said \/ \E k \in 1 .. Len(inbox') : inbox'[k] = inbox[i],
           \A i \in 1 .. Len(toServer) :
               \E k \in 1 .. Len(toServer') : toServer'[k].id = toServer[i].id,
           serving'.id = serving.id,
           serving'.answered => \/ serving'.stamp >= said
                                \/ serving.answered /\ serving'.stamp = serving.stamp
                                   /\ serving'.ok = serving.ok
    PROVE  Covered'
<1>1. CASE shown >= said
    BY <1>1 DEF Covered
<1>2. CASE lost = said
    BY <1>2 DEF Covered
<1>3. ASSUME NEW i \in 1 .. Len(inbox), Announces(inbox[i].event), inbox[i].at = said
      PROVE  Covered'
    BY <1>3 DEF Covered
<1>4. ASSUME NEW i \in 1 .. Len(toPanel), Heralds(i) PROVE Covered'
    <2>1. Heralds(i)'
        BY <1>4 DEF Heralds
    <2> QED BY <2>1 DEF Covered
<1>5. ASSUME NEW p \in pending, p.kind = "snapshot", Coming(p) PROVE Covered'
    <2>1. Coming(p)'
        BY <1>5 DEF Coming
    <2> QED BY <1>5, <2>1 DEF Covered
<1> QED BY <1>1, <1>2, <1>3, <1>4, <1>5 DEF Covered

\* An event that announces a change: in the inbox of the subscription, or
\* before it, with the first snapshot still to be asked for.
LEMMA CoverAnnounced ==
    ASSUME Types, Types', Ids, NEW event \in Emitted, NEW at \in Nat, Emit(event, at),
           Announces(event), link = "up", UNCHANGED <<toServer, pending>>
    PROVE  Covered'
<1>1. said' = at
    BY DEF Emit
<1>2. CASE sub
    <2>1. /\ Len(inbox') \in 1 .. Len(inbox')
          /\ inbox'[Len(inbox')] = [event |-> event, at |-> at]
        BY <1>2, EmitInbox
    <2> QED BY <1>1, <2>1 DEF Covered
<1>3. CASE ~sub
    <2>1. /\ Len(toServer) >= 2 /\ toServer[2].id = 2
          /\ [id |-> 2, kind |-> "snapshot"] \in pending
        BY <1>3 DEF Ids, Opening
    <2>2. 2 \in 1 .. Len(toServer)
        BY <2>1, LineTypes
    <2>3. Coming([id |-> 2, kind |-> "snapshot"])'
        BY <2>1, <2>2 DEF Coming
    <2> QED BY <2>1, <2>3 DEF Covered
<1> QED BY <1>2, <1>3 DEF Types

\* Another event takes at most the oldest from the inbox.
LEMMA EmitKeeps ==
    ASSUME Types, BusInOrder, NEW event \in Emitted, NEW at \in Nat, Emit(event, at)
    PROVE  /\ lost = said => lost' = said
           /\ \A i \in 1 .. Len(inbox) : Announces(inbox[i].event) /\ inbox[i].at = said =>
                 lost' = said \/ \E k \in 1 .. Len(inbox') : inbox'[k] = inbox[i]
<1>1. CASE ~sub
    BY <1>1 DEF Emit
<1>2. CASE sub
    <2>1. PICK d \in {0, 1} :
              /\ Len(inbox') = Len(inbox) - d + 1 /\ Len(inbox) \in Nat
              /\ d = 1 => /\ 1 \in 1 .. Len(inbox) /\ Head(inbox) = inbox[1]
                          /\ lost' = IF Announces(inbox[1].event) THEN inbox[1].at ELSE lost
              /\ d = 0 => lost' = lost
              /\ \A i \in 1 .. Len(inbox) - d :
                    /\ i + d \in 1 .. Len(inbox) /\ i \in 1 .. Len(inbox')
                    /\ inbox'[i] = inbox[i + d]
        BY <1>2, EmitInbox
    <2>2. lost = said => lost' = said
        <3>1. d = 1 /\ Announces(inbox[1].event) => lost < inbox[1].at /\ inbox[1].at <= said
            BY <2>1 DEF BusInOrder
        <3>2. lost \in Nat /\ said \in Nat /\ (d = 1 => inbox[1].at \in Nat)
            BY <2>1, InboxTypes DEF Types
        <3> QED BY <2>1, <3>1, <3>2
    <2>3. ASSUME NEW i \in 1 .. Len(inbox), Announces(inbox[i].event), inbox[i].at = said
          PROVE  lost' = said \/ \E k \in 1 .. Len(inbox') : inbox'[k] = inbox[i]
        <3>1. CASE d = 1 /\ i = 1
            BY <2>1, <2>3, <3>1
        <3>2. CASE ~(d = 1 /\ i = 1)
            <4>1. i - d \in 1 .. Len(inbox) - d /\ i - d + d = i
                BY <2>1, <3>2
            <4> QED BY <2>1, <4>1
        <3> QED BY <3>1, <3>2
    <2> QED BY <2>2, <2>3
<1> QED BY <1>1, <1>2 DEF Types

LEMMA CoverEmit ==
    ASSUME Types, Types', Ids, BusInOrder, Covered, NEW event \in Emitted, NEW at \in Nat,
           Emit(event, at), link = "up", UNCHANGED <<shown, toPanel, toServer, pending>>,
           serving'.id = serving.id,
           serving'.answered => \/ serving'.stamp >= said
                                \/ serving.answered /\ serving'.stamp = serving.stamp
                                   /\ serving'.ok = serving.ok
    PROVE  Covered'
<1>1. CASE Announces(event)
    BY <1>1, CoverAnnounced
<1>2. CASE ~Announces(event)
    <2>1. said' = said
        BY <1>2 DEF Emit
    <2>2. \A i \in 1 .. Len(toServer) :
              \E k \in 1 .. Len(toServer') : toServer'[k].id = toServer[i].id
        OBVIOUS
    <2> QED BY <2>1, <2>2, EmitKeeps, CoverFrame
<1> QED BY <1>1, <1>2

LEMMA CoverSubscribe ==
    ASSUME Types, Types', Ends, Ids, Subscribe
    PROVE  Covered'
<1>1. /\ toServer # <<>> /\ toServer' = Tail(toServer) /\ link = "up"
      /\ Head(toServer).kind = "subscribe" /\ pending' = pending
    BY DEF Subscribe, clientVars
<1>2. /\ Head(toServer) = toServer[1] /\ 1 \in 1 .. Len(toServer)
      /\ Len(toServer) \in Nat /\ Len(toServer') = Len(toServer) - 1
      /\ \A i \in 1 .. Len(toServer') : toServer'[i] = toServer[i + 1]
    BY <1>1, ServerTakes
<1>3. toServer[1].id = 1
    BY <1>1, <1>2 DEF Ids, Opening
<1>4. ~sub
    BY <1>1, <1>2, <1>3 DEF Ids, Opening
<1>5. /\ Len(toServer) >= 2 /\ toServer[2].id = 2
      /\ [id |-> 2, kind |-> "snapshot"] \in pending
    BY <1>1, <1>4 DEF Ids, Opening
<1>6. 1 \in 1 .. Len(toServer') /\ toServer'[1].id = 2
    BY <1>2, <1>5
<1>7. Coming([id |-> 2, kind |-> "snapshot"])'
    BY <1>6 DEF Coming
<1> QED BY <1>1, <1>5, <1>7 DEF Covered

LEMMA CoverForward ==
    ASSUME Types, Types', Ends, Ids, Covered, Forward
    PROVE  Covered'
<1>1. /\ toServer # <<>> /\ toServer' = Tail(toServer) /\ serving = Idle
      /\ serving'.id = Head(toServer).id /\ ~serving'.answered
      /\ UNCHANGED <<shown, said, lost, inbox, toPanel, pending>>
    BY DEF Forward, daemonVars, clientVars
<1>2. /\ Head(toServer) = toServer[1] /\ 1 \in 1 .. Len(toServer)
      /\ Len(toServer) \in Nat /\ Len(toServer') = Len(toServer) - 1
      /\ \A i \in 1 .. Len(toServer') : toServer'[i] = toServer[i + 1]
    BY <1>1, ServerTakes
<1>3. ASSUME NEW i \in 1 .. Len(toPanel), Heralds(i) PROVE Covered'
    <2>1. Heralds(i)'
        BY <1>1, <1>3 DEF Heralds
    <2> QED BY <1>1, <2>1 DEF Covered
<1>4. ASSUME NEW p \in pending, p.kind = "snapshot", Coming(p) PROVE Covered'
    <2>1. ASSUME NEW i \in 1 .. Len(toServer), toServer[i].id = p.id PROVE Coming(p)'
        <3>1. CASE i = 1
            BY <1>1, <1>2, <2>1, <3>1 DEF Coming
        <3>2. CASE i # 1
            <4>1. i - 1 \in 1 .. Len(toServer') /\ toServer'[i - 1] = toServer[i]
                BY <1>2, <3>2
            <4> QED BY <2>1, <4>1 DEF Coming
        <3> QED BY <3>1, <3>2
    <2>2. serving.id # p.id
        <3>1. p.id >= 2
            BY DEF Ids, Opening
        <3> QED BY <1>1, <3>1, LineTypes DEF Idle
    <2>3. Coming(p)'
        BY <1>1, <1>4, <2>1, <2>2 DEF Coming
    <2> QED BY <1>1, <1>4, <2>3 DEF Covered
<1> QED BY <1>1, <1>3, <1>4 DEF Covered

\* A line is written: a response takes over from the request served.
LEMMA CoverWritten ==
    ASSUME Types, Types', Covered, NEW line \in PanelLines, toPanel' = Append(toPanel, line),
           UNCHANGED <<shown, said, lost, toServer, pending>>,
           \A i \in 1 .. Len(inbox) : Announces(inbox[i].event) /\ inbox[i].at = said =>
               \/ \E k \in 1 .. Len(inbox') : inbox'[k] = inbox[i]
               \/ ~IsResponse(line) /\ ~Noisy(line.event),
           ~serving'.answered,
           IsResponse(line) => /\ serving.answered /\ line.id = serving.id /\ line.ok = serving.ok
                               /\ line.stamp = serving.stamp,
           ~IsResponse(line) => serving' = serving
    PROVE  Covered'
<1>1. /\ Len(toPanel) \in Nat /\ Len(toPanel') = Len(toPanel) + 1
      /\ toPanel'[Len(toPanel')] = line /\ Len(toPanel') \in 1 .. Len(toPanel')
      /\ \A k \in 1 .. Len(toPanel) : k \in 1 .. Len(toPanel') /\ toPanel'[k] = toPanel[k]
      /\ \A k \in 1 .. Len(toPanel') : k # Len(toPanel') => k \in 1 .. Len(toPanel)
    BY PanelGets
<1>2. ASSUME NEW i \in 1 .. Len(inbox), Announces(inbox[i].event), inbox[i].at = said
      PROVE  Covered'
    <2>1. CASE \E k \in 1 .. Len(inbox') : inbox'[k] = inbox[i]
        BY <1>2, <2>1 DEF Covered
    <2>2. CASE ~IsResponse(line) /\ ~Noisy(line.event)
        <3>1. PICK k \in 1 .. Len(toPanel') : k = Len(toPanel') /\ toPanel'[k] = line
            BY <1>1
        <3>2. \A j \in 1 .. Len(toPanel') : ~(k < j)
            BY <1>1, <3>1
        <3>3. Heralds(k)'
            BY <2>2, <3>1, <3>2 DEF Heralds
        <3> QED BY <3>3 DEF Covered
    <2> QED BY <1>2, <2>1, <2>2
<1>3. ASSUME NEW i \in 1 .. Len(toPanel), Heralds(i) PROVE Covered'
    <2>1. Copy(line) => line.stamp >= said
        BY <1>3 DEF Heralds, Copy
    <2>2. \A j \in 1 .. Len(toPanel') : i < j /\ Copy(toPanel'[j]) => toPanel'[j].stamp >= said
        BY <1>1, <1>3, <2>1 DEF Heralds
    <2>3. Heralds(i)'
        BY <1>1, <1>3, <2>2 DEF Heralds
    <2> QED BY <1>1, <2>3 DEF Covered
<1>4. ASSUME NEW p \in pending, p.kind = "snapshot", Coming(p) PROVE Covered'
    <2>1. CASE IsResponse(line) /\ serving.id = p.id
        BY <1>1, <1>4, <2>1 DEF Coming, Covered
    <2>2. CASE ~(IsResponse(line) /\ serving.id = p.id)
        <3>1. CASE serving.id = p.id /\ (serving.answered => serving.stamp >= said)
            BY <1>4, <2>2, <3>1 DEF Coming, Covered
        <3>2. CASE \E i \in 1 .. Len(toServer) : toServer[i].id = p.id
            BY <1>4, <3>2 DEF Coming, Covered
        <3>3. ASSUME NEW i \in 1 .. Len(toPanel),
                     IsResponse(toPanel[i]) /\ toPanel[i].id = p.id /\ toPanel[i].stamp >= said
              PROVE  Covered'
            BY <1>1, <1>4, <3>3 DEF Coming, Covered
        <3> QED BY <1>4, <3>1, <3>2, <3>3 DEF Coming
    <2> QED BY <2>1, <2>2
<1> QED BY <1>2, <1>3, <1>4 DEF Covered

LEMMA CoverPush ==
    ASSUME Types, Types', Ids, Covered, Push
    PROVE  Covered'
<1>1. /\ UNCHANGED <<shown, said, lost, toServer, pending, serving>> /\ serving = Idle
      /\ ~Idle.answered
    BY DEF Push, daemonVars, clientVars, Idle
<1>2. CASE lagged
    <2>1. UNCHANGED <<inbox, toPanel>>
        BY <1>2 DEF Push
    <2> QED BY <1>1, <2>1, CoverFrame
<1>3. CASE ~lagged
    <2>1. inbox # <<>> /\ inbox' = Tail(inbox)
        BY <1>3 DEF Push
    <2>2. /\ Len(inbox) \in Nat \ {0} /\ Head(inbox) = inbox[1] /\ 1 \in 1 .. Len(inbox)
          /\ Len(inbox') = Len(inbox) - 1 /\ inbox[1].event \in Emitted
          /\ \A i \in 1 .. Len(inbox') : inbox'[i] = inbox[i + 1]
        BY <2>1, InboxTypes
    <2>3. \A i \in 1 .. Len(inbox) :
              i = 1 \/ \E k \in 1 .. Len(inbox') : inbox'[k] = inbox[i]
        <3> TAKE i \in 1 .. Len(inbox)
        <3>1. CASE i # 1
            <4>1. i - 1 \in 1 .. Len(inbox') /\ inbox'[i - 1] = inbox[i]
                BY <2>2, <3>1
            <4> QED BY <4>1
        <3> QED BY <3>1
    <2>4. CASE Topic(inbox[1].event) \notin PanelTopics
        <3>1. toPanel' = toPanel /\ ~Announces(inbox[1].event)
            BY <1>3, <2>2, <2>4 DEF Push, Announces
        <3> QED BY <1>1, <2>3, <3>1, CoverFrame
    <2>5. CASE Topic(inbox[1].event) \in PanelTopics
        <3> DEFINE line == EventLine(inbox[1].event)
        <3>1. toPanel' = Append(toPanel, line)
            BY <1>3, <2>2, <2>5 DEF Push
        <3>2. line \in PanelLines /\ ~IsResponse(line) /\ line.event = inbox[1].event
            BY <2>2 DEF EventLine, PanelLines, IsResponse
        <3>3. Announces(inbox[1].event) => ~Noisy(line.event)
            BY <3>2 DEF Announces
        <3> HIDE DEF line
        <3> QED BY <1>1, <2>3, <3>1, <3>2, <3>3, CoverWritten
    <2> QED BY <2>4, <2>5
<1> QED BY <1>2, <1>3

LEMMA CoverWriteResponse ==
    ASSUME Types, Types', Covered, WriteResponse
    PROVE  Covered'
<1> DEFINE line == Response(serving.id, serving.ok, serving.stamp)
<1>1. /\ toPanel' = Append(toPanel, line) /\ serving.answered /\ serving' = Idle
      /\ UNCHANGED <<shown, said, lost, inbox, toServer, pending>> /\ ~Idle.answered
    BY DEF WriteResponse, daemonVars, clientVars, Idle
<1>2. /\ line \in PanelLines /\ IsResponse(line) /\ line.id = serving.id
      /\ line.ok = serving.ok /\ line.stamp = serving.stamp
    BY DEF Response, PanelLines, IsResponse, Types, Servings
<1> HIDE DEF line
<1> QED BY <1>1, <1>2, CoverWritten

\* What the client has read off the socket is shown or asked for again.
LEMMA CoverReadResponse ==
    ASSUME Types, Types', Ids, NotesKnown, Rising, Covered, ReadResponse,
           link = "up", phase = "running"
    PROVE  Covered'
<1> DEFINE head == Head(toPanel)
<1>1. /\ toPanel # <<>> /\ toPanel' = Tail(toPanel) /\ IsResponse(head)
      /\ UNCHANGED <<said, lost, inbox, serving, toServer>>
      /\ pending' = pending \ {p \in pending : p.id = head.id}
      /\ head.ok /\ (\E p \in pending : p.id = head.id /\ p.kind = "snapshot") =>
             shown' = head.stamp
    BY DEF ReadResponse, IsResponse, daemonVars, serverVars
<1>2. /\ head = toPanel[1] /\ 1 \in 1 .. Len(toPanel) /\ Len(toPanel) \in Nat
      /\ Len(toPanel') = Len(toPanel) - 1
      /\ \A i \in 1 .. Len(toPanel') : i + 1 \in 1 .. Len(toPanel) /\ toPanel'[i] = toPanel[i + 1]
    BY <1>1, PanelReads
<1> HIDE DEF head
<1>3. \A i \in 1 .. Len(toPanel) :
          i # 1 => i - 1 \in 1 .. Len(toPanel') /\ toPanel'[i - 1] = toPanel[i]
    BY <1>2
<1>4. CASE shown >= said
    <2>1. shown' >= shown /\ shown' \in Nat /\ shown \in Nat /\ said \in Nat
        BY RisingRead DEF Types
    <2> QED BY <1>1, <1>4, <2>1 DEF Covered
<1>5. ASSUME NEW i \in 1 .. Len(toPanel), Heralds(i) PROVE Covered'
    <2>1. i # 1
        BY <1>1, <1>2, <1>5 DEF Heralds
    <2>2. \A j \in 1 .. Len(toPanel') : i - 1 < j => i < j + 1
        BY <1>2
    <2>3. i - 1 \in 1 .. Len(toPanel') /\ toPanel'[i - 1] = toPanel[i]
        BY <1>3, <2>1
    <2>4. \A j \in 1 .. Len(toPanel') : i - 1 < j /\ Copy(toPanel'[j]) => toPanel'[j].stamp >= said
        BY <1>2, <1>5, <2>2 DEF Heralds
    <2>5. Heralds(i - 1)'
        BY <1>1, <1>5, <2>3, <2>4 DEF Heralds
    <2> QED BY <2>3, <2>5 DEF Covered
<1>6. ASSUME NEW p \in pending, p.kind = "snapshot", Coming(p) PROVE Covered'
    <2>1. CASE p.id # head.id
        <3>1. ASSUME NEW i \in 1 .. Len(toPanel), toPanel[i].id = p.id PROVE i # 1
            BY <1>2, <2>1, <3>1
        <3>2. Coming(p)'
            BY <1>1, <1>3, <1>6, <3>1 DEF Coming
        <3> QED BY <1>1, <1>6, <2>1, <3>2 DEF Covered
    <2>2. CASE p.id = head.id
        <3>1. head.ok
            BY <1>1, <1>2, <1>6, <2>2 DEF NotesKnown, Known
        <3>2. \A i \in 1 .. Len(toServer) : head.id < toServer[i].id
            BY <1>1, <1>2 DEF Ids, InLine
        <3>3. serving # Idle => head.id < serving.id
            BY <1>1, <1>2 DEF Ids, InLine
        <3>4. p.id >= 2 /\ p.id \in Nat
            BY LineTypes DEF Ids, Opening
        <3>5. serving.id # p.id
            BY <2>2, <3>3, <3>4, LineTypes DEF Idle
        <3>6. \A i \in 1 .. Len(toServer) : toServer[i].id # p.id
            BY <2>2, <3>2, <3>4, LineTypes
        <3>7. \A i \in 1 .. Len(toPanel) : IsResponse(toPanel[i]) /\ toPanel[i].id = p.id => i = 1
            <4> SUFFICES ASSUME NEW i \in 1 .. Len(toPanel), IsResponse(toPanel[i]), i # 1
                         PROVE  toPanel[i].id # p.id
                OBVIOUS
            <4>1. 1 < i
                BY <1>2
            <4>2. head.id < toPanel[i].id
                BY <1>1, <1>2, <4>1 DEF Ids, InLine
            <4> QED BY <2>2, <3>4, <4>2, LineTypes
        <3>8. head.stamp >= said
            BY <1>2, <1>6, <3>5, <3>6, <3>7 DEF Coming
        <3> QED BY <1>1, <1>6, <2>2, <3>1, <3>8 DEF Covered
    <2> QED BY <2>1, <2>2
<1> QED BY <1>1, <1>4, <1>5, <1>6 DEF Covered

LEMMA CoverReadEvent ==
    ASSUME Types, Types', Ids, NotesKnown, Covered, ReadEvent,
           link = "up", phase = "running"
    PROVE  Covered'
<1>1. /\ toPanel # <<>> /\ ~IsResponse(Head(toPanel))
      /\ UNCHANGED <<said, shown, lost, inbox, serving>>
    BY DEF ReadEvent, IsResponse, daemonVars, serverVars
<1>2. CASE Noisy(Head(toPanel).event) \/ Fetching
    <2>1. toPanel' = Tail(toPanel) /\ UNCHANGED <<toServer, pending>>
        BY <1>2 DEF ReadEvent
    <2>2. /\ Head(toPanel) = toPanel[1] /\ Len(toPanel) \in Nat
          /\ Len(toPanel') = Len(toPanel) - 1
          /\ \A i \in 1 .. Len(toPanel') : i + 1 \in 1 .. Len(toPanel) /\ toPanel'[i] = toPanel[i + 1]
        BY <1>1, <2>1, PanelReads
    <2>3. \A i \in 1 .. Len(toPanel) :
              i # 1 => i - 1 \in 1 .. Len(toPanel') /\ toPanel'[i - 1] = toPanel[i]
        BY <2>2
    <2>4. ASSUME NEW p \in pending, p.kind = "snapshot", Coming(p) PROVE Covered'
        <3>1. ASSUME NEW i \in 1 .. Len(toPanel), IsResponse(toPanel[i]) PROVE i # 1
            BY <1>1, <2>2, <3>1
        <3>2. Coming(p)'
            BY <1>1, <2>1, <2>3, <2>4, <3>1 DEF Coming
        <3> QED BY <2>1, <2>4, <3>2 DEF Covered
    <2>5. ASSUME NEW i \in 1 .. Len(toPanel), Heralds(i), i # 1 PROVE Covered'
        <3>1. \A j \in 1 .. Len(toPanel') : i - 1 < j => i < j + 1
            BY <2>2
        <3>2. Heralds(i - 1)'
            BY <1>1, <2>2, <2>3, <2>5, <3>1 DEF Heralds
        <3> QED BY <2>3, <2>5, <3>2 DEF Covered
    <2>6. CASE Heralds(1)
        <3>1. Fetching
            BY <1>2, <2>2, <2>6 DEF Heralds
        <3>2. PICK p \in pending : p.kind = "snapshot"
            BY <3>1 DEF Fetching
        <3>3. Known(p) /\ p.id >= 2
            BY <3>2 DEF NotesKnown, Ids, Opening
        <3>4. \/ \E i \in 1 .. Len(toServer) : toServer[i].id = p.id
              \/ serving.id = p.id
              \/ \E i \in 1 .. Len(toPanel) : IsResponse(toPanel[i]) /\ toPanel[i].id = p.id
            BY LineTypes DEF Ids, OwedReplies, IsResponse
        <3>5. serving.id = p.id => (serving.answered => serving.stamp >= said)
            BY <2>6, <3>3 DEF Known, Heralds
        <3>6. ASSUME NEW i \in 1 .. Len(toPanel), IsResponse(toPanel[i]), toPanel[i].id = p.id
              PROVE  toPanel[i].stamp >= said
            <4>1. 1 < i
                BY <1>1, <2>2, <3>6
            <4>2. Copy(toPanel[i])
                BY <3>3, <3>6 DEF Known, Copy
            <4> QED BY <2>6, <4>1, <4>2 DEF Heralds
        <3>7. Coming(p)
            BY <3>4, <3>5, <3>6 DEF Coming
        <3> QED BY <2>4, <3>2, <3>7
    <2> QED BY <1>1, <2>1, <2>4, <2>5, <2>6 DEF Covered
<1>3. CASE ~(Noisy(Head(toPanel).event) \/ Fetching)
    <2> DEFINE line == Line(nextId, "snapshot", 0)
    <2>1. /\ toServer' = Append(toServer, line)
          /\ pending' = pending \cup {[id |-> nextId, kind |-> "snapshot"]}
        BY <1>3 DEF ReadEvent
    <2>2. line \in Lines /\ line.id = nextId
        BY DEF Line, Lines, Kinds, Types
    <2> HIDE DEF line
    <2>3. Len(toServer') \in 1 .. Len(toServer') /\ toServer'[Len(toServer')] = line
        BY <2>1, <2>2, ServerGets
    <2>4. PICK p \in pending' : p.id = nextId /\ p.kind = "snapshot"
        <3> DEFINE q == [id |-> nextId, kind |-> "snapshot"]
        <3>1. q \in pending' /\ q.id = nextId /\ q.kind = "snapshot"
            BY <2>1
        <3> HIDE DEF q
        <3> QED BY <3>1
    <2>5. Coming(p)'
        BY <2>2, <2>3, <2>4 DEF Coming
    <2> QED BY <2>4, <2>5 DEF Covered
<1> QED BY <1>2, <1>3

LEMMA FreshNext ==
    ASSUME Types, Types', Ends, Ids, NotesKnown, BusInOrder, Rising, Fresh, [Next]_vars
    PROVE  Fresh'
<1> USE DEF daemonVars, serverVars, clientVars
<1> SUFFICES ASSUME link' = "up", phase' = "running" PROVE Covered' /\ Lively'
    BY DEF Fresh
<1>1. CASE Connect
    <2>1. /\ Len(toServer') = 2 /\ toServer'[2].id = 2
          /\ pending' = {[id |-> 2, kind |-> "snapshot"]}
        BY <1>1 DEF Connect, Line
    <2>2. 2 \in 1 .. Len(toServer')
        BY <2>1
    <2>3. PICK p \in pending' : p.id = 2 /\ p.kind = "snapshot"
        BY <2>1
    <2>4. Coming(p)'
        BY <2>1, <2>2, <2>3 DEF Coming
    <2> QED BY <2>3, <2>4 DEF Covered, Lively, Fetching
<1> SUFFICES ASSUME ~Connect PROVE Covered' /\ Lively'
    BY <1>1
<1>2. link = "up" /\ phase = "running"
    BY MetBefore
<1>3. Covered /\ Lively
    BY <1>2 DEF Fresh
<1>4. Lively'
    BY <1>2, <1>3, LivelyNext
<1> SUFFICES Covered'
    BY <1>4
<1>5. ASSUME UNCHANGED <<shown, said, toPanel, lost, inbox>>, pending \subseteq pending',
             \A i \in 1 .. Len(toServer) :
                 \E k \in 1 .. Len(toServer') : toServer'[k].id = toServer[i].id,
             serving'.id = serving.id,
             serving'.answered => \/ serving'.stamp >= said
                                  \/ serving.answered /\ serving'.stamp = serving.stamp
                                     /\ serving'.ok = serving.ok
      PROVE  Covered'
    BY <1>3, <1>5, CoverFrame
<1>6. ASSUME UNCHANGED <<shown, said, toPanel, lost, inbox, pending, toServer, serving>>
      PROVE  Covered'
    BY <1>5, <1>6
<1>7. ASSUME NEW ok \in BOOLEAN, Reply(ok)
      PROVE  serving'.id = serving.id /\ serving'.stamp = stamp /\ serving'.stamp >= said
    <2>1. serving'.id = serving.id /\ serving'.stamp = stamp
        BY <1>7 DEF Reply, Types, Servings
    <2>2. stamp >= said
        BY DEF Rising, Types
    <2> QED BY <2>1, <2>2
<1>8. ASSUME Lose PROVE FALSE
    BY <1>8 DEF Lose
<1>9. CASE Server
    <2>1. CASE AnswerDropped \/ Cancelled
        BY <1>2, <2>1 DEF AnswerDropped, Cancelled
    <2> QED BY <1>3, <1>9, <2>1, CoverSubscribe, CoverForward, CoverWriteResponse, CoverPush
            DEF Server
<1>10. CASE Actor
    <2>1. CASE AnswerSnapshot
        BY <1>5, <1>7, <2>1 DEF AnswerSnapshot
    <2>2. ASSUME NEW ok \in BOOLEAN, AnswerQuietly(ok) PROVE Covered'
        BY <1>5, <1>7, <2>2 DEF AnswerQuietly
    <2>3. ASSUME NEW event \in Emitted, Obey(event) PROVE Covered'
        <3>1. Reply(TRUE) /\ Emit(event, stamp + 1) /\ stamp + 1 \in Nat
              /\ UNCHANGED <<shown, toPanel, toServer, pending>>
            BY <2>3 DEF Obey, Types
        <3>2. serving'.id = serving.id /\ serving'.stamp >= said
            BY <1>7, <3>1
        <3> QED BY <1>2, <1>3, <3>1, <3>2, CoverEmit
    <2> QED BY <1>10, <2>1, <2>2, <2>3 DEF Actor
<1>11. CASE Client
    <2>1. CASE TakeAsked
        <3> DEFINE line == Line(nextId, Head(outbox).kind, Head(outbox).n)
        <3>1. /\ outbox # <<>> /\ toServer' = Append(toServer, line) /\ pending \subseteq pending'
              /\ UNCHANGED <<shown, said, toPanel, lost, inbox, serving>>
            BY <1>2, <2>1 DEF TakeAsked
        <3>2. Head(outbox) \in [n : Nat, kind : UiKinds]
            <4> DEFINE Requests == [n : Nat, kind : UiKinds]
            <4>1. outbox \in Seq(Requests)
                BY DEF Types
            <4> HIDE DEF Requests
            <4>2. Head(outbox) \in Requests
                BY <3>1, <4>1, TailFacts
            <4> QED BY <4>2 DEF Requests
        <3>3. line \in Lines
            BY <3>2 DEF Line, Lines, Kinds, Types
        <3> HIDE DEF line
        <3>4. \A i \in 1 .. Len(toServer) : i \in 1 .. Len(toServer') /\ toServer'[i] = toServer[i]
            BY <3>1, <3>3, ServerGets
        <3> QED BY <1>5, <3>1, <3>4
    <2>2. CASE ConnectRefused \/ EndOfFile
        BY <1>8, <2>2 DEF ConnectRefused, EndOfFile
    <2> QED BY <1>2, <1>3, <1>11, <2>1, <2>2, CoverReadResponse, CoverReadEvent DEF Client
<1>12. ASSUME NEW event \in Emitted, Change(event) PROVE Covered'
    <2>1. Emit(event, stamp + 1) /\ stamp + 1 \in Nat
          /\ UNCHANGED <<shown, toPanel, toServer, pending, serving>>
        BY <1>12 DEF Change, Types
    <2> QED BY <1>2, <1>3, <2>1, CoverEmit
<1>13. ASSUME NEW event \in Emitted, Noise(event) PROVE Covered'
    <2>1. Emit(event, stamp) /\ stamp \in Nat
          /\ UNCHANGED <<shown, toPanel, toServer, pending, serving>>
        BY <1>13 DEF Noise, Types
    <2> QED BY <1>2, <1>3, <2>1, CoverEmit
<1>14. ASSUME NEW kind \in UiKinds, Ask(kind) PROVE Covered'
    BY <1>6, <1>14 DEF Ask
<1>15. CASE SilentChange \/ UNCHANGED vars
    BY <1>6, <1>15 DEF SilentChange, vars
<1>16. CASE StopActor \/ Crash \/ Exit \/ Start
    BY <1>2, <1>16 DEF StopActor, Crash, Exit, Start
<1> QED BY <1>4, <1>9, <1>10, <1>11, <1>12, <1>13, <1>14, <1>15, <1>16 DEF Next, Environment

-----------------------------------------------------------------------------
(* The whole invariant *)

LEMMA InvInit == Init => Inv
<1> SUFFICES ASSUME Init PROVE Inv
    OBVIOUS
<1>1. Len(<<>>) = 0
    OBVIOUS
<1>2. Idle.id = 0 /\ Idle.kind = "idle" /\ ~Idle.answered /\ ~Idle.ok
    BY DEF Idle
<1>3. Types /\ InTurn
    BY TypesInit, TurnInit
<1>4. Ends
    BY DEF Init, Ends
<1>5. Ids
    BY <1>1, <1>2 DEF Init, Ids, InLine, Opening, OwedReplies
<1>6. NotesKnown /\ BusInOrder /\ Rising /\ Fresh
    BY <1>1, <1>2 DEF Init, NotesKnown, BusInOrder, Rising, Fresh
<1> QED BY <1>3, <1>4, <1>5, <1>6 DEF Inv

LEMMA InvNext == ASSUME Inv, [Next]_vars PROVE Inv' /\ shown' >= shown
<1>1. Types /\ Ends /\ Ids /\ NotesKnown /\ BusInOrder /\ Rising /\ Fresh /\ InTurn
    BY DEF Inv
<1>2. Types'
    BY <1>1, TypesNext
<1>3. Ends'
    BY <1>1, EndsNext
<1>4. Ids'
    BY <1>1, <1>2, <1>3, IdsNext
<1>5. NotesKnown'
    BY <1>1, <1>2, <1>3, NotesNext
<1>6. BusInOrder'
    <2>1. said <= stamp
        BY <1>1 DEF Rising
    <2> QED BY <1>1, <1>2, <2>1, BusNext
<1>7. Rising' /\ shown' >= shown
    BY <1>1, <1>2, RisingNext
<1>8. Fresh'
    BY <1>1, <1>2, FreshNext
<1>9. InTurn'
    BY <1>1, <1>2, TurnNext
<1> QED BY <1>2, <1>3, <1>4, <1>5, <1>6, <1>7, <1>8, <1>9 DEF Inv

THEOREM SyncInvariant == Spec => []Inv
<1>1. Inv /\ [Next]_vars => Inv'
    BY InvNext
<1> QED BY InvInit, <1>1, PTL DEF Spec

\* The actor handles the requests of the user at most once and in the order
\* they were made, across reconnections and restarts (client.rs, server.rs).
THEOREM RequestsInOrder == Spec => []AtMostOnceInOrder
<1>1. Inv => AtMostOnceInOrder
    BY DEF Inv, InTurn
<1> QED BY <1>1, SyncInvariant, PTL

\* On a connection that is up the client waits for no reply the daemon does
\* not owe: no note keeps later events from starting a fetch for ever.
THEOREM RepliesOwed == Spec => []OwedReplies
<1>1. Inv => OwedReplies
    BY DEF Inv, Ids
<1> QED BY <1>1, SyncInvariant, PTL

\* With nothing on its way the interface shows the last announced change,
\* unless the bus dropped that announcement (client.rs, server.rs).
THEOREM QuietIsFresh == Spec => []FreshWhenQuiet
<1>1. Inv => FreshWhenQuiet
    <2> SUFFICES ASSUME Inv, Quiet PROVE ui = "live" /\ (shown >= said \/ lost = said)
        BY DEF FreshWhenQuiet
    <2>1. /\ Types /\ Ids /\ Covered /\ Lively
          /\ toServer = <<>> /\ toPanel = <<>> /\ serving = Idle /\ inbox = <<>> /\ link = "up"
        BY DEF Inv, Quiet, Fresh
    <2>2. Len(<<>>) = 0 /\ DOMAIN <<>> = {}
        OBVIOUS
    <2>3. pending = {}
        <3> SUFFICES ASSUME NEW p \in pending PROVE FALSE
            OBVIOUS
        <3>1. serving.id = p.id
            BY <2>1, <2>2 DEF Ids, OwedReplies
        <3>2. p.id >= 2 /\ serving.id = 0
            BY <2>1 DEF Ids, Opening, Idle
        <3> QED BY <3>1, <3>2
    <2>4. ui = "live"
        BY <2>1, <2>3 DEF Lively, Fetching
    <2>5. shown >= said \/ lost = said
        BY <2>1, <2>2, <2>3 DEF Covered
    <2> QED BY <2>4, <2>5
<1> QED BY <1>1, SyncInvariant, PTL

\* No reply, loss, reconnection or new daemon takes the interface back to an
\* older copy of the state.
THEOREM CopiesRise == Spec => NeverOlder
<1>1. Inv /\ [Next]_vars => [shown' >= shown]_vars
    BY InvNext
<1> QED BY <1>1, SyncInvariant, PTL DEF Spec, NeverOlder

\* The daemon, its end of the connection and the panel keep to their types,
\* and neither the bus's receiver nor the socket holds more than it may.
THEOREM TypeCorrect == Spec => []TypeOK
<1>1. Inv => TypeOK
    <2> SUFFICES ASSUME Types PROVE TypeOK
        BY DEF Inv
    <2>1. \A i \in DOMAIN toPanel : toPanel[i].type \in {"response", "event"}
        <3>1. \A i \in DOMAIN toPanel : toPanel[i] \in PanelLines
            BY DEF Types
        <3> QED BY <3>1 DEF PanelLines
    <2>2. \A p \in pending : p.kind \in {"snapshot", "details", "capture"}
        BY DEF Types, Notes
    <2>3. inbox \in Seq([event : Emitted, at : Nat])
        BY DEF Types, Announcements
    <2> QED BY <2>1, <2>2, <2>3 DEF Types, TypeOK
<1> QED BY <1>1, SyncInvariant, PTL
=============================================================================
