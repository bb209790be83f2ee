-------------------------- MODULE StateFilesProofs --------------------------
(***************************************************************************)
(* What the daemon's files promise, for any files, contents, times, bounds *)
(* and sizes of the bus.                                                   *)
(*                                                                         *)
(* First atomic_write alone: the inductive invariant FileInv, and the      *)
(* refinement of AtomicRegister. Then the state actor, the autosave task   *)
(* and the process over it: the inductive invariant StateInv, from which   *)
(* the three promises of StateFiles follow, and that the daemon uses the   *)
(* files in no other way than AtomicWrite allows.                          *)
(***************************************************************************)
EXTENDS StateFiles, TLAPS

\* What a reader sees, and what the disk may hold, is whole.
NeverTorn ==
    /\ \A f \in Files : path[f] # Torn
    /\ \A f \in Files : Torn \notin kept[f]
    /\ \A f \in Files : path[f] \in kept[f]

\* What the writer has done so far for the file it writes.
WriterKnows ==
    /\ step \in {"sync", "rename"} => tmp[target] = bytes
    /\ step = "rename" => synced[target]

FileInv == TypeOK /\ NeverTorn /\ WriterKnows

LEMMA FileInvInit == FileInit => FileInv
<1> SUFFICES ASSUME FileInit PROVE FileInv
    OBVIOUS
<1>1. TypeOK
    BY DEF FileInit, TypeOK, Entry, Steps
<1>2. NeverTorn
    BY MarksAssumption DEF FileInit, NeverTorn
<1>3. WriterKnows
    BY DEF FileInit, WriterKnows
<1> QED BY <1>1, <1>2, <1>3 DEF FileInv

\* A step of atomic_write that fails with the error passed on.
LEMMA FileInvFail ==
    ASSUME FileInv, NEW at \in Steps, Fail(at)
    PROVE  FileInv'
BY DEF FileInv, TypeOK, NeverTorn, WriterKnows, Fail, Return, Steps, Entry

LEMMA FileInvNext == FileInv /\ [FileNext]_fileVars => FileInv'
<1> SUFFICES ASSUME FileInv, [FileNext]_fileVars PROVE FileInv'
    OBVIOUS
<1> USE DEF FileInv, TypeOK, NeverTorn, WriterKnows, Entry, Steps
<1>1. ASSUME NEW f \in Files, NEW c \in Contents, Begin(f, c) PROVE FileInv'
    BY <1>1 DEF Begin
<1>2. ASSUME NEW f \in Files, Remove(f) PROVE FileInv'
    BY <1>2, MarksAssumption DEF Remove
<1>3. CASE Create
    BY <1>3 DEF Create
<1>4. CASE WriteAll
    BY <1>4 DEF WriteAll
<1>5. CASE SyncData
    BY <1>5 DEF SyncData
<1>6. CASE Rename
    BY <1>6, MarksAssumption DEF Rename
<1>7. CASE SyncDir
    BY <1>7 DEF SyncDir, Return
<1>8. CASE RenameFails
    BY <1>8 DEF RenameFails, Return
<1>9. CASE CreateFails \/ WriteFails \/ SyncFails \/ SyncDirFails
    BY <1>9, FileInvFail DEF CreateFails, WriteFails, SyncFails, SyncDirFails
<1>10. CASE Die
    BY <1>10 DEF Die, Return
<1>11. CASE LosePower
    <2>1. /\ \A f \in Files : path'[f] \in kept[f]
          /\ path' \in [Files -> Entry]
        BY <1>11 DEF LosePower
    <2>2. kept' = [f \in Files |-> {path'[f]}]
        BY <1>11 DEF LosePower
    <2>3. NeverTorn'
        BY <2>1, <2>2
    <2>4. TypeOK' /\ WriterKnows'
        BY <1>11, <2>1, <2>2 DEF LosePower, Return
    <2> QED BY <2>3, <2>4
<1>12. CASE UNCHANGED fileVars
    BY <1>12 DEF fileVars
<1> QED BY <1>1, <1>2, <1>3, <1>4, <1>5, <1>6, <1>7, <1>8, <1>9, <1>10, <1>11, <1>12
        DEF FileNext, Succeed, Failing

\* A reader never observes a partial file, and neither does the daemon that
\* starts after a crash or a loss of power (atomic.rs).
THEOREM FilesNeverTorn == FileSpec => [](TypeOK /\ NeverTorn)
<1>1. FileInv => TypeOK /\ NeverTorn
    BY DEF FileInv
<1> QED BY <1>1, FileInvInit, FileInvNext, PTL DEF FileSpec

-----------------------------------------------------------------------------
(* The refinement. *)

LEMMA RegisterInit == FileInit => Register!Init
BY DEF FileInit, Register!Init, Register!Whole

LEMMA RegisterNext ==
    ASSUME FileInv, FileInv', [FileNext]_fileVars
    PROVE  [Register!Next]_(Register!vars)
<1> USE DEF FileInv, TypeOK, NeverTorn, WriterKnows, Entry, Steps
<1>1. ASSUME NEW f \in Files, NEW c \in Contents, Begin(f, c)
      PROVE  UNCHANGED Register!vars
    BY <1>1 DEF Begin, Register!vars
<1>2. ASSUME NEW f \in Files, Remove(f) PROVE Register!Next
    <2>1. Register!Put(f, Missing)
        BY <1>2 DEF Remove, Register!Put
    <2> QED BY <2>1 DEF Register!Next, Register!Whole
<1>3. CASE Create \/ WriteAll \/ SyncData
    BY <1>3 DEF Create, WriteAll, SyncData, Register!vars
<1>4. CASE Rename
    <2>1. Register!Put(target, bytes) /\ target \in Files /\ bytes \in Contents
        BY <1>4 DEF Rename, Register!Put
    <2> QED BY <2>1 DEF Register!Next, Register!Whole
<1>5. CASE SyncDir
    <2>1. Register!Settle(target) /\ target \in Files
        BY <1>5 DEF SyncDir, Register!Settle
    <2> QED BY <2>1 DEF Register!Next
<1>6. CASE Failing
    BY <1>6 DEF Failing, CreateFails, WriteFails, SyncFails, SyncDirFails, Fail, RenameFails,
                Register!vars
<1>7. CASE Die
    BY <1>7 DEF Die, Register!vars
<1>8. CASE LosePower
    <2>1. path' \in [Files -> Register!Whole]
        BY <1>8 DEF LosePower, Register!Whole
    <2>2. Register!PowerLoss
        BY <1>8, <2>1 DEF LosePower, Register!PowerLoss
    <2> QED BY <2>2 DEF Register!Next
<1>9. CASE UNCHANGED fileVars
    BY <1>9 DEF fileVars, Register!vars
<1> QED BY <1>1, <1>2, <1>3, <1>4, <1>5, <1>6, <1>7, <1>8, <1>9 DEF FileNext, Succeed

\* atomic_write implements the register: every step of it, every failure of
\* one, every crash and every loss of power is a step of AtomicRegister or
\* changes no file.
THEOREM WritesAreAtomic == FileSpec => AtomicFiles
<1>1. FileInit => FileInv
    BY FileInvInit
<1>2. FileInv /\ [FileNext]_fileVars => FileInv'
    BY FileInvNext
<1>3. FileInv /\ FileInv' /\ [FileNext]_fileVars => [Register!Next]_(Register!vars)
    BY RegisterNext
<1> QED BY <1>1, <1>2, <1>3, RegisterInit, PTL DEF FileSpec, AtomicFiles, Register!Spec

-----------------------------------------------------------------------------
(* The daemon over the files: the inductive invariant. *)

\* What is left of a process that is down; whom a daemon that is not stopping
\* hears; that an idle actor writes nothing.
Lifetime ==
    /\ process = "down" =>
          /\ handler = "gone" /\ commands = <<>> /\ inbox = <<>>
          /\ autosave = Clean /\ waiting = None
    /\ process = "up" => handler \notin {"stops", "gone"} /\ commands \in Seq({"Persist"})
    /\ handler \in {"idle", "gone"} => todo = <<>> /\ step = "none"

\* The rename put the writer's bytes in place.
Renamed == step = "syncdir" => path[target] = bytes

\* A handler's writes: both projects' files, the one that loses the group
\* first, and runtime.json last, with the version in memory.
Work ==
    /\ todo # <<>> => todo[Len(todo)] = Runtime(mem)
    /\ Len(todo) >= 2 => \E to \in Projects : home = {to} /\ todo[Len(todo) - 1] = <<to, 1>>
    /\ Len(todo) >= 3 =>
          /\ Len(todo) = 3 /\ step = "none"
          /\ \E from \in Projects \ home : todo[1] = <<from, 0>>
    /\ step # "none" =>
          /\ Len(todo) = 0 => target = "runtime" /\ bytes = mem
          /\ Len(todo) = 1 => target \in Projects /\ home = {target} /\ bytes = 1
          /\ Len(todo) = 2 => target \in Projects \ home /\ bytes = 0

\* Versions only grow, on their way from memory to the disk.
Versions ==
    /\ mem <= made /\ made <= MaxVersion /\ path["runtime"] <= made
    /\ \A v \in kept["runtime"] : v \in Nat /\ returned <= v /\ v <= path["runtime"]
    /\ process # "down" => path["runtime"] <= mem

\* At most one project's file may say after a loss of power that it lists the
\* group; the file of the group's project in memory does, or is about to; and
\* before it is told to, the other one no longer can.
OneFile ==
    failures = 0 =>
        /\ \A p, q \in Projects : p # q /\ 1 \in kept[p] => 1 \notin kept[q]
        /\ \A p \in home : path[p] = 1 \/ (step # "none" /\ target = p) \/ Len(todo) >= 2
        /\ (Len(todo) = 2 /\ step = "none") \/ (Len(todo) = 1 /\ step # "none")
           => \A p \in Projects \ home : 1 \notin kept[p]

\* Autosave's deadline is within the interval, and time does not pass it.
Clock ==
    /\ (autosave.dirtySince = None) = (autosave.deadline = None)
    /\ autosave.dirtySince # None =>
          /\ autosave.dirtySince <= now /\ now <= autosave.deadline
          /\ autosave.deadline <= autosave.dirtySince + MaxInterval

\* An event tells autosave of a change, and the bus cannot have dropped it:
\* fewer events of no interest came after it than the bus holds.
Announced ==
    \/ handler = "announces"
    \/ \E i \in DOMAIN inbox : inbox[i] /\ Len(inbox) - i <= noise

\* Why what a handler announced or saved will be in runtime.json in time: its
\* write is under way or asked for, autosave has been dirty since no later
\* than it, or it is of this moment and announced.
Covered ==
    \/ commands # <<>> \/ todo # <<>> \/ (step # "none" /\ target = "runtime")
    \/ autosave.dirtySince # None /\ autosave.dirtySince <= waiting
    \/ waiting = now /\ Announced

\* While writes of runtime.json succeed, such a change is covered and not older
\* than the interval.
Waits ==
    /\ waiting # None => waiting <= now
    /\ step = "syncdir" /\ target = "runtime" => waiting = None
    /\ process = "up" /\ intact /\ waiting # None => Covered /\ now - waiting <= MaxInterval

StateInv ==
    TypeInv /\ FileInv /\ Lifetime /\ Renamed /\ Work /\ Versions /\ OneFile /\ Clock /\ Waits

-----------------------------------------------------------------------------
(* What the sequences of the model do. *)

\* The first write of a handler and those left.
LEMMA HeadTail ==
    ASSUME NEW S, NEW s \in Seq(S), s # <<>>
    PROVE  /\ Head(s) = s[1] /\ Head(s) \in S
           /\ Tail(s) \in Seq(S) /\ Len(Tail(s)) = Len(s) - 1 /\ Len(s) \in Nat \ {0}
           /\ \A i \in 1 .. Len(s) - 1 : Tail(s)[i] = s[i + 1]
OBVIOUS

LEMMA AppendFacts ==
    ASSUME NEW S, NEW s \in Seq(S), NEW e \in S
    PROVE  /\ Append(s, e) \in Seq(S) /\ Append(s, e) # <<>>
           /\ Len(s) \in Nat /\ Len(Append(s, e)) = Len(s) + 1
           /\ Append(s, e)[Len(s) + 1] = e
           /\ \A i \in 1 .. Len(s) : Append(s, e)[i] = s[i]
OBVIOUS

\* A pair, a triple.
LEMMA Singletons ==
    ASSUME NEW S, NEW x \in S, NEW y \in S, NEW z \in S
    PROVE  <<x>> \in Seq(S) /\ <<x, y, z>> \in Seq(S) /\ <<>> \in Seq(S)
OBVIOUS

\* An event the bus takes: in one place the last, in another the oldest goes.
LEMMA SentFacts ==
    ASSUME TypeInv, NEW e \in BOOLEAN
    PROVE  /\ Sent(e) \in Seq(BOOLEAN) /\ Len(Sent(e)) <= BusCapacity
           /\ Sent(e)[Len(Sent(e))] = e /\ Len(Sent(e)) \in Nat \ {0}
           /\ IF Len(inbox) < BusCapacity
              THEN /\ Len(Sent(e)) = Len(inbox) + 1
                   /\ \A i \in 1 .. Len(inbox) : Sent(e)[i] = inbox[i]
              ELSE /\ Len(inbox) = BusCapacity /\ Len(Sent(e)) = Len(inbox)
                   /\ \A i \in 1 .. Len(inbox) - 1 : Sent(e)[i] = inbox[i + 1]
<1>1. inbox \in Seq(BOOLEAN) /\ Len(inbox) <= BusCapacity /\ Len(inbox) \in Nat
      /\ BusCapacity \in Nat \ {0}
    BY NoiseAssumption DEF TypeInv
<1>2. CASE Len(inbox) < BusCapacity
    BY <1>1, <1>2, AppendFacts DEF Sent
<1>3. CASE ~(Len(inbox) < BusCapacity)
    <2>1. inbox # <<>> /\ Len(inbox) = BusCapacity
        BY <1>1, <1>3
    <2> DEFINE rest == Tail(inbox)
    <2>2. /\ rest \in Seq(BOOLEAN) /\ Len(rest) = Len(inbox) - 1
          /\ \A i \in 1 .. Len(inbox) - 1 : rest[i] = inbox[i + 1]
        BY <1>1, <2>1, HeadTail
    <2>3. Sent(e) = Append(rest, e)
        BY <1>3 DEF Sent
    <2> HIDE DEF rest
    <2> QED BY <1>1, <1>3, <2>1, <2>2, <2>3, AppendFacts
<1> QED BY <1>2, <1>3

LEMMA InitInv == Init => StateInv
<1> SUFFICES ASSUME Init PROVE StateInv
    OBVIOUS
<1> USE FilesAssumption, ContentsAssumption, NoneAssumption, TimesAssumption, NoiseAssumption,
    MarksAssumption
<1>1. FileInit
    BY DEF Init, FileInit
<1>2. FileInv
    BY <1>1, FileInvInit
<1>3. TypeInv
    <2>1. TypeOK
        BY <1>2 DEF FileInv
    <2>2. /\ todo \in Seq(Files \X Contents) /\ commands \in Seq({"Persist", "Shutdown"})
          /\ inbox \in Seq(BOOLEAN) /\ Len(inbox) <= BusCapacity
        BY DEF Init
    <2> QED BY <2>1, <2>2 DEF Init, TypeInv, Projects, Clean
<1>4. Lifetime /\ Renamed /\ Work /\ Clock /\ Waits
    BY DEF Init, Lifetime, Renamed, Work, Clock, Clean, Waits
<1>5. Versions
    BY DEF Init, Versions
<1>6. OneFile
    BY DEF Init, OneFile, Projects
<1> QED BY <1>2, <1>3, <1>4, <1>5, <1>6 DEF StateInv

\* Every step of the daemon is one of atomic_write's, or none of the files'.
LEMMA FileSteps == TypeInv /\ [Next]_vars => [FileNext]_fileVars
<1> SUFFICES ASSUME TypeInv, [Next]_vars PROVE [FileNext]_fileVars
    OBVIOUS
<1>1. CASE \/ CloseWindow \/ Assign \/ Correlate \/ Hydrate
           \/ \E from, to \in Projects : GroupMove(from, to)
    BY <1>1 DEF CloseWindow, Assign, Correlate, Hydrate, GroupMove
<1>2. ASSUME NEW p \in Projects, Delete(p) PROVE [FileNext]_fileVars
    BY <1>2, FilesAssumption DEF Delete, FileNext, Projects
<1>3. CASE SyncWindow \/ Notice \/ Reconnect \/ TakeCommand \/ Finish
    BY <1>3 DEF SyncWindow, Notice, Reconnect, TakeCommand, Finish
<1>4. CASE CallWrite
    <2>1. Head(todo) \in Files \X Contents
        BY <1>4, HeadTail DEF CallWrite, TypeInv
    <2> QED BY <1>4, <2>1 DEF CallWrite, FileNext
<1>5. CASE WriteStep \/ WriteError
    BY <1>5 DEF WriteStep, WriteError, FileNext
<1>6. CASE Receive \/ Fire \/ Signal \/ Exit \/ Boot \/ Tick
    BY <1>6 DEF Receive, Fire, Signal, Exit, Boot, Tick
<1>7. CASE Crash \/ PowerFails
    BY <1>7 DEF Crash, PowerFails, FileNext
<1>8. CASE UNCHANGED vars
    BY <1>8 DEF vars
<1> QED BY <1>1, <1>2, <1>3, <1>4, <1>5, <1>6, <1>7, <1>8 DEF Next, Actor

\* What a step of atomic_write that succeeds does, as far as its caller goes.
LEMMA SucceedEffect ==
    ASSUME FileInv, Succeed
    PROVE  /\ step # "none" /\ target \in Files /\ bytes \in Contents
           /\ \/ step' # "none" /\ target' = target /\ bytes' = bytes /\ step # "syncdir"
              \/ step = "syncdir" /\ step' = "none"
           /\ \/ step # "rename" /\ path' = path /\ step' # "syncdir"
              \/ /\ step = "rename" /\ step' = "syncdir"
                 /\ path' = [path EXCEPT ![target] = bytes]
           /\ \/ step \notin {"rename", "syncdir"} /\ kept' = kept
              \/ step = "rename" /\ kept' = [kept EXCEPT ![target] = @ \cup {bytes}]
              \/ step = "syncdir" /\ kept' = [kept EXCEPT ![target] = {path[target]}]
<1> USE DEF FileInv, TypeOK, WriterKnows, Steps
<1>1. CASE Create
    BY <1>1 DEF Create
<1>2. CASE WriteAll
    BY <1>2 DEF WriteAll
<1>3. CASE SyncData
    BY <1>3 DEF SyncData
<1>4. CASE Rename
    <2>1. tmp[target] = bytes /\ synced[target]
        BY <1>4 DEF Rename
    <2>2. kept' = [kept EXCEPT ![target] = @ \cup {bytes}]
        BY <1>4, <2>1 DEF Rename
    <2> QED BY <1>4, <2>1, <2>2 DEF Rename
<1>5. CASE SyncDir
    BY <1>5 DEF SyncDir, Return
<1> QED BY <1>1, <1>2, <1>3, <1>4, <1>5 DEF Succeed

\* ... and one that fails.
LEMMA FailingEffect ==
    ASSUME Failing
    PROVE  step # "none" /\ step' = "none" /\ UNCHANGED <<path, kept>>
BY DEF Failing, CreateFails, WriteFails, SyncFails, RenameFails, SyncDirFails, Fail, Return

\* The handlers that change the assignments.
Changes ==
    \/ CloseWindow \/ Assign \/ Correlate \/ Hydrate
    \/ \E from, to \in Projects : GroupMove(from, to)
    \/ \E p \in Projects : Delete(p)

LEMMA ChangesEffect ==
    ASSUME TypeInv, Changes
    PROVE  /\ Ready /\ made < MaxVersion /\ made' = made + 1 /\ mem' = made + 1
           /\ step' = step /\ target' = target
           /\ \/ handler' = "announces" /\ Noted(mem')
              \/ handler' = "quiet" /\ todo' # <<>> /\ Noted(mem')
              \/ handler' = "syncs" /\ waiting' = waiting
           /\ UNCHANGED <<process, commands, inbox, autosave, signalled, now, noise, ends,
                          returned, intact>>
           /\ failures' \in {failures, failures + 1}
           /\ bytes' = bytes
           /\ \/ UNCHANGED <<path, kept>>
              \/ \E p \in Projects :
                    /\ path' = [path EXCEPT ![p] = Missing]
                    /\ kept' = [kept EXCEPT ![p] = @ \cup {Missing}]
                    /\ home' = home \ {p} /\ todo' = <<Runtime(made + 1)>>
           /\ \/ todo' \in {<<>>, <<Runtime(made + 1)>>} /\ UNCHANGED <<home, listed>>
              \/ /\ todo' = <<Runtime(made + 1)>>
                 /\ \E p \in Projects : home' = home \ {p} /\ listed' = listed \ {p}
              \/ \E from, to \in Projects :
                    /\ from # to /\ home = {from} /\ home' = {to}
                    /\ to \in listed /\ listed' = listed
                    /\ todo' = <<<<from, 0>>, <<to, 1>>, Runtime(made + 1)>>
<1> USE DEF Handle, fileVars
<1>1. CASE CloseWindow
    BY <1>1 DEF CloseWindow
<1>2. CASE Assign \/ Correlate \/ Hydrate
    BY <1>2 DEF Assign, Correlate, Hydrate
<1>3. ASSUME NEW from \in Projects, NEW to \in Projects, GroupMove(from, to)
      PROVE  /\ from # to /\ home = {from} /\ home' = {to} /\ to \in listed /\ listed' = listed
             /\ todo' = <<<<from, 0>>, <<to, 1>>, Runtime(made + 1)>>
    BY <1>3 DEF GroupMove, Listing
<1>4. CASE \E from, to \in Projects : GroupMove(from, to)
    BY <1>3, <1>4 DEF GroupMove
<1>5. ASSUME NEW p \in Projects, Delete(p)
      PROVE  /\ home' = home \ {p} /\ listed' = listed \ {p}
             /\ todo' = <<Runtime(made + 1)>>
             /\ \/ UNCHANGED <<path, kept>>
                \/ /\ path' = [path EXCEPT ![p] = Missing]
                   /\ kept' = [kept EXCEPT ![p] = @ \cup {Missing}]
             /\ step' = step /\ target' = target /\ bytes' = bytes
             /\ failures' \in {failures, failures + 1}
    BY <1>5 DEF Delete, Remove
<1>6. CASE \E p \in Projects : Delete(p)
    BY <1>5, <1>6 DEF Delete
<1> QED BY <1>1, <1>2, <1>4, <1>6 DEF Changes

\* The steps of the daemon, those that change the assignments together.
LEMMA NextCases ==
    ASSUME [Next]_vars
    PROVE  \/ Changes \/ Reconnect \/ TakeCommand \/ CallWrite \/ WriteStep \/ WriteError
           \/ SyncWindow \/ Notice \/ Finish \/ Receive \/ Fire \/ Signal \/ Exit \/ Crash
           \/ PowerFails \/ Boot \/ Tick \/ UNCHANGED vars
BY DEF Next, Actor, Changes

\* The clock of what waits runs, or starts now.
LEMMA NotedEffect ==
    ASSUME NEW version, Noted(version)
    PROVE  waiting' = waiting \/ (waiting = None /\ waiting' = now)
BY DEF Noted

\* Where the process ends, in one of three ways.
LEMMA EndEffect ==
    ASSUME StateInv, Exit \/ Crash \/ PowerFails
    PROVE  /\ Gone /\ step' = "none"
           /\ \/ UNCHANGED <<path, kept>>
              \/ \A f \in Files : path'[f] \in kept[f] /\ kept'[f] = {path'[f]}
<1>1. CASE Exit
    BY <1>1 DEF Exit, Gone, fileVars, StateInv, Lifetime
<1>2. CASE Crash
    BY <1>2 DEF Crash, Die, Return
<1>3. CASE PowerFails
    BY <1>3 DEF PowerFails, LosePower, Return
<1> QED BY <1>1, <1>2, <1>3

-----------------------------------------------------------------------------
(* Every step keeps each part of the invariant. *)

LEMMA TypeInvNext == StateInv /\ [Next]_vars => TypeInv'
<1> SUFFICES ASSUME StateInv, [Next]_vars PROVE TypeInv'
    OBVIOUS
<1>1. TypeInv /\ TypeOK'
    BY FileSteps, FileInvNext DEF FileInv, StateInv
<1>2. CASE Changes
    <2>1. made + 1 \in Contents /\ made + 1 \in Nat
        BY <1>1, <1>2, ChangesEffect, ContentsAssumption DEF TypeInv
    <2>2. todo' \in Seq(Files \X Contents)
        <3>1. Runtime(made + 1) \in Files \X Contents
            BY <2>1, FilesAssumption DEF Runtime
        <3>2. \A p \in Projects : <<p, 0>> \in Files \X Contents /\ <<p, 1>> \in Files \X Contents
            BY FilesAssumption, ContentsAssumption DEF Projects
        <3>3. CASE todo' = <<>>
            BY <3>3
        <3>4. CASE todo' = <<Runtime(made + 1)>>
            BY <3>1, <3>4, Singletons
        <3>5. ASSUME NEW from \in Projects, NEW to \in Projects,
                     todo' = <<<<from, 0>>, <<to, 1>>, Runtime(made + 1)>>
              PROVE  todo' \in Seq(Files \X Contents)
            <4>1. <<from, 0>> \in Files \X Contents /\ <<to, 1>> \in Files \X Contents
                BY <3>2
            <4> HIDE DEF Runtime
            <4> QED BY <3>1, <3>5, <4>1, Singletons
        <3> QED BY <1>1, <1>2, <3>3, <3>4, <3>5, ChangesEffect
    <2>3. /\ home' \subseteq listed' /\ listed' \subseteq Projects
        BY <1>1, <1>2, ChangesEffect DEF Projects, TypeInv
    <2>4. UNCHANGED <<process, commands, inbox, autosave, signalled, now, noise, ends,
                      returned, intact>>
        BY <1>1, <1>2, ChangesEffect
    <2>5. made' = made + 1 /\ mem' = made + 1 /\ handler' \in {"announces", "quiet", "syncs"}
          /\ waiting' \in {now, waiting} /\ failures' \in {failures, failures + 1}
        BY <1>1, <1>2, ChangesEffect, NotedEffect
    <2> QED BY <1>1, <2>1, <2>2, <2>3, <2>4, <2>5 DEF TypeInv
<1>3. CASE Reconnect
    <2>1. inbox' \in Seq(BOOLEAN) /\ Len(inbox') <= BusCapacity
        BY <1>1, <1>3, SentFacts DEF Reconnect
    <2>2. noise' \in Nat
        BY <1>1, <1>3 DEF Reconnect, TypeInv
    <2> QED BY <1>1, <1>3, <2>1, <2>2 DEF Reconnect, actorVars, ghosts, TypeInv
<1>4. CASE TakeCommand
    <2>1. todo' \in Seq(Files \X Contents)
        <3>1. Runtime(mem) \in Files \X Contents
            BY <1>1, FilesAssumption DEF Runtime, TypeInv
        <3> QED BY <1>4, <3>1, Singletons DEF TakeCommand
    <2>2. commands' \in Seq({"Persist", "Shutdown"})
        BY <1>1, <1>4, HeadTail DEF TakeCommand, TypeInv
    <2>3. waiting' \in {now, waiting}
        BY <1>4, NotedEffect DEF TakeCommand
    <2> QED BY <1>1, <1>4, <2>1, <2>2, <2>3 DEF TakeCommand, TypeInv
<1>5. CASE CallWrite
    <2>1. todo' \in Seq(Files \X Contents)
        BY <1>1, <1>5, HeadTail DEF CallWrite, TypeInv
    <2> QED BY <1>1, <1>5, <2>1 DEF CallWrite, ghosts, TypeInv
<1>6. CASE WriteStep
    <2>1. returned' \in Nat
        BY <1>1, <1>6, SucceedEffect, ContentsAssumption DEF WriteStep, TypeInv, StateInv
    <2>2. waiting' \in {None, waiting} /\ intact' \in BOOLEAN
        BY <1>1, <1>6 DEF WriteStep, TypeInv
    <2> QED BY <1>1, <1>6, <2>1, <2>2 DEF WriteStep, actorVars, TypeInv
<1>7. CASE WriteError
    <2>1. failures' \in Nat /\ intact' \in BOOLEAN
        BY <1>1, <1>7 DEF WriteError, TypeInv
    <2> QED BY <1>1, <1>7, <2>1 DEF WriteError, actorVars, TypeInv
<1>8. CASE Finish
    <2>1. inbox' \in Seq(BOOLEAN) /\ Len(inbox') <= BusCapacity
        BY <1>1, <1>8, SentFacts DEF Finish, TypeInv
    <2> QED BY <1>1, <1>8, <2>1 DEF Finish, ghosts, TypeInv
<1>9. CASE Receive
    <2>1. inbox' \in Seq(BOOLEAN) /\ Len(inbox') <= BusCapacity
        <3>1. inbox \in Seq(BOOLEAN) /\ inbox # <<>> /\ Len(inbox) <= BusCapacity
            BY <1>1, <1>9 DEF Receive, TypeInv
        <3>2. /\ Len(Tail(inbox)) = Len(inbox) - 1 /\ Tail(inbox) \in Seq(BOOLEAN)
              /\ Len(inbox) \in Nat
            BY <3>1, HeadTail
        <3>3. BusCapacity \in Nat /\ inbox' = Tail(inbox)
            BY <1>9, NoiseAssumption DEF Receive
        <3> QED BY <3>1, <3>2, <3>3
    <2>2. autosave' \in [dirtySince : Nat \cup {None}, deadline : Nat \cup {None}]
        <3>1. CASE ~Head(inbox)
            BY <1>1, <1>9, <3>1 DEF Receive, TypeInv
        <3>2. CASE Head(inbox)
            <4> DEFINE first == IF autosave.dirtySince = None THEN now ELSE autosave.dirtySince
            <4>1. first \in Nat /\ now \in Nat
                BY <1>1 DEF TypeInv
            <4>2. MinOf(now + Debounce, first + MaxInterval) \in Nat
                BY <4>1, TimesAssumption DEF MinOf
            <4>3. autosave' = [dirtySince |-> first,
                               deadline |-> MinOf(now + Debounce, first + MaxInterval)]
                BY <1>9, <3>2 DEF Receive
            <4> HIDE DEF first
            <4> QED BY <4>1, <4>2, <4>3
        <3> QED BY <3>1, <3>2
    <2>3. noise' \in Nat
        BY <1>1, <1>9 DEF Receive, TypeInv
    <2> QED BY <1>1, <1>9, <2>1, <2>2, <2>3 DEF Receive, actorVars, ghosts, TypeInv
<1>10. CASE Fire
    <2>1. commands' \in Seq({"Persist", "Shutdown"})
        BY <1>1, <1>10, AppendFacts DEF Fire, TypeInv
    <2> QED BY <1>1, <1>10, <2>1 DEF Fire, Clean, actorVars, ghosts, TypeInv
<1>11. CASE Signal
    <2>1. commands' \in Seq({"Persist", "Shutdown"})
        BY <1>1, <1>11, AppendFacts DEF Signal, TypeInv
    <2>2. inbox' \in Seq(BOOLEAN) /\ Len(inbox') <= BusCapacity /\ noise' \in Nat
        BY <1>11, NoiseAssumption DEF Signal
    <2>3. autosave' \in [dirtySince : Nat \cup {None}, deadline : Nat \cup {None}]
        BY <1>11 DEF Signal, Clean
    <2> QED BY <1>1, <1>11, <2>1, <2>2, <2>3 DEF Signal, actorVars, ghosts, TypeInv
<1>12. CASE Exit \/ Crash \/ PowerFails
    <2>1. Gone
        BY <1>12, EndEffect
    <2>2. /\ todo' \in Seq(Files \X Contents) /\ commands' \in Seq({"Persist", "Shutdown"})
          /\ inbox' \in Seq(BOOLEAN) /\ Len(inbox') <= BusCapacity
        BY <2>1, NoiseAssumption DEF Gone
    <2>3. autosave' \in [dirtySince : Nat \cup {None}, deadline : Nat \cup {None}]
        BY <2>1 DEF Gone, Clean
    <2>4. mem' \in Contents /\ noise' \in Nat /\ ends' \in Nat
        BY <1>1, <2>1, ContentsAssumption DEF Gone, TypeInv
    <2>5. UNCHANGED <<made, now, returned, failures>>
        BY <2>1 DEF Gone
    <2>6. /\ process' = "down" /\ handler' = "gone" /\ signalled' = FALSE
          /\ listed' = {} /\ home' = {} /\ waiting' = None /\ intact' = TRUE
        BY <2>1 DEF Gone
    <2> QED BY <1>1, <2>2, <2>3, <2>4, <2>5, <2>6 DEF TypeInv
<1>13. CASE Boot
    <2>1. made' \in Contents /\ made' \in Nat
        BY <1>1, <1>13, ContentsAssumption DEF Boot, TypeInv
    <2> QED BY <1>1, <1>13, <2>1 DEF Boot, ghosts, Projects, TypeInv
<1>14. CASE Tick
    BY <1>1, <1>14 DEF Tick, actorVars, ghosts, TypeInv
<1>15. CASE UNCHANGED vars
    BY <1>1, <1>15 DEF vars, actorVars, ghosts, TypeInv
<1>16. CASE SyncWindow
    <2>1. made + 1 \in Contents /\ made + 1 \in Nat
        BY <1>1, <1>16, ContentsAssumption DEF SyncWindow, TypeInv
    <2>2. todo' \in Seq(Files \X Contents)
        <3>1. Runtime(made + 1) \in Files \X Contents
            BY <2>1, FilesAssumption DEF Runtime
        <3> QED BY <1>16, <3>1, Singletons DEF SyncWindow
    <2>3. waiting' \in {now, waiting}
        BY <1>16, NotedEffect DEF SyncWindow
    <2> QED BY <1>1, <1>16, <2>1, <2>2, <2>3 DEF SyncWindow, TypeInv
<1>17. CASE Notice
    <2>1. waiting' \in {now, waiting}
        BY <1>17, NotedEffect DEF Notice
    <2> QED BY <1>1, <1>17, <2>1 DEF Notice, TypeInv
<1> QED BY <1>2, <1>3, <1>4, <1>5, <1>6, <1>7, <1>8, <1>9, <1>10, <1>11, <1>12, <1>13, <1>14,
           <1>15, <1>16, <1>17, NextCases

\* Only Boot brings a process up, and every end leaves nothing of the old one.
LEMMA LifetimeNext == StateInv /\ [Next]_vars => Lifetime'
<1> SUFFICES ASSUME StateInv, [Next]_vars PROVE Lifetime'
    OBVIOUS
<1>1. TypeInv /\ Lifetime /\ FileInv
    BY DEF StateInv
<1>2. CASE Changes
    BY <1>1, <1>2, ChangesEffect DEF Lifetime, Ready
<1>3. CASE Reconnect
    BY <1>1, <1>3 DEF Reconnect, Lifetime, Ready, fileVars, actorVars, ghosts
<1>4. CASE TakeCommand
    <2>1. process = "up" => Head(commands) = "Persist" /\ Tail(commands) \in Seq({"Persist"})
        BY <1>1, <1>4, HeadTail DEF TakeCommand, Lifetime
    <2> QED BY <1>1, <1>4, <2>1 DEF TakeCommand, Lifetime, Ready, fileVars
<1>5. CASE CallWrite
    BY <1>1, <1>5 DEF CallWrite, Lifetime, ghosts
<1>6. CASE WriteStep
    <2>1. step # "none"
        BY <1>1, <1>6, SucceedEffect DEF WriteStep
    <2> QED BY <1>1, <1>6, <2>1 DEF WriteStep, Lifetime, actorVars
<1>7. CASE WriteError
    <2>1. step # "none" /\ step' = "none"
        BY <1>7, FailingEffect DEF WriteError
    <2> QED BY <1>1, <1>7, <2>1 DEF WriteError, Lifetime, actorVars
<1>8. CASE Finish
    BY <1>1, <1>8 DEF Finish, Lifetime, fileVars, ghosts
<1>9. CASE Receive
    BY <1>1, <1>9 DEF Receive, Lifetime, fileVars, actorVars, ghosts
<1>10. CASE Fire
    <2>1. commands' \in Seq({"Persist"})
        BY <1>1, <1>10, AppendFacts DEF Fire, Lifetime
    <2> QED BY <1>1, <1>10, <2>1 DEF Fire, Lifetime, fileVars, actorVars, ghosts
<1>11. CASE Signal
    BY <1>1, <1>11 DEF Signal, Lifetime, fileVars, actorVars, ghosts
<1>12. CASE Exit \/ Crash \/ PowerFails
    <2>1. Gone /\ step' = "none"
        BY <1>12, EndEffect
    <2> QED BY <2>1 DEF Gone, Lifetime
<1>13. CASE Boot
    <2>1. commands' = <<>> /\ todo' = <<>> /\ step' = "none" /\ handler' = "idle" /\ process' = "up"
        BY <1>1, <1>13 DEF Boot, Lifetime, fileVars
    <2> QED BY <2>1 DEF Lifetime
<1>14. CASE Tick
    BY <1>1, <1>14 DEF Tick, Lifetime, fileVars, actorVars, ghosts
<1>15. CASE UNCHANGED vars
    BY <1>1, <1>15 DEF vars, Lifetime, fileVars, actorVars, ghosts
<1>16. CASE SyncWindow \/ Notice
    BY <1>1, <1>16 DEF SyncWindow, Notice, Ready, Lifetime, fileVars
<1> QED BY <1>2, <1>3, <1>4, <1>5, <1>6, <1>7, <1>8, <1>9, <1>10, <1>11, <1>12, <1>13, <1>14,
           <1>15, <1>16, NextCases

\* Most steps leave the handler's writes alone.
LEMMA WritesAlone ==
    ASSUME Notice \/ Reconnect \/ Receive \/ Fire \/ Signal \/ Tick \/ Finish \/ UNCHANGED vars
    PROVE  UNCHANGED <<path, kept, step, target, bytes, todo, mem, made, home, failures, returned>>
BY DEF Notice, Reconnect, Receive, Fire, Signal, Tick, Finish, vars, fileVars, actorVars, ghosts

LEMMA RenamedNext == StateInv /\ [Next]_vars => Renamed'
<1> SUFFICES ASSUME StateInv, [Next]_vars PROVE Renamed'
    OBVIOUS
<1>1. FileInv /\ Renamed /\ TypeInv /\ Lifetime
    BY DEF StateInv
<1>2. CASE Changes
    <2>1. step' = "none"
        BY <1>1, <1>2, ChangesEffect DEF Ready, Lifetime
    <2> QED BY <2>1 DEF Renamed
<1>3. CASE Notice \/ Reconnect \/ Receive \/ Fire \/ Signal \/ Tick \/ Finish \/ UNCHANGED vars
    BY <1>1, <1>3, WritesAlone DEF Renamed
<1>4. CASE TakeCommand \/ SyncWindow
    BY <1>1, <1>4 DEF TakeCommand, SyncWindow, Renamed, fileVars
<1>5. CASE CallWrite
    BY <1>5 DEF CallWrite, Begin, Renamed
<1>6. CASE WriteStep
    <2>1. Succeed
        BY <1>6 DEF WriteStep
    <2>2. CASE step = "rename"
        BY <1>1, <2>1, <2>2, SucceedEffect DEF Renamed, FileInv, TypeOK
    <2>3. CASE step # "rename"
        BY <1>1, <2>1, <2>3, SucceedEffect DEF Renamed
    <2> QED BY <2>2, <2>3
<1>7. CASE WriteError
    BY <1>7, FailingEffect DEF WriteError, Renamed
<1>8. CASE Exit \/ Crash \/ PowerFails
    BY <1>8, EndEffect DEF Renamed
<1>9. CASE Boot
    BY <1>1, <1>9 DEF Boot, Renamed, fileVars
<1> QED BY <1>2, <1>3, <1>4, <1>5, <1>6, <1>7, <1>8, <1>9, NextCases

\* A handler queues its writes whole and CallWrite takes them in turn; one that
\* fails leaves the others queued.
LEMMA WorkNext == StateInv /\ [Next]_vars => Work'
<1> SUFFICES ASSUME StateInv, [Next]_vars PROVE Work'
    OBVIOUS
<1>1. FileInv /\ Work /\ TypeInv /\ Lifetime
    BY DEF StateInv
<1>2. CASE Changes
    <2>1. step' = "none" /\ mem' = made + 1
        BY <1>1, <1>2, ChangesEffect DEF Ready, Lifetime
    <2>2. CASE todo' \in {<<>>, <<Runtime(made + 1)>>}
        <3>1. CASE todo' = <<>>
            BY <2>1, <3>1 DEF Work
        <3>2. CASE todo' = <<Runtime(made + 1)>>
            BY <2>1, <3>2 DEF Work
        <3> QED BY <2>2, <3>1, <3>2
    <2>3. ASSUME NEW from \in Projects, NEW to \in Projects, from # to, home' = {to},
                 todo' = <<<<from, 0>>, <<to, 1>>, Runtime(made + 1)>>
          PROVE  Work'
        <3>1. Len(todo') = 3 /\ todo' # <<>> /\ todo'[1] = <<from, 0>> /\ todo'[2] = <<to, 1>>
              /\ todo'[3] = Runtime(mem')
            BY <2>1, <2>3
        <3>2. from \in Projects \ home'
            BY <2>3
        <3> QED BY <2>1, <2>3, <3>1, <3>2 DEF Work
    <2> QED BY <1>1, <1>2, <2>2, <2>3, ChangesEffect
<1>3. CASE Notice \/ Reconnect \/ Receive \/ Fire \/ Signal \/ Tick \/ Finish \/ UNCHANGED vars
    BY <1>1, <1>3, WritesAlone DEF Work
<1>4. CASE TakeCommand \/ SyncWindow
    <2>1. step' = "none" /\ todo' = <<Runtime(mem')>>
        BY <1>1, <1>4 DEF TakeCommand, SyncWindow, Ready, Lifetime, fileVars
    <2> QED BY <2>1 DEF Work
<1>5. CASE CallWrite
    <2>1. /\ todo # <<>> /\ step = "none" /\ todo' = Tail(todo) /\ step' = "create"
          /\ target' = Head(todo)[1] /\ bytes' = Head(todo)[2] /\ UNCHANGED <<mem, home>>
        BY <1>5 DEF CallWrite, Begin
    <2>2. /\ Head(todo) = todo[1] /\ Len(todo') = Len(todo) - 1 /\ Len(todo) \in Nat \ {0}
          /\ \A i \in 1 .. Len(todo) - 1 : todo'[i] = todo[i + 1]
        BY <1>1, <2>1, HeadTail DEF TypeInv
    <2>6. todo[Len(todo)] = Runtime(mem)
        BY <1>1, <2>1 DEF Work
    <2>3. CASE Len(todo) = 1
        <3>1. todo[1] = Runtime(mem) /\ Len(todo') = 0
            BY <2>2, <2>3, <2>6
        <3>3. todo' = <<>>
            BY <1>1, <2>1, <3>1, HeadTail DEF TypeInv
        <3>2. target' = "runtime" /\ bytes' = mem'
            BY <2>1, <2>2, <3>1 DEF Runtime
        <3>4. ~(Len(todo') >= 2) /\ ~(Len(todo') >= 3) /\ Len(todo') # 1 /\ Len(todo') # 2
            BY <3>1
        <3> QED BY <3>1, <3>2, <3>3, <3>4 DEF Work
    <2>4. CASE Len(todo) = 2
        <3>1. PICK to \in Projects : home = {to} /\ todo[1] = <<to, 1>>
            BY <1>1, <2>4 DEF Work
        <3>2. todo'[1] = Runtime(mem') /\ Len(todo') = 1
            BY <2>1, <2>2, <2>4, <2>6
        <3>3. target' = to /\ bytes' = 1 /\ home' = {to}
            BY <2>1, <2>2, <3>1
        <3> QED BY <3>2, <3>3 DEF Work
    <2>5. CASE Len(todo) >= 3
        <3>1. PICK from \in Projects \ home : todo[1] = <<from, 0>>
            BY <1>1, <2>5 DEF Work
        <3>2. PICK to \in Projects : home = {to} /\ todo[2] = <<to, 1>>
            <4>1. Len(todo) = 3
                BY <1>1, <2>5 DEF Work
            <4>2. \E to \in Projects : home = {to} /\ todo[Len(todo) - 1] = <<to, 1>>
                BY <1>1, <4>1 DEF Work
            <4> QED BY <4>1, <4>2
        <3>3. Len(todo) = 3 /\ todo[3] = Runtime(mem)
            <4>1. Len(todo) = 3
                BY <1>1, <2>5 DEF Work
            <4> QED BY <4>1, <2>6
        <3>4. Len(todo') = 2 /\ todo'[1] = <<to, 1>> /\ todo'[2] = Runtime(mem')
            <4>1. Len(todo') = 2 /\ todo'[1] = todo[2] /\ todo'[2] = todo[3]
                BY <2>2, <3>3
            <4>2. Runtime(mem') = Runtime(mem)
                BY <2>1
            <4> QED BY <4>1, <4>2, <3>2, <3>3
        <3>5. target' = from /\ bytes' = 0 /\ home' = {to}
            BY <2>1, <2>2, <3>1, <3>2
        <3>6. from \in Projects \ home'
            BY <3>1, <2>1
        <3> QED BY <3>2, <3>4, <3>5, <3>6 DEF Work
    <2> QED BY <2>2, <2>3, <2>4, <2>5
<1>6. CASE WriteStep
    <2>1. Succeed /\ UNCHANGED <<todo, mem, home>>
        BY <1>6 DEF WriteStep, actorVars
    <2>2. step # "none"
        BY <1>1, <2>1, SucceedEffect
    <2>3. step' = "none" \/ (target' = target /\ bytes' = bytes)
        BY <1>1, <2>1, SucceedEffect
    <2> QED BY <1>1, <2>1, <2>2, <2>3 DEF Work
<1>7. CASE WriteError
    <2>1. step # "none" /\ step' = "none" /\ UNCHANGED <<todo, mem, home>>
        BY <1>7, FailingEffect DEF WriteError, actorVars
    <2> QED BY <1>1, <2>1 DEF Work
<1>8. CASE Exit \/ Crash \/ PowerFails
    <2>1. todo' = <<>> /\ step' = "none"
        BY <1>8, EndEffect DEF Gone
    <2> QED BY <2>1 DEF Work
<1>9. CASE Boot
    <2>1. todo' = <<>> /\ step' = "none"
        BY <1>1, <1>9 DEF Boot, Lifetime, fileVars
    <2> QED BY <2>1 DEF Work
<1> QED BY <1>2, <1>3, <1>4, <1>5, <1>6, <1>7, <1>8, <1>9, NextCases

\* The write in progress: the version in memory, or a project's mark.
LEMMA WritesWhat ==
    ASSUME TypeInv, Work, step # "none"
    PROVE  \/ target = "runtime" /\ bytes = mem /\ todo = <<>>
           \/ /\ target \in Projects /\ home = {target} /\ bytes = 1
              /\ Len(todo) = 1 /\ todo # <<>>
           \/ /\ target \in Projects \ home /\ bytes = 0
              /\ Len(todo) = 2 /\ todo # <<>>
<1>1. Len(todo) \in Nat /\ (Len(todo) = 0 => todo = <<>>)
    BY HeadTail DEF TypeInv
<1>2. Len(todo) \in {0, 1, 2}
    <2> DEFINE n == Len(todo)
    <2>1. ~(n >= 3) /\ n \in Nat
        BY <1>1 DEF Work
    <2> HIDE DEF n
    <2>2. n \in {0, 1, 2}
        BY <2>1
    <2> QED BY <2>2 DEF n
<1>3. Len(todo) \in {1, 2} => todo # <<>>
    OBVIOUS
<1> QED BY <1>1, <1>2, <1>3 DEF Work

\* The version that a step puts in place is the one in memory, which no step
\* takes back; Boot reads one that the disk may hold.
LEMMA VersionsNext == StateInv /\ [Next]_vars => Versions'
<1> SUFFICES ASSUME StateInv, [Next]_vars PROVE Versions'
    OBVIOUS
<1>1. FileInv /\ Work /\ TypeInv /\ Lifetime /\ Versions /\ Renamed
    BY DEF StateInv
<1>2. /\ "runtime" \in Files /\ "runtime" \notin Projects /\ path["runtime"] \in kept["runtime"]
      /\ path["runtime"] \in Nat /\ made \in Nat /\ mem \in Nat /\ returned \in Nat
      /\ MaxVersion \in Nat
    BY <1>1, FilesAssumption, ContentsAssumption
       DEF FileInv, NeverTorn, Projects, Versions, TypeInv
<1>3. kept \in [Files -> SUBSET Entry] /\ path \in [Files -> Entry]
    BY <1>1 DEF FileInv, TypeOK
<1>4. CASE Changes
    <2>1. /\ made < MaxVersion /\ made' = made + 1 /\ mem' = made + 1 /\ returned' = returned
          /\ process' = process
        BY <1>1, <1>4, ChangesEffect
    <2>2. path'["runtime"] = path["runtime"] /\ kept'["runtime"] = kept["runtime"]
        BY <1>1, <1>2, <1>3, <1>4, ChangesEffect
    <2> QED BY <1>1, <1>2, <2>1, <2>2 DEF Versions
<1>5. CASE Notice \/ Reconnect \/ Receive \/ Fire \/ Signal \/ Tick \/ Finish \/ UNCHANGED vars
    <2>1. (process' = "down") = (process = "down")
        BY <1>5 DEF Notice, Reconnect, Receive, Fire, Signal, Tick, Finish, vars
    <2> QED BY <1>1, <1>5, <2>1, WritesAlone DEF Versions
<1>6. CASE TakeCommand
    BY <1>1, <1>6 DEF TakeCommand, Versions, fileVars
<1>7. CASE CallWrite
    BY <1>1, <1>7 DEF CallWrite, Begin, Versions, ghosts
<1>8. CASE WriteStep
    <2>1. /\ Succeed /\ UNCHANGED <<mem, made, process>>
          /\ returned' = IF step = "syncdir" /\ target = "runtime" THEN bytes ELSE returned
        BY <1>8 DEF WriteStep, actorVars
    <2>2. step # "none" /\ process # "down"
        BY <1>1, <2>1, SucceedEffect DEF Lifetime
    <2>3. CASE target = "runtime"
        <3>1. bytes = mem
            BY <1>1, <2>2, <2>3, WritesWhat DEF Projects
        <3>2. CASE step = "rename"
            <4>1. path'["runtime"] = mem /\ kept'["runtime"] = kept["runtime"] \cup {mem}
                BY <1>1, <1>2, <1>3, <2>1, <2>3, <3>1, <3>2, SucceedEffect
            <4> QED BY <1>1, <1>2, <2>1, <2>2, <3>2, <4>1 DEF Versions
        <3>3. CASE step = "syncdir"
            <4>1. path' = path /\ kept'["runtime"] = {path["runtime"]}
                BY <1>1, <1>2, <1>3, <2>1, <2>3, <3>3, SucceedEffect
            <4>2. returned' = path["runtime"]
                BY <1>1, <2>1, <2>3, <3>3 DEF Renamed
            <4> QED BY <1>1, <1>2, <2>1, <2>2, <4>1, <4>2 DEF Versions
        <3>4. CASE step \notin {"rename", "syncdir"}
            <4>1. path' = path /\ kept' = kept /\ returned' = returned
                BY <1>1, <2>1, <3>4, SucceedEffect
            <4> QED BY <1>1, <2>1, <4>1 DEF Versions
        <3> QED BY <3>2, <3>3, <3>4
    <2>4. CASE target # "runtime"
        <3>1. path'["runtime"] = path["runtime"] /\ kept'["runtime"] = kept["runtime"]
            BY <1>1, <1>2, <1>3, <2>1, <2>4, SucceedEffect
        <3>2. returned' = returned
            BY <2>1, <2>4
        <3> QED BY <1>1, <2>1, <3>1, <3>2 DEF Versions
    <2> QED BY <2>3, <2>4
<1>9. CASE WriteError
    <2>1. UNCHANGED <<path, kept, mem, made, process, returned>>
        BY <1>9, FailingEffect DEF WriteError, actorVars
    <2> QED BY <1>1, <2>1 DEF Versions
<1>10. CASE Exit \/ Crash \/ PowerFails
    <2>1. mem' = 0 /\ process' = "down" /\ made' = made /\ returned' = returned
        BY <1>10, EndEffect DEF Gone
    <2>2. \/ UNCHANGED <<path, kept>>
          \/ path'["runtime"] \in kept["runtime"] /\ kept'["runtime"] = {path'["runtime"]}
        BY <1>2, <1>10, EndEffect
    <2> QED BY <1>1, <1>2, <2>1, <2>2 DEF Versions
<1>11. CASE Boot
    <2>1. made < MaxVersion /\ made' = made + 1 /\ mem' = made + 1 /\ UNCHANGED <<path, kept, returned>>
        BY <1>11 DEF Boot, fileVars, ghosts
    <2> QED BY <1>1, <1>2, <2>1 DEF Versions
<1>12. CASE SyncWindow
    <2>1. /\ made < MaxVersion /\ made' = made + 1 /\ mem' = made + 1
          /\ UNCHANGED <<path, kept, returned, process>>
        BY <1>12 DEF SyncWindow, fileVars
    <2> QED BY <1>1, <1>2, <2>1 DEF Versions
<1> QED BY <1>4, <1>5, <1>6, <1>7, <1>8, <1>9, <1>10, <1>11, <1>12, NextCases

\* The losing file is settled without the group before the gaining one may
\* have it.
LEMMA OneFileNext == StateInv /\ [Next]_vars => OneFile'
<1> SUFFICES ASSUME StateInv, [Next]_vars, failures' = 0
             PROVE  /\ \A p, q \in Projects : p # q /\ 1 \in kept'[p] => 1 \notin kept'[q]
                    /\ \A p \in home' :
                            path'[p] = 1 \/ (step' # "none" /\ target' = p) \/ Len(todo') >= 2
                    /\ (Len(todo') = 2 /\ step' = "none") \/ (Len(todo') = 1 /\ step' # "none")
                       => \A p \in Projects \ home' : 1 \notin kept'[p]
    BY DEF OneFile
<1>1. FileInv /\ Work /\ TypeInv /\ Lifetime /\ OneFile /\ Renamed
    BY DEF StateInv
<1>2. /\ Projects \subseteq Files /\ home \subseteq Projects
      /\ kept \in [Files -> SUBSET Entry] /\ path \in [Files -> Entry]
      /\ \A f \in Files : path[f] \in kept[f]
      /\ 1 \in Contents /\ Missing # 1 /\ failures \in Nat
      /\ Len(todo) \in Nat
    BY <1>1, FilesAssumption, ContentsAssumption, MarksAssumption
       DEF FileInv, TypeOK, NeverTorn, Projects, TypeInv
<1>4. CASE Changes
    <2>1. failures = 0 /\ todo = <<>> /\ step = "none" /\ step' = "none"
        BY <1>1, <1>2, <1>4, ChangesEffect DEF Ready, Lifetime
    <2>2. \A p \in Projects : 1 \in kept'[p] => 1 \in kept[p]
        BY <1>1, <1>2, <1>4, ChangesEffect
    <2>3. \A p, q \in Projects : p # q /\ 1 \in kept'[p] => 1 \notin kept'[q]
        BY <1>1, <2>1, <2>2 DEF OneFile
    <2>4. \A p \in home : path[p] = 1
        BY <1>1, <2>1 DEF OneFile
    <2>5. CASE todo' \in {<<>>, <<Runtime(made + 1)>>} /\ home' \subseteq home
        <3>1. Len(todo') # 2
            BY <2>5
        <3>2. \A p \in home' : path'[p] = path[p]
            BY <1>1, <1>2, <1>4, <2>5, ChangesEffect
        <3> QED BY <2>1, <2>3, <2>4, <2>5, <3>1, <3>2
    <2>6. CASE Len(todo') = 3
        BY <2>1, <2>3, <2>6
    <2>7. \/ todo' \in {<<>>, <<Runtime(made + 1)>>} /\ home' \subseteq home
          \/ Len(todo') = 3
        BY <1>1, <1>4, ChangesEffect
    <2> QED BY <2>5, <2>6, <2>7
<1>5. CASE Notice \/ Reconnect \/ Receive \/ Fire \/ Signal \/ Tick \/ Finish \/ UNCHANGED vars
    BY <1>1, <1>5, WritesAlone DEF OneFile
<1>6. CASE TakeCommand \/ SyncWindow
    <2>1. todo = <<>> /\ step = "none" /\ step' = "none" /\ Len(todo') = 1
          /\ UNCHANGED <<path, kept, home, failures>>
        BY <1>1, <1>6 DEF TakeCommand, SyncWindow, Ready, Lifetime, fileVars
    <2> QED BY <1>1, <2>1 DEF OneFile
<1>7. CASE CallWrite
    <2>1. step = "none" /\ step' # "none" /\ UNCHANGED <<path, kept, home, failures>>
          /\ todo' = Tail(todo) /\ todo # <<>> /\ target' = Head(todo)[1]
        BY <1>7 DEF CallWrite, Begin, ghosts
    <2>2. Len(todo') = Len(todo) - 1 /\ Head(todo) = todo[1]
        BY <1>1, <2>1, HeadTail DEF TypeInv
    <2> QED BY <1>1, <1>2, <2>1, <2>2 DEF OneFile, Work
<1>8. CASE WriteStep
    <2>1. /\ Succeed /\ UNCHANGED <<mem, made, process, home, todo, failures>>
        BY <1>8 DEF WriteStep, actorVars
    <2>2. step # "none"
        BY <1>1, <2>1, SucceedEffect
    <2>3. CASE target = "runtime" /\ bytes = mem /\ todo = <<>>
        <3>1. \A p \in Projects : path'[p] = path[p] /\ kept'[p] = kept[p]
            BY <1>1, <1>2, <2>1, <2>3, SucceedEffect DEF Projects
        <3> QED BY <1>1, <1>2, <2>1, <2>3, <3>1 DEF OneFile, Projects
    <2>4. CASE target \in Projects /\ home = {target} /\ bytes = 1 /\ Len(todo) = 1
        <3>1. \A p \in Projects \ home : 1 \notin kept[p] /\ kept'[p] = kept[p]
            BY <1>1, <1>2, <2>1, <2>2, <2>4, SucceedEffect DEF OneFile
        <3>2. path'[target] = 1 \/ (step' # "none" /\ target' = target)
            BY <1>1, <2>1, <2>4, SucceedEffect DEF Renamed
        <3> QED BY <2>1, <2>4, <3>1, <3>2
    <2>5. CASE target \in Projects \ home /\ bytes = 0 /\ Len(todo) = 2
        <3>1. \A p \in Projects : 1 \in kept'[p] => 1 \in kept[p]
            BY <1>1, <1>2, <2>1, <2>5, SucceedEffect
        <3>2. \A p, q \in Projects : p # q /\ 1 \in kept'[p] => 1 \notin kept'[q]
            BY <1>1, <2>1, <3>1 DEF OneFile
        <3>3. \A p \in Projects \ home : p = target
            BY <1>1, <2>5 DEF Work, Projects
        <3>4. step' = "none" => 1 \notin kept'[target]
            <4>1. step' = "none" => kept'[target] = {path[target]} /\ path[target] = 0
                BY <1>1, <1>2, <2>1, <2>5, SucceedEffect DEF Renamed
            <4> QED BY <4>1
        <3> QED BY <2>1, <2>5, <3>2, <3>3, <3>4
    <2> QED BY <1>1, <2>2, <2>3, <2>4, <2>5, WritesWhat
<1>9. CASE WriteError
    BY <1>2, <1>9 DEF WriteError
<1>10. CASE Exit \/ Crash \/ PowerFails
    <2>1. home' = {} /\ todo' = <<>> /\ failures' = failures
        BY <1>10, EndEffect DEF Gone
    <2>2. \A p \in Projects : kept'[p] \subseteq kept[p]
        BY <1>2, <1>10, EndEffect
    <2> QED BY <1>1, <1>2, <2>1, <2>2 DEF OneFile
<1>11. CASE Boot
    <2>1. /\ UNCHANGED <<path, kept, todo, failures>> /\ todo = <<>>
          /\ home' \subseteq {p \in Projects : path[p] = 1}
        BY <1>1, <1>11 DEF Boot, fileVars, ghosts, Lifetime
    <2> QED BY <1>1, <1>2, <2>1 DEF OneFile
<1> QED BY <1>4, <1>5, <1>6, <1>7, <1>8, <1>9, <1>10, <1>11, NextCases

\* Receive never sets the deadline beyond the cap, and Tick waits for it.
LEMMA ClockNext == StateInv /\ [Next]_vars => Clock'
<1> SUFFICES ASSUME StateInv, [Next]_vars PROVE Clock'
    OBVIOUS
<1>1. TypeInv /\ Clock /\ Lifetime
    BY DEF StateInv
<1>2. /\ now \in Nat /\ autosave.dirtySince \in Nat \cup {None}
      /\ autosave.deadline \in Nat \cup {None}
      /\ Debounce \in Nat /\ MaxInterval \in Nat /\ None \notin Nat
    BY <1>1, TimesAssumption, NoneAssumption DEF TypeInv
<1>3. CASE UNCHANGED <<autosave, now>>
    BY <1>1, <1>3 DEF Clock
<1>4. CASE Receive
    <2>1. now' = now
        BY <1>4 DEF Receive
    <2>2. CASE ~Head(inbox)
        BY <1>3, <1>4, <2>1, <2>2 DEF Receive
    <2>3. CASE Head(inbox)
        <3> DEFINE first == IF autosave.dirtySince = None THEN now ELSE autosave.dirtySince
        <3>1. first \in Nat /\ first <= now /\ now <= first + MaxInterval
            BY <1>1, <1>2 DEF Clock
        <3>2. autosave' = [dirtySince |-> first,
                           deadline |-> MinOf(now + Debounce, first + MaxInterval)]
            BY <1>4, <2>3 DEF Receive
        <3> HIDE DEF first
        <3>3. /\ autosave'.dirtySince = first
              /\ autosave'.deadline = MinOf(now + Debounce, first + MaxInterval)
            BY <3>2
        <3>4. /\ MinOf(now + Debounce, first + MaxInterval) \in Nat
              /\ now <= MinOf(now + Debounce, first + MaxInterval)
              /\ MinOf(now + Debounce, first + MaxInterval) <= first + MaxInterval
            BY <1>2, <3>1 DEF MinOf
        <3> QED BY <1>2, <2>1, <3>1, <3>3, <3>4 DEF Clock
    <2> QED BY <2>2, <2>3
<1>5. CASE autosave' = Clean
    BY <1>5 DEF Clock, Clean
<1>6. CASE Tick
    BY <1>1, <1>2, <1>6 DEF Tick, Clock, Due
<1> QED BY <1>1, <1>3, <1>4, <1>5, <1>6, NextCases, ChangesEffect, EndEffect
        DEF SyncWindow, Notice, Reconnect, TakeCommand, CallWrite, WriteStep, WriteError, Finish,
            Fire, Signal, Gone, Boot, vars

\* A change still on its way to runtime.json goes on being so when neither
\* its time nor the autosave task's changes.
LEMMA WaitsOn ==
    ASSUME Waits, UNCHANGED <<waiting, now, intact>>, process' = "up" => process = "up",
           step' = "syncdir" /\ target' = "runtime" => waiting' = None,
           process' = "up" /\ waiting # None /\ Covered => Covered'
    PROVE  Waits'
BY DEF Waits

\* A step that may start the clock starts it with what covers it.
LEMMA WaitsAnew ==
    ASSUME TypeInv, Waits, UNCHANGED <<now, intact, process>>, step' # "syncdir",
           waiting' = waiting \/ (waiting = None /\ waiting' = now),
           waiting # None /\ waiting' = waiting /\ Covered => Covered',
           waiting = None /\ waiting' = now => Covered'
    PROVE  Waits'
BY TimesAssumption DEF Waits, TypeInv

\* One event more on the bus, one place nearer to its head.
LEMMA After ==
    ASSUME NEW length \in Nat, NEW i \in Nat, NEW n \in Nat, length - i <= n
    PROVE  (length + 1) - i <= n + 1 /\ length - (i - 1) <= n + 1
OBVIOUS

\* A change goes from announced to dirty, to asked for, to being written, and
\* no step leaves it nowhere.
LEMMA WaitsNext == StateInv /\ [Next]_vars => Waits'
<1> SUFFICES ASSUME StateInv, [Next]_vars PROVE Waits'
    OBVIOUS
<1>1. FileInv /\ Work /\ TypeInv /\ Lifetime /\ Clock /\ Waits
    BY DEF StateInv
<1>2. /\ now \in Nat /\ waiting \in Nat \cup {None} /\ autosave.dirtySince \in Nat \cup {None}
      /\ autosave.deadline \in Nat \cup {None} /\ noise \in Nat /\ Len(inbox) \in Nat
      /\ MaxInterval \in Nat /\ None \notin Nat /\ BusCapacity \in Nat /\ MaxNoise \in Nat
      /\ MaxNoise < BusCapacity
    BY <1>1, TimesAssumption, NoneAssumption, NoiseAssumption DEF TypeInv
<1>3. DOMAIN inbox = 1 .. Len(inbox) /\ DOMAIN inbox' = 1 .. Len(inbox')
    <2>1. inbox' \in Seq(BOOLEAN)
        BY TypeInvNext DEF TypeInv
    <2> QED BY <1>1, <2>1 DEF TypeInv
<1>4. CASE Changes
    <2>1. /\ UNCHANGED <<process, commands, inbox, autosave, now, noise, intact>>
          /\ handler = "idle" /\ step' = step
          /\ \/ waiting' = waiting
             \/ /\ waiting = None /\ waiting' = now
                /\ handler' = "announces" \/ todo' # <<>>
        BY <1>1, <1>4, ChangesEffect, NotedEffect DEF Ready
    <2>2. todo = <<>> /\ step = "none"
        BY <1>1, <2>1 DEF Lifetime
    <2>3. waiting' = waiting /\ Covered => Covered'
        BY <2>1, <2>2 DEF Covered, Announced
    <2>4. waiting = None /\ waiting' = now => Covered'
        <3>1. now # None
            BY <1>2
        <3> QED BY <2>1, <3>1 DEF Covered, Announced
    <2> QED BY <1>1, <2>1, <2>2, <2>3, <2>4, WaitsAnew
<1>5. CASE Reconnect
    <2>1. /\ UNCHANGED <<waiting, now, intact, process, commands, todo, step, target, autosave,
                        handler>>
          /\ inbox' = Sent(FALSE) /\ noise' = noise + 1 /\ noise < MaxNoise
        BY <1>5 DEF Reconnect, fileVars, actorVars, ghosts
    <2>2. Announced => Announced'
        <3>0. noise' = noise + 1
            BY <2>1
        <3>1. ASSUME NEW i \in DOMAIN inbox, inbox[i], Len(inbox) - i <= noise
              PROVE  Announced'
            <4>1. CASE Len(inbox) < BusCapacity
                <5>1. /\ Len(inbox') = Len(inbox) + 1 /\ inbox'[i] = inbox[i]
                      /\ inbox' \in Seq(BOOLEAN)
                    BY <1>1, <1>3, <2>1, <3>1, <4>1, SentFacts
                <5>2. i \in 1 .. Len(inbox')
                    BY <1>2, <1>3, <3>1, <5>1
                <5>3. Len(inbox') - i <= noise'
                    BY <1>2, <3>0, <3>1, <5>1, <5>2, After
                <5> QED BY <1>3, <3>1, <5>1, <5>2, <5>3 DEF Announced
            <4>2. CASE ~(Len(inbox) < BusCapacity)
                <5>1. /\ Len(inbox') = Len(inbox) /\ Len(inbox) = BusCapacity
                      /\ inbox' \in Seq(BOOLEAN)
                      /\ \A j \in 1 .. Len(inbox) - 1 : inbox'[j] = inbox[j + 1]
                    BY <1>1, <2>1, <4>2, SentFacts
                <5>2. i - 1 \in 1 .. Len(inbox) - 1
                    BY <1>2, <1>3, <2>1, <3>1, <5>1
                <5>3. inbox'[i - 1] = inbox[i] /\ i - 1 \in DOMAIN inbox'
                    BY <1>2, <1>3, <5>1, <5>2
                <5>4. Len(inbox') - (i - 1) <= noise'
                    BY <1>2, <1>3, <3>0, <3>1, <5>1, After
                <5> QED BY <3>1, <5>3, <5>4 DEF Announced
            <4> QED BY <4>1, <4>2
        <3> QED BY <2>1, <3>1 DEF Announced
    <2>3. Covered => Covered'
        BY <2>1, <2>2 DEF Covered
    <2> QED BY <1>1, <2>1, <2>3, WaitsOn DEF Waits
<1>6. CASE TakeCommand
    <2>1. /\ UNCHANGED <<now, intact, process, step>> /\ step = "none" /\ todo' # <<>>
          /\ waiting' = waiting \/ (waiting = None /\ waiting' = now)
        BY <1>1, <1>6, NotedEffect DEF TakeCommand, fileVars, Ready, Lifetime
    <2>2. Covered'
        BY <2>1 DEF Covered
    <2> QED BY <1>1, <2>1, <2>2, WaitsAnew
<1>7. CASE CallWrite
    <2>1. /\ UNCHANGED <<waiting, now, intact, process, commands, autosave, handler, inbox, noise>>
          /\ todo' = Tail(todo) /\ step' = "create" /\ target' = Head(todo)[1] /\ todo # <<>>
          /\ step = "none"
        BY <1>7 DEF CallWrite, Begin, ghosts
    <2>2. CASE Len(todo) = 1
        <3>1. Head(todo) = Runtime(mem)
            BY <1>1, <2>1, <2>2, HeadTail DEF Work, TypeInv
        <3>2. target' = "runtime"
            BY <2>1, <3>1 DEF Runtime
        <3> QED BY <1>1, <2>1, <3>2, WaitsOn DEF Covered
    <2>3. CASE Len(todo) # 1
        <3>1. Len(todo') = Len(todo) - 1 /\ Len(todo) \in Nat \ {0}
            BY <1>1, <2>1, HeadTail DEF TypeInv
        <3>2. todo' # <<>>
            BY <2>3, <3>1
        <3> QED BY <1>1, <2>1, <3>2, WaitsOn DEF Covered
    <2> QED BY <2>2, <2>3
<1>8. CASE WriteStep
    <2>1. /\ Succeed
          /\ UNCHANGED <<process, mem, todo, commands, inbox, autosave, now, noise, handler>>
          /\ waiting' = IF path'["runtime"] = mem THEN None ELSE waiting
          /\ intact' = (intact \/ (step = "rename" /\ target = "runtime"))
        BY <1>8 DEF WriteStep, actorVars
    <2>2. step # "none" /\ "runtime" \in Files /\ path \in [Files -> Entry]
        BY <1>1, <2>1, SucceedEffect, FilesAssumption DEF FileInv, TypeOK
    <2>3. CASE waiting' = None
        BY <2>3 DEF Waits
    <2>4. CASE waiting' # None
        <3>1. waiting' = waiting /\ waiting # None
            BY <2>1, <2>4
        <3>2. ~(step = "rename" /\ target = "runtime")
            BY <1>1, <2>1, <2>2, <2>4, SucceedEffect, WritesWhat DEF Projects
        <3>3. ~(step' = "syncdir" /\ target' = "runtime")
            BY <1>1, <2>1, <3>2, SucceedEffect
        <3>4. Covered => Covered'
            <4>1. CASE target = "runtime"
                <5>1. step # "syncdir"
                    BY <1>1, <3>1, <4>1 DEF Waits
                <5>2. step' # "none" /\ target' = target
                    BY <1>1, <2>1, <5>1, SucceedEffect
                <5> QED BY <4>1, <5>2 DEF Covered
            <4>2. CASE target # "runtime"
                <5>1. todo # <<>>
                    BY <1>1, <2>2, <4>2, WritesWhat
                <5> QED BY <2>1, <5>1 DEF Covered
            <4> QED BY <4>1, <4>2
        <3>5. intact' = intact
            BY <1>1, <2>1, <3>2 DEF TypeInv
        <3> QED BY <1>1, <2>1, <3>1, <3>3, <3>4, <3>5, WaitsOn
    <2> QED BY <2>3, <2>4
<1>9. CASE WriteError
    <2>1. /\ UNCHANGED <<process, todo, commands, inbox, autosave, now, noise, handler, waiting>>
          /\ intact' = (intact /\ (target # "runtime" \/ step = "syncdir"))
          /\ step # "none" /\ step' = "none"
        BY <1>9, FailingEffect DEF WriteError, actorVars
    <2>2. CASE waiting = None \/ ~intact'
        BY <1>1, <2>1, <2>2 DEF Waits
    <2>3. CASE waiting # None /\ intact'
        <3>1. target # "runtime" /\ intact
            BY <1>1, <2>1, <2>3 DEF Waits
        <3>2. todo # <<>>
            BY <1>1, <2>1, <3>1, WritesWhat
        <3> QED BY <1>1, <2>1, <2>3, <3>1, <3>2, WaitsOn DEF Covered
    <2> QED BY <2>2, <2>3
<1>10. CASE Finish
    <2>1. /\ UNCHANGED <<process, todo, commands, autosave, now, noise, waiting, intact, step,
                        target>>
          /\ todo = <<>> /\ step = "none"
          /\ inbox' = IF handler = "announces" /\ process = "up" THEN Sent(TRUE) ELSE inbox
        BY <1>10 DEF Finish, fileVars, ghosts
    <2>2. ASSUME process = "up", Announced PROVE Announced'
        <3>1. CASE handler = "announces"
            <4>1. /\ Len(inbox') \in Nat \ {0} /\ inbox'[Len(inbox')] = TRUE
                  /\ inbox' \in Seq(BOOLEAN)
                BY <1>1, <2>1, <2>2, <3>1, SentFacts
            <4>2. Len(inbox') \in DOMAIN inbox'
                BY <1>3, <4>1
            <4>3. Len(inbox') - Len(inbox') <= noise'
                BY <1>2, <2>1, <4>1
            <4> QED BY <4>1, <4>2, <4>3 DEF Announced
        <3>2. CASE handler # "announces"
            BY <2>1, <2>2, <3>2 DEF Announced
        <3> QED BY <3>1, <3>2
    <2>3. process = "up" /\ Covered => Covered'
        BY <2>1, <2>2 DEF Covered
    <2> QED BY <1>1, <2>1, <2>3, WaitsOn
<1>11. CASE Receive
    <2>1. /\ UNCHANGED <<process, todo, commands, now, waiting, intact, step, target, handler>>
          /\ inbox # <<>> /\ inbox' = Tail(inbox) /\ noise' = IF inbox' = <<>> THEN 0 ELSE noise
        BY <1>11 DEF Receive, fileVars, actorVars, ghosts
    <2>2. /\ Head(inbox) = inbox[1] /\ Len(inbox') = Len(inbox) - 1
          /\ inbox' \in Seq(BOOLEAN)
          /\ \A j \in 1 .. Len(inbox) - 1 : inbox'[j] = inbox[j + 1]
        BY <1>1, <2>1, HeadTail DEF TypeInv
    <2>3. ASSUME autosave.dirtySince # None, autosave.dirtySince <= waiting
          PROVE  autosave'.dirtySince # None /\ autosave'.dirtySince <= waiting'
        BY <1>11, <2>1, <2>3 DEF Receive
    <2>4. ASSUME Head(inbox), waiting = now
          PROVE  autosave'.dirtySince # None /\ autosave'.dirtySince <= waiting'
        <3> DEFINE first == IF autosave.dirtySince = None THEN now ELSE autosave.dirtySince
        <3>1. first \in Nat /\ first <= now
            BY <1>1, <1>2 DEF Clock
        <3>2. autosave' = [dirtySince |-> first,
                           deadline |-> MinOf(now + Debounce, first + MaxInterval)]
            BY <1>11, <2>4 DEF Receive
        <3> HIDE DEF first
        <3>3. autosave'.dirtySince = first
            BY <3>2
        <3> QED BY <1>2, <2>1, <2>4, <3>1, <3>3
    <2>5. ASSUME Announced, ~Head(inbox) PROVE Announced'
        <3>1. ASSUME NEW i \in DOMAIN inbox, inbox[i], Len(inbox) - i <= noise
              PROVE  Announced'
            <4>1. i # 1
                BY <2>2, <2>5, <3>1
            <4>2. i - 1 \in 1 .. Len(inbox) - 1 /\ i - 1 \in 1 .. Len(inbox')
                BY <1>2, <1>3, <2>2, <4>1
            <4>3. inbox'[i - 1] = inbox[i] /\ i - 1 \in DOMAIN inbox' /\ inbox' # <<>>
                BY <1>2, <1>3, <2>2, <4>2
            <4>4. Len(inbox') - (i - 1) <= noise'
                BY <1>2, <1>3, <2>1, <2>2, <3>1, <4>3
            <4> QED BY <3>1, <4>3, <4>4 DEF Announced
        <3> QED BY <2>1, <2>5, <3>1 DEF Announced
    <2>6. Covered => Covered'
        BY <2>1, <2>3, <2>4, <2>5 DEF Covered
    <2> QED BY <1>1, <2>1, <2>6, WaitsOn DEF Waits
<1>12. CASE Fire
    <2>1. /\ UNCHANGED <<process, now, waiting, intact, step, target>> /\ process = "up"
          /\ commands' = IF handler = "gone" THEN commands ELSE Append(commands, "Persist")
        BY <1>12 DEF Fire, fileVars, actorVars, ghosts
    <2>2. commands' # <<>>
        BY <1>1, <2>1, AppendFacts DEF Lifetime
    <2> QED BY <1>1, <2>1, <2>2, WaitsOn DEF Covered, Waits
<1>13. CASE Signal
    BY <1>1, <1>13 DEF Signal, fileVars, actorVars, ghosts, Waits
<1>14. CASE Exit \/ Crash \/ PowerFails
    <2>1. waiting' = None
        BY <1>14, EndEffect DEF Gone
    <2> QED BY <2>1 DEF Waits
<1>15. CASE Boot
    <2>1. waiting' = None
        BY <1>1, <1>15 DEF Boot, Lifetime, ghosts
    <2> QED BY <2>1 DEF Waits
<1>16. CASE Tick
    <2>1. /\ UNCHANGED <<process, todo, commands, inbox, autosave, noise, waiting, intact, step,
                         target, handler>>
          /\ now' = now + 1 /\ handler # "announces" /\ commands = <<>> /\ inbox = <<>> /\ ~Due
          /\ handler \in {"idle", "gone"}
        BY <1>16 DEF Tick, fileVars, actorVars, ghosts
    <2>2. todo = <<>> /\ step = "none"
        BY <1>1, <2>1 DEF Lifetime
    <2>3. ~Announced
        BY <2>1 DEF Announced
    <2>4. ASSUME process = "up", intact, waiting # None
          PROVE  Covered' /\ now' - waiting' <= MaxInterval
        <3>1. autosave.dirtySince # None /\ autosave.dirtySince <= waiting
            BY <1>1, <2>1, <2>2, <2>3, <2>4 DEF Waits, Covered
        <3>2. now < autosave.deadline /\ autosave.deadline <= autosave.dirtySince + MaxInterval
            BY <1>1, <1>2, <2>1, <3>1 DEF Clock, Due
        <3> QED BY <1>1, <1>2, <2>1, <2>4, <3>1, <3>2 DEF Covered, Clock
    <2> QED BY <1>1, <1>2, <2>1, <2>2, <2>4 DEF Waits
<1>17. CASE UNCHANGED vars
    <2>1. Covered => Covered'
        BY <1>17 DEF vars, Covered, Announced, fileVars, actorVars, ghosts
    <2> QED BY <1>1, <1>17, <2>1, WaitsOn DEF vars, fileVars, actorVars, ghosts, Waits
<1>18. CASE SyncWindow
    <2>1. /\ UNCHANGED <<now, intact, process, step>> /\ step = "none" /\ todo' # <<>>
          /\ waiting' = waiting \/ (waiting = None /\ waiting' = now)
        BY <1>18, NotedEffect DEF SyncWindow, fileVars
    <2>2. Covered'
        BY <2>1 DEF Covered
    <2> QED BY <1>1, <2>1, <2>2, WaitsAnew
<1>19. CASE Notice
    <2>1. /\ UNCHANGED <<now, intact, process, step, target, todo, commands, inbox, autosave, noise>>
          /\ handler' = "announces" /\ handler = "idle"
          /\ waiting' = waiting \/ (waiting = None /\ waiting' = now)
        BY <1>19, NotedEffect DEF Notice, fileVars, Ready
    <2>2. step = "none"
        BY <1>1, <2>1 DEF Lifetime
    <2>3. waiting' = waiting /\ Covered => Covered'
        BY <2>1 DEF Covered, Announced
    <2>4. waiting' = now => Covered'
        BY <2>1 DEF Covered, Announced
    <2> QED BY <1>1, <2>1, <2>2, <2>3, <2>4, WaitsAnew
<1> QED BY <1>4, <1>5, <1>6, <1>7, <1>8, <1>9, <1>10, <1>11, <1>12, <1>13, <1>14, <1>15, <1>16,
           <1>17, <1>18, <1>19, NextCases

LEMMA StateInvNext == StateInv /\ [Next]_vars => StateInv'
<1> SUFFICES ASSUME StateInv, [Next]_vars PROVE StateInv'
    OBVIOUS
<1>1. FileInv'
    BY FileSteps, FileInvNext DEF StateInv
<1> QED BY <1>1, TypeInvNext, LifetimeNext, RenamedNext, WorkNext, VersionsNext, OneFileNext,
           ClockNext, WaitsNext DEF StateInv

LEMMA StateInvariant == Spec => []StateInv
BY InitInv, StateInvNext, PTL DEF Spec, StateInv

-----------------------------------------------------------------------------
(* The promises. *)

\* Every variable keeps the values the code can give it: the bus holds no more
\* than its capacity, a write under way writes one of the daemon's files.
THEOREM FilesTyped == Spec => []TypeInv
<1>1. StateInv => TypeInv
    BY DEF StateInv
<1> QED BY <1>1, StateInvariant, PTL

\* While writes of runtime.json succeed, all that memory holds when a handler
\* announces or saves anything is on disk within autosave's longest interval,
\* what earlier hydrations changed in silence too, whatever bursts of events
\* keep putting off the debounce and whatever the bus drops (autosave.rs).
THEOREM SavesInTime == Spec => []SavedWithin
<1>1. StateInv => SavedWithin
    BY DEF StateInv, SavedWithin, Waits
<1> QED BY <1>1, StateInvariant, PTL

\* No write, late Persist, failed write, stop, crash or loss of power takes
\* runtime.json back to a state of memory before one whose save returned Ok.
THEOREM SavesKeepOrder == Spec => []SavesInOrder
<1>1. StateInv => SavesInOrder
    BY FilesAssumption DEF StateInv, SavesInOrder, Versions, FileInv, NeverTorn
<1> QED BY <1>1, StateInvariant, PTL

\* Unless a write has failed, no project.json but one lists the group that
\* group_move moves, between its two writes too and after a loss of power in
\* the midst of either.
THEOREM GroupInOneFile == Spec => []NeverInTwoFiles
<1>1. StateInv => NeverInTwoFiles
    <2> SUFFICES ASSUME StateInv, failures = 0 PROVE \E p \in Projects : path[p] # 1
        BY DEF NeverInTwoFiles
    <2>1. path["a"] \in kept["a"] /\ path["b"] \in kept["b"]
        BY FilesAssumption DEF StateInv, FileInv, NeverTorn
    <2> QED BY <2>1 DEF StateInv, OneFile, Projects
<1> QED BY <1>1, StateInvariant, PTL

\* The handlers of the actor, the starts and the ends of the daemon use the
\* files in no other way than atomic_write does, and so as an atomic register.
THEOREM DaemonWritesAreAtomic == Spec => AtomicFiles
<1>1. Init => FileInit
    BY FilesAssumption, ContentsAssumption DEF Init, FileInit
<1>2. StateInv /\ [Next]_vars => [FileNext]_fileVars
    BY FileSteps DEF StateInv
<1>3. Spec => FileSpec
    BY <1>1, <1>2, StateInvariant, PTL DEF Spec, FileSpec
<1> QED BY <1>3, WritesAreAtomic, PTL
====
