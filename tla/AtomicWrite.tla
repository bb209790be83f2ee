----------------------------- MODULE AtomicWrite -----------------------------
(***************************************************************************)
(* atomic_write and its users (workspace-storage/src/atomic.rs,            *)
(* projects.rs, runtime.rs) on a file system that loses what was not       *)
(* synced when the power fails.                                            *)
(*                                                                         *)
(* One writer: the state actor, under the lock of its instance.  A file    *)
(* has two directory entries, its path and the temporary one beside it.    *)
(* The file system may write back an entry or data at any time before it   *)
(* is told to, so after a loss of power an unsynced rename holds or not,   *)
(* and unsynced data is there or not.  The directories exist before the    *)
(* first write.                                                            *)
(***************************************************************************)
EXTENDS FiniteSets

CONSTANTS
    Files,
    Contents, \* what a caller passes as bytes
    Missing,  \* no such entry
    Torn      \* some other bytes: an empty file or a part of the bytes

ASSUME MarksAssumption == Missing \notin Contents /\ Torn \notin Contents /\ Missing # Torn

VARIABLES
    path,   \* what a reader of each file sees
    tmp,    \* the temporary entry of each file
    synced, \* whether the data of the temporary entry is on the disk
    kept,   \* what each file may be after a loss of power
    step,   \* where the writer is in atomic_write
    target, \* the file it writes, Missing when none
    bytes   \* ... and with what
fileVars == <<path, tmp, synced, kept, step, target, bytes>>

Entry == Contents \cup {Missing, Torn}
Steps == {"none", "create", "write", "sync", "rename", "syncdir"}

TypeOK ==
    /\ path \in [Files -> Entry] /\ tmp \in [Files -> Entry]
    /\ synced \in [Files -> BOOLEAN]
    /\ kept \in [Files -> SUBSET Entry]
    /\ step \in Steps
    /\ IF step = "none" THEN target = Missing /\ bytes = Missing
                        ELSE target \in Files /\ bytes \in Contents

FileInit ==
    /\ path \in [Files -> Contents \cup {Missing}]
    /\ tmp = [f \in Files |-> Missing]
    /\ synced = [f \in Files |-> FALSE]
    /\ kept = [f \in Files |-> {path[f]}]
    /\ step = "none" /\ target = Missing /\ bytes = Missing

-----------------------------------------------------------------------------
\* save_runtime, save_project: the call.
Begin(f, c) ==
    /\ step = "none"
    /\ step' = "create" /\ target' = f /\ bytes' = c
    /\ UNCHANGED <<path, tmp, synced, kept>>

Return == step' = "none" /\ target' = Missing /\ bytes' = Missing

\* The call returns an error: the early returns of `?`, which leave the
\* temporary entry as it is.
Fail(at) ==
    /\ step = at /\ Return
    /\ UNCHANGED <<path, tmp, synced, kept>>

\* File::create truncates an entry a failed write left behind.
Create ==
    /\ step = "create" /\ step' = "write"
    /\ tmp' = [tmp EXCEPT ![target] = Torn]
    /\ synced' = [synced EXCEPT ![target] = FALSE]
    /\ UNCHANGED <<path, kept, target, bytes>>
CreateFails == Fail("create")

WriteAll ==
    /\ step = "write" /\ step' = "sync"
    /\ tmp' = [tmp EXCEPT ![target] = bytes]
    /\ UNCHANGED <<path, synced, kept, target, bytes>>
\* The disk is full: some of the bytes are there.
WriteFails == Fail("write")

\* The data is left to the system to write back.
MutantSyncDataSkipped ==
    /\ step = "sync" /\ step' = "rename"
    /\ UNCHANGED <<path, tmp, synced, kept, target, bytes>>

SyncData ==
    /\ step = "sync" /\ step' = "rename"
    /\ synced' = [synced EXCEPT ![target] = TRUE]
    /\ UNCHANGED <<path, tmp, kept, target, bytes>>
SyncFails == Fail("sync")

\* The rename replaces the file in one step; on the disk it holds or not,
\* with the data it has there.
Rename ==
    /\ step = "rename" /\ step' = "syncdir"
    /\ path' = [path EXCEPT ![target] = tmp[target]]
    /\ tmp' = [tmp EXCEPT ![target] = Missing]
    /\ kept' = [kept EXCEPT ![target] = @ \cup {tmp[target]}
                               \cup (IF synced[target] THEN {} ELSE {Torn})]
    /\ synced' = [synced EXCEPT ![target] = FALSE]
    /\ UNCHANGED <<target, bytes>>
\* Only this failure removes the temporary entry.
RenameFails ==
    /\ step = "rename" /\ Return
    /\ tmp' = [tmp EXCEPT ![target] = Missing]
    /\ synced' = [synced EXCEPT ![target] = FALSE]
    /\ UNCHANGED <<path, kept>>

\* The rename is left to the system to write back.
MutantSyncDirSkipped ==
    /\ step = "syncdir" /\ Return
    /\ UNCHANGED <<path, tmp, synced, kept>>

SyncDir ==
    /\ step = "syncdir" /\ Return
    /\ kept' = [kept EXCEPT ![target] = {path[target]}]
    /\ UNCHANGED <<path, tmp, synced>>
\* An error although the file has changed.
SyncDirFails == Fail("syncdir")

\* delete_project: the entry goes at once, and nothing syncs the directory.
Remove(f) ==
    /\ step = "none" /\ path[f] # Missing
    /\ path' = [path EXCEPT ![f] = Missing]
    /\ kept' = [kept EXCEPT ![f] = @ \cup {Missing}]
    /\ UNCHANGED <<tmp, synced, step, target, bytes>>

\* The process ends between two steps: what it wrote stays in the system.
Die ==
    /\ Return
    /\ UNCHANGED <<path, tmp, synced, kept>>

\* The machine goes down: each file is one of what the disk may hold, and a
\* temporary entry may be there with anything in it.
LosePower ==
    /\ path' \in [Files -> UNION {kept[f] : f \in Files}]
    /\ \A f \in Files : path'[f] \in kept[f]
    /\ kept' = [f \in Files |-> {path'[f]}]
    /\ tmp' \in {t \in [Files -> {Missing, Torn}] :
                    \A f \in Files : tmp[f] = Missing => t[f] = Missing}
    /\ synced' = [f \in Files |-> FALSE]
    /\ Return

Succeed == Create \/ WriteAll \/ SyncData \/ Rename \/ SyncDir
Failing == CreateFails \/ WriteFails \/ SyncFails \/ RenameFails \/ SyncDirFails

\* The files and their one writer, whatever it writes.
FileNext ==
    \/ \E f \in Files, c \in Contents : Begin(f, c)
    \/ \E f \in Files : Remove(f)
    \/ Succeed \/ Failing \/ Die \/ LosePower
FileSpec == FileInit /\ [][FileNext]_fileVars

-----------------------------------------------------------------------------
\* "A reader never observes a partial file" (atomic.rs): the files are
\* registers that change in one step and lose no more than what was not yet
\* settled when the power failed.
Register == INSTANCE AtomicRegister WITH val <- path, floor <- kept
AtomicFiles == Register!Spec
=============================================================================
