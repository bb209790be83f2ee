--------------------------- MODULE AtomicRegister ---------------------------
(***************************************************************************)
(* What the state files promise their readers                              *)
(* (workspace-storage/src/atomic.rs, module comment): a file is whole at   *)
(* every moment, whatever fails.  A file changes in one step; until that   *)
(* step is settled a loss of power may take it back to an earlier whole    *)
(* content, and never to anything else.                                    *)
(***************************************************************************)
CONSTANTS
    Files,
    Contents, \* whole contents
    Missing   \* no file

VARIABLES
    val,  \* what a reader of each file sees
    floor \* what each file may be after a loss of power
vars == <<val, floor>>

Whole == Contents \cup {Missing}

TypeOK ==
    /\ val \in [Files -> Whole]
    /\ floor \in [Files -> SUBSET Whole]
    /\ \A f \in Files : val[f] \in floor[f]

Init == val \in [Files -> Whole] /\ floor = [f \in Files |-> {val[f]}]

\* Replacing or removing a file.
Put(f, c) ==
    /\ val' = [val EXCEPT ![f] = c]
    /\ floor' = [floor EXCEPT ![f] = @ \cup {c}]

\* Before a write returns without an error.
Settle(f) ==
    /\ floor' = [floor EXCEPT ![f] = {val[f]}]
    /\ UNCHANGED val

PowerLoss ==
    /\ val' \in [Files -> Whole]
    /\ \A f \in Files : val'[f] \in floor[f]
    /\ floor' = [f \in Files |-> {val'[f]}]

Next ==
    \/ \E f \in Files, c \in Whole : Put(f, c)
    \/ \E f \in Files : Settle(f)
    \/ PowerLoss

Spec == Init /\ [][Next]_vars
=============================================================================
