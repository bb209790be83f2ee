--------------------------- MODULE RestoreContract ---------------------------
(***************************************************************************)
(* What a restore run promises, whatever windows open and whatever fails:  *)
(* every slot it has to launch gets one verdict, after the slots it waits  *)
(* for; a slot is ready only if none of those went bad; a window stands    *)
(* for one slot of the run; and the run ends when all verdicts are in.     *)
(***************************************************************************)
CONSTANTS
  Runs,     \* restore runs
  Slots,    \* app slots of all runs
  Owner,    \* the run a slot belongs to
  Prior,    \* the slots a slot waits for
  Windows,  \* windows that may stand for a slot
  NULL      \* no window

VARIABLES
  outcome,  \* per slot: "open", "ready", "bad", or "left" when it cannot be launched
  holds,    \* per slot: the window that stands for it
  ended     \* per run

vars == <<outcome, holds, ended>>

Free(r, w) == \A t \in Slots : Owner[t] = r => holds[t] # w

Init ==
  /\ outcome \in [Slots -> {"open", "ready", "left"}]
  /\ holds \in [Slots -> Windows \cup {NULL}]
  /\ \A s \in Slots : outcome[s] # "ready" => holds[s] = NULL
  /\ \A s, t \in Slots : /\ s # t /\ Owner[s] = Owner[t]
                         /\ holds[s] # NULL
                         => holds[s] # holds[t]
  /\ ended = [r \in Runs |-> FALSE]

Due(s) == /\ ~ended[Owner[s]] /\ outcome[s] = "open"
          /\ \A d \in Prior[s] : outcome[d] # "open"

BecomeReady(s) ==
  /\ Due(s) /\ \A d \in Prior[s] : outcome[d] # "bad"
  /\ \E w \in Windows \cup {NULL} :
       /\ w # NULL => Free(Owner[s], w)
       /\ holds' = [holds EXCEPT ![s] = w]
  /\ outcome' = [outcome EXCEPT ![s] = "ready"]
  /\ UNCHANGED ended

GoBad(s) ==
  /\ Due(s)
  /\ outcome' = [outcome EXCEPT ![s] = "bad"]
  /\ UNCHANGED <<holds, ended>>

End(r) ==
  /\ ~ended[r] /\ \A s \in Slots : Owner[s] = r => outcome[s] # "open"
  /\ ended' = [ended EXCEPT ![r] = TRUE]
  /\ UNCHANGED <<outcome, holds>>

Next == \/ \E s \in Slots : BecomeReady(s) \/ GoBad(s)
        \/ \E r \in Runs : End(r)

Spec == Init /\ [][Next]_vars
=============================================================================
