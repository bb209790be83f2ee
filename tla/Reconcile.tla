------------------------------ MODULE Reconcile ------------------------------
(***************************************************************************)
(* Matching the slots of a project with live windows before a restore      *)
(* (workspace-core/src/restore.rs, identity_score and reconcile; the       *)
(* candidates are those StateActor::project_restore passes).               *)
(*                                                                         *)
(* Slots and windows are numbered in the order the code visits them: slots *)
(* as the project lists them, windows by address.  What an identity and a  *)
(* window agree on is the input; strings, paths and patterns are left out. *)
(***************************************************************************)
EXTENDS Naturals, FiniteSets

CONSTANTS
  Identities, \* positions of the app slots in the project
  Windows,    \* positions of the tracked windows
  Evidences,  \* what an identity and a window may agree on
  Owners      \* whose a window may be: "this" project's, "other" or "none"

ASSUME OrderAssumption == Identities \subseteq Nat /\ Windows \subseteq Nat
ASSUME EvidencesAssumption ==
  Evidences \subseteq [exe : BOOLEAN, class : BOOLEAN, initial : BOOLEAN, title : BOOLEAN]
ASSUME OwnersAssumption == Owners \subseteq {"this", "other", "none"}

VARIABLES
  agree,    \* (slot, window) -> what they agree on
  here,     \* windows on the project's own workspaces
  owner,    \* the project a window is assigned to
  pairs,    \* the scored pairs not yet visited
  matched,  \* Reconciliation.matched
  done      \* the sorted list is exhausted

matchVars == <<agree, here, owner, pairs, matched, done>>

-----------------------------------------------------------------------------
(* Scores *)

Points(e, field, n) == IF e[field] THEN n ELSE 0

Score(p) == Points(agree[p], "exe", 100) + Points(agree[p], "class", 50)
              + Points(agree[p], "initial", 40) + Points(agree[p], "title", 10)

Scored(p) == Score(p) >= 50

\* The order of pairs.sort_by_key: best score first, then slot, then window.
Earlier(p, q) == p[1] < q[1] \/ (p[1] = q[1] /\ p[2] < q[2])
\* mutant: worst score first
Ascends(p, q)  == Score(p) < Score(q) \/ (Score(p) = Score(q) /\ Earlier(p, q))
Precedes(p, q) == Score(p) > Score(q) \/ (Score(p) = Score(q) /\ Earlier(p, q))

-----------------------------------------------------------------------------
(* The algorithm *)

\* Only windows on the project's workspaces are candidates, whoever owns them.
Candidates == Windows \cap here

MatchInit ==
  /\ agree \in [Identities \X Windows -> Evidences]
  /\ here \in SUBSET Windows
  /\ owner \in [Windows -> Owners]
  /\ pairs = {p \in Identities \X Candidates : Scored(p)}
  /\ matched = {}
  /\ done = FALSE

\* mutant: only slots are marked
TakenSlot(p) == \E m \in matched : m[1] = p[1]

\* A pair whose slot or window went to an earlier one is passed over.
Taken(p) == \E m \in matched : m[1] = p[1] \/ m[2] = p[2]

Paired(p) == matched \cup {p}

Visit ==
  /\ \E p \in pairs :
       /\ \A q \in pairs \ {p} : Precedes(p, q)
       /\ pairs' = pairs \ {p}
       /\ matched' = IF Taken(p) THEN matched ELSE Paired(p)
  /\ UNCHANGED <<agree, here, owner, done>>

MatchEnd ==
  /\ pairs = {} /\ ~done
  /\ done' = TRUE
  /\ UNCHANGED <<agree, here, owner, pairs, matched>>

MatchNext == Visit \/ MatchEnd

MatchSpec == MatchInit /\ [][MatchNext]_matchVars

-----------------------------------------------------------------------------
(* Properties *)

MatchTypeOK ==
  /\ agree \in [Identities \X Windows -> Evidences]
  /\ here \subseteq Windows
  /\ owner \in [Windows -> Owners]
  /\ pairs \subseteq Identities \X Windows
  /\ matched \subseteq Identities \X Windows
  /\ done \in BOOLEAN

\* "Each window satisfies at most one slot", and each slot has one window.
OneToOne == \A m, n \in matched : m[1] = n[1] \/ m[2] = n[2] => m = n

\* Best score first: a pair that could match but does not lost its slot or its
\* window to a pair that scores at least as high.  In particular no missing
\* slot and no window left over could still be matched with each other.
NoBetterPairLost ==
  done => \A p \in Identities \X Candidates : Scored(p) =>
            \E m \in matched : /\ m[1] = p[1] \/ m[2] = p[2]
                               /\ Score(m) >= Score(p)

\* A window is not taken for a slot on its initial class or its title alone.
EnoughEvidence ==
  \A m \in matched : \/ agree[m].exe
                     \/ agree[m].class
                     \/ agree[m].initial /\ agree[m].title
=============================================================================
