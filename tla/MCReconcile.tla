----------------------------- MODULE MCReconcile -----------------------------
(* Small projects and window sets for Reconcile. *)
EXTENDS Reconcile

Agreement(fields) == [f \in {"exe", "class", "initial", "title"} |-> f \in fields]

\* Every score on either side of the threshold and of a tie: 0, 10, 40, 50 in
\* two ways, 100 in two ways.
Telling == {Agreement(fs) : fs \in {{}, {"title"}, {"initial"}, {"class"},
             {"initial", "title"}, {"exe"}, {"class", "initial", "title"}}}
=============================================================================
