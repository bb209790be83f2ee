-------------------------- MODULE DocumentedClaims --------------------------
(* What the repository's documents say about the state actor and the model   *)
(* of its code does not do; a run finds the shortest behaviour against it.   *)
EXTENDS MCStateActor

\* "... so a daemon restart keeps assignments" (architecture.md:70): until the
\* windows are known, runtime.json keeps the assignments it was loaded with
\* whose projects are still there.  Any save before the first hydration drops
\* them.
KeptUntilHydrated ==
  ~hydrated => {e \in recovery.saved : e.project \in SlugsOf(projects)} \subseteq runtime.saved
=============================================================================
