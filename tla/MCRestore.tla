------------------------------ MODULE MCRestore ------------------------------
(* Small projects for Restore. *)
EXTENDS Restore, TLC

CONSTANTS r1, r2, db, api, ui, tool, lost, other, x, y, z, w1, w2, w3

\* A slot that waits for a window.
Window(r, n, after, k, wants) ==
  [run |-> r, name |-> n, label |-> n, after |-> after, wave |-> k,
   readiness |-> "window", wants |-> wants, launchable |-> TRUE]

\* A slot with a probe, two windows of one class after it, and one that runs
\* without waiting after both; in another run, a window of the same class after
\* a slot that cannot be launched.
DiamondSlots ==
  db    :> [Window(r1, x, {}, 1, {}) EXCEPT !.readiness = "command"] @@
  api   :> Window(r1, y, {x}, 2, {w1, w2}) @@
  ui    :> [Window(r1, z, {x}, 2, {w1, w2}) EXCEPT !.name = NULL] @@
  tool  :> [Window(r1, tool, {y, x}, 3, {}) EXCEPT !.readiness = "delay"] @@
  lost  :> [Window(r2, y, {}, 1, {}) EXCEPT !.launchable = FALSE] @@
  other :> Window(r2, x, {y}, 2, {w1, w2})

\* TLC computes a definition without parameters once, but what a .cfg gives a
\* constant anew at every use; hence the two names.
Diamond == DiamondSlots

Pairs == {<<api, w1>>, <<api, w2>>, <<ui, w1>>}
=============================================================================
