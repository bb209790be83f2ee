---------------------------- MODULE MCLaunchWaves ----------------------------
(* Small projects for LaunchWaves. *)
EXTENDS LaunchWaves

CONSTANT MaxAfter   \* longest list of names a slot launches after

Lists == UNION {[1..n -> Names] : n \in 0..MaxAfter}
=============================================================================
