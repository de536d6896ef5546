---------------------------- MODULE MCProbeQueue ----------------------------
(* ProbeQueue on a small instance *)
EXTENDS ProbeQueue, TLC

Symmetry == Permutations(Processes)
=============================================================================
