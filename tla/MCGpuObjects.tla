---------------------------- MODULE MCGpuObjects ----------------------------
(* Instances of GpuObjects for TLC. *)
EXTENDS GpuObjects, TLC

Symmetry == Permutations(Threads)
=============================================================================
