---------------------------- MODULE MCGpuMemory ----------------------------
(* Instances of GpuMemory for TLC. *)
EXTENDS GpuMemory, TLC
=============================================================================
