----------------------------- MODULE MCAsSlots -----------------------------
(* Instances of AsSlots for TLC. *)
EXTENDS AsSlots, TLC

ThreadSymmetry == Permutations(Threads)
VmSymmetry     == Permutations(Vms)
Symmetry       == ThreadSymmetry \cup VmSymmetry
============================================================================
