---------------------------- MODULE MCDeviceLife ----------------------------
(* Instances of DeviceLife for TLC. *)
EXTENDS DeviceLife, TLC

Symmetry == Permutations(Vms)
=============================================================================
