----------------------------- MODULE MCSyncObj -----------------------------
(* Instances of SyncObj for TLC. *)
EXTENDS SyncObj, TLC

SignallerSymmetry == Permutations(Signallers)
============================================================================
