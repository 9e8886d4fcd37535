---------------------------- MODULE MCCsfSubmit ----------------------------
(* Instances of CsfSubmit for TLC. *)
EXTENDS CsfSubmit, TLC

GroupSymmetry == Permutations(Groups)
============================================================================
