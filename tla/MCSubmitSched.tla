--------------------------- MODULE MCSubmitSched ---------------------------
(* Instances of SubmitSched for TLC. *)
EXTENDS SubmitSched, TLC

CallerSymmetry == Permutations(Callers)
============================================================================
