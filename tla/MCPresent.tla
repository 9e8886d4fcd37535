------------------------------ MODULE MCPresent ------------------------------
(* Instances of Present for TLC. *)
EXTENDS Present, TLC

MCSizes   == {<<1, 2>>, <<2, 1>>, <<3, 2>>}
MCCorners == {<<0, 0>>, <<1, 0>>, <<0, 1>>}
Symmetry  == Permutations(Buffers)
=============================================================================
