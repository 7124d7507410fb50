------------------------------ MODULE MCCamera ------------------------------
(* Instances of Camera for TLC.                                            *)
EXTENDS Camera, TLC

Symmetry == Permutations(Caller)
=============================================================================
