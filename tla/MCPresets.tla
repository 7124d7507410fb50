------------------------------ MODULE MCPresets ------------------------------
(* Instances of Presets for TLC.                                           *)
EXTENDS Presets, TLC

Symmetry == Permutations(Caller)
=============================================================================
