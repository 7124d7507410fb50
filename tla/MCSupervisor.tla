---------------------------- MODULE MCSupervisor ----------------------------
(* Instances of Supervisor for TLC.                                        *)
EXTENDS SupervisorRefinement, TLC

Symmetry == Permutations(Profile)
=============================================================================
