-------------------------------- MODULE MCPtz --------------------------------
(* Instances of Ptz for TLC.  The coordinates that the configuration file   *)
(* cannot write, negative numbers, are given here.                          *)
EXTENDS Ptz

MCLo == -2
=============================================================================
