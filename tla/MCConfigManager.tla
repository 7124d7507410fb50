--------------------------- MODULE MCConfigManager ---------------------------
(* Instances of ConfigManager for TLC.                                     *)
EXTENDS ConfigManager
=============================================================================
