---------------------------- MODULE MCRtspServer ----------------------------
(* Instances of RtspServer for TLC.                                        *)
EXTENDS RtspServer

=============================================================================
