----------------------------- MODULE MCFrameStore -----------------------------
(* Instances of FrameStore for TLC.                                        *)
EXTENDS FrameStore
=============================================================================
