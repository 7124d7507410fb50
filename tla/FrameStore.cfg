SPECIFICATION FairSpec
\* Frames are bounded, and every viewer may have left.
CHECK_DEADLOCK FALSE
CONSTANTS
  Viewer = {v1, v2}
  MaxFrames = 4
  MaxChans = 7
INVARIANTS NoLostWakeup OpenChannel
PROPERTIES ViewersCatchUp
