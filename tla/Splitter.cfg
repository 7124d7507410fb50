SPECIFICATION SplitterSpec
\* The stream is bounded.
CHECK_DEADLOCK FALSE
CONSTANTS
  MaxPendingBytes = 4
  MaxChunk = 3
  MaxStream = 9
INVARIANTS ChunksDoNotMatter FramesAreWhole
