SPECIFICATION TimeSignalSpec
\* The clock is bounded, and a client comes once.
CHECK_DEADLOCK FALSE
CONSTANTS
  Stream = {s1, s2}
  Lang = {"ja", "en"}
  Installed = {"open_jtalk", "espeak"}
  WAVs <- MCWAVs
  SynthTimeout = 5
  Begin = 86391
  End = 86405
  FullScale = 127
  Silence = 1
SYMMETRY Symmetry
INVARIANTS MixNeverClips
PROPERTIES MarksInOrder CachedPhraseStays
