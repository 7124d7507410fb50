SPECIFICATION FairSpec
CONSTANTS
  Lo <- MCLo
  Hi = 2
  NaN = NaN
  MaxMoves = 3
  MaxPending = 1
INVARIANTS MovingHasLoop PersistsCurrent
PROPERTIES StoppedStaysPut OldLoopsEnd MoveArrives
