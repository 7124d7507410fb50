SPECIFICATION FairSpec
\* A bounded number of entries, moves and connections.
CHECK_DEADLOCK FALSE
CONSTANTS
  Caller = {c1, c2}
  Level = {"INFO", "ERROR"}
  Client = {d1, d2}
  Capacity = 1
  Room = 1
  MaxEntries = 2
  MaxMoves = 1
INVARIANTS DashboardsFollow
PROPERTIES HubIsReleased
