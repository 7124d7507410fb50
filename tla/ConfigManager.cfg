SPECIFICATION ManagerSpec
CONSTANTS
  Setting = {d, s1, s2}
  Factory = d
  Release = {r1, r2}
  Crashes = "anywhere"
  IOFails = TRUE
  MaxAsync = 2
INVARIANTS NoOldSettings SaveHeals
