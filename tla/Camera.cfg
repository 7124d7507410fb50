SPECIFICATION Spec
\* Revisions are bounded: in the end no request is made any more.
CHECK_DEADLOCK FALSE
CONSTANTS
  Profile = {p1, p2}
  Default = {p1}
  Caller = {c1, c2}
  Ops = {"create", "update", "delete", "reset"}
  SaveFails = TRUE
  MaxRev = 3
  MaxEnded = 1
SYMMETRY Symmetry
INVARIANTS RestMatchesConfig StreamHasCurrentSettings
