SPECIFICATION FairSpec
\* Every session may be gone in the end.
CHECK_DEADLOCK FALSE
CONSTANTS
  Session = {s1, s2, s3}
  Token = {t1, t2}
  None = None
INVARIANTS ServedXorClosed ServedStreamHasPublisher PacketsStayWithToken ReadersArePlaying
PROPERTIES ReadersLeaveDeadStream
