CONSTANTS
  MaxSessions <- MC_MaxSessions
SPECIFICATION Spec
INVARIANT UnavailableOnlyWhenClosed
CHECK_DEADLOCK FALSE
