CONSTANTS
  MaxSessions <- MC_MaxSessions
SPECIFICATION Spec
INVARIANT NotifyPerChange
CHECK_DEADLOCK FALSE
