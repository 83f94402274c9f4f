CONSTANTS
  Requests <- MC_DoubleCompleters
  MaxTok <- MC_MaxTok
SPECIFICATION Spec
INVARIANT CompletedAtMostOnce
CHECK_DEADLOCK FALSE
