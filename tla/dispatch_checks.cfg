CONSTANTS
  Requests <- MC_Requests
  MaxTok <- MC_MaxTok
SPECIFICATION FairSpec
INVARIANTS
  TypeOK
  CompletedAtMostOnce
PROPERTY EveryRequestCompleted
CHECK_DEADLOCK FALSE
