CONSTANTS
  MaxSessions <- MC_MaxSessions
SPECIFICATION FairSpec
INVARIANTS
  TypeOK
  HostViewConsistent
  ClosedForcesUnavailable
PROPERTY HostEventuallyConsistent
CHECK_DEADLOCK FALSE
