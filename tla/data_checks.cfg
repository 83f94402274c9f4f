CONSTANTS
  MaxPppd <- MC_MaxPppd
SPECIFICATION FairSpec
INVARIANT TypeOK
PROPERTIES
  LinkUpDetected
  LinkDownDetected
CHECK_DEADLOCK FALSE
