CONSTANTS
  MaxPppd <- MC_MaxPppd
SPECIFICATION Spec
INVARIANT AtMostOnePppd
CHECK_DEADLOCK FALSE
