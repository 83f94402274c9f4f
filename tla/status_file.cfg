CONSTANTS
  MaxPppd <- MC_MaxPppd
SPECIFICATION Spec
INVARIANT StatusFileCurrent
CHECK_DEADLOCK FALSE
