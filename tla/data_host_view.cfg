CONSTANTS
  MaxPppd <- MC_MaxPppd
SPECIFICATION Spec
INVARIANT HostDataViewConsistent
CHECK_DEADLOCK FALSE
