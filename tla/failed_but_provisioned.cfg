CONSTANTS
  Carriers <- MC_Carriers
  MaxOtaMsgs <- MC_MaxOtaMsgs
SPECIFICATION Spec
INVARIANT FailedOnlyIfUnprovisioned
CHECK_DEADLOCK FALSE
