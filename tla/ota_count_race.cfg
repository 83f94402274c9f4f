CONSTANTS
  Carriers <- MC_Carriers
  MaxOtaMsgs <- MC_MaxOtaMsgs
SPECIFICATION Spec
INVARIANT CountIsSinceReset
CHECK_DEADLOCK FALSE
