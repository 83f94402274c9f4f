CONSTANTS
  Carriers <- MC_Carriers
  MaxOtaMsgs <- MC_MaxOtaMsgs
SPECIFICATION FairSpec
INVARIANTS
  
  ActivatedOnlyIfProvisioned
PROPERTIES
  
  HelperPassEnds
CHECK_DEADLOCK FALSE
