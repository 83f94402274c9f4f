---------------------------- MODULE MC_Activation ----------------------------
EXTENDS Activation

MC_Carriers == {"sprint", "vzw", "other"}
MC_MaxOtaMsgs == 6

=============================================================================
