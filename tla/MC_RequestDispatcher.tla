------------------------ MODULE MC_RequestDispatcher ------------------------
EXTENDS RequestDispatcher

\* The handlers whose completion discipline is checked to hold.
MC_Requests == DOMAIN Dispatch \ {"SMS_ACKNOWLEDGE", "DATA_CALL_LIST",
                                  "SIGNAL_STRENGTH"}
MC_MaxTok == 2

\* The handlers left out above, which complete a token twice.
MC_DoubleCompleters == {"SMS_ACKNOWLEDGE", "DATA_CALL_LIST", "SIGNAL_STRENGTH"}
=============================================================================
