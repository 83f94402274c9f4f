--------------------------- MODULE MC_RadioSession ---------------------------
(* Instantiates RadioSession for TLC: two attaches, so one channel fault    *)
(* and one re-attach, is enough for every close/reopen interleaving.       *)
EXTENDS RadioSession

MC_MaxSessions == 2
=============================================================================
