---------------------------- MODULE MC_DataCall ----------------------------
EXTENDS DataCall

MC_MaxPppd == 2
=============================================================================
