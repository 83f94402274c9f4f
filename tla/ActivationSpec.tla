--------------------------- MODULE ActivationSpec ---------------------------
(***************************************************************************)
(* What the activation workflow promises (spec 3 and 4.6): the module      *)
(* starts NotActivated; each over-the-air attempt spends one unit of a     *)
(* budget that is never replenished; the outcome moves once, to Activated  *)
(* or, only when the budget is spent, to Failed, and never changes again.  *)
(***************************************************************************)
EXTENDS Naturals

CONSTANT Budget    \* OTA attempts allowed in a process lifetime

VARIABLES status, tries

States == {"NotActivated", "Activated", "Failed"}

TypeOK == status \in States /\ tries \in 0..Budget

Init == status = "NotActivated" /\ tries = 0

\* One more OTA call, while unresolved and within budget.
Attempt ==
  /\ status = "NotActivated"
  /\ tries < Budget
  /\ tries' = tries + 1
  /\ UNCHANGED status

Activate ==
  /\ status = "NotActivated"
  /\ status' = "Activated"
  /\ UNCHANGED tries

GiveUp ==
  /\ status = "NotActivated"
  /\ tries = Budget
  /\ status' = "Failed"
  /\ UNCHANGED tries

Next == Attempt \/ Activate \/ GiveUp

Spec == Init /\ [][Next]_<<status, tries>>

=============================================================================
