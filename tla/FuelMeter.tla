------------------------------ MODULE FuelMeter -----------------------------
(***************************************************************************)
(* What a store promises about fuel, whichever backend keeps it: a tank    *)
(* that is filled by the host, or by a handler on its behalf, and is only  *)
(* drained while guest code runs.  Draining takes what is there and never  *)
(* more; a tank may also be bottomless.                                    *)
(***************************************************************************)
EXTENDS Integers

CONSTANTS Budgets,        \* amounts the host may fill in
          Unlimited       \* no metering

VARIABLES remaining,      \* what remaining_fuel reports
          guest           \* guest code is running

\* Fuel is charged, by the guest's code or by a handler.
Drain ==
  /\ remaining # Unlimited
  /\ remaining' \in 0 .. remaining

\* A new budget replaces whatever was left; never in a step of guest code.
Fill ==
  /\ ~guest
  /\ remaining' \in Budgets

Init == remaining \in Budgets /\ guest = FALSE

Next == Drain \/ Fill \/ UNCHANGED remaining

Spec == Init /\ [][Next]_<<remaining, guest>>
=============================================================================
