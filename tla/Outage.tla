-------------------------------- MODULE Outage --------------------------------
(***************************************************************************)
(* What service_health.py promises about a service: an outage has a start  *)
(* that nothing moves, an alert is fired once, when the outage is as old   *)
(* as the threshold, and the end of it forgets both, "allowing re-alerting *)
(* on future outages" (service_health.py:5).                               *)
(***************************************************************************)
EXTENDS Naturals

CONSTANTS Threshold, Absent
VARIABLES age, alerts       \* of the outage on record; Absent without one

vars == <<age, alerts>>

Init == age = Absent /\ alerts = 0

(* The clock was read a while before the start is stored.                  *)
Begin == age = Absent /\ age' \in 0..Threshold /\ UNCHANGED alerts

Pass == age # Absent /\ age < Threshold /\ age' = age + 1 /\ UNCHANGED alerts

Alert == age = Threshold /\ alerts = 0 /\ alerts' = 1 /\ UNCHANGED age

End == age' = Absent /\ alerts' = 0

Next == Begin \/ Pass \/ Alert \/ End

Spec == Init /\ [][Next]_vars
=============================================================================
