------------------------------ MODULE Lifecycle ------------------------------
(***************************************************************************)
(* What the history table promises about one index title, whatever the     *)
(* interleaving of the tasks, the crashes and the failed calls behind it:  *)
(* a title is decided once, from no row to Failed or to Passed; only a     *)
(* title that was queued can stall or complete; a verdict is forgotten     *)
(* only by expiry; and a Completed title stays Completed for good          *)
(* (docs/specs/2026-05-03-torrent-status-tracking-design.md:34: "permanent *)
(* — never retried").                                                      *)
(***************************************************************************)
CONSTANTS Titles
VARIABLE status      \* per title, the result column of its row, or "None"

Verdicts == {"None", "Failed", "Passed", "Stalled", "Completed"}

Init == status = [t \in Titles |-> "None"]

(* The search task decides a title it has never seen, or has forgotten.    *)
Decide(t) ==
  /\ status[t] = "None"
  /\ \E v \in {"Failed", "Passed"} : status' = [status EXCEPT ![t] = v]

(* The fate of a queued torrent is recorded.  One that was given up as     *)
(* Stalled may be there yet, and complete.                                 *)
Settle(t) ==
  /\ status[t] \in {"Passed", "Stalled"}
  /\ \E v \in {"Stalled", "Completed"} : status' = [status EXCEPT ![t] = v]

(* Verdicts that are due are forgotten, several at a time.                 *)
Forget(S) ==
  /\ \A t \in S : status[t] \in {"Failed", "Passed", "Stalled"}
  /\ status' = [t \in Titles |-> IF t \in S THEN "None" ELSE status[t]]

Next ==
  \/ \E t \in Titles : Decide(t) \/ Settle(t)
  \/ \E S \in SUBSET Titles : Forget(S)

Spec == Init /\ [][Next]_status
=============================================================================
