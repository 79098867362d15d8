---------------------------- MODULE ServiceHealth ----------------------------
(***************************************************************************)
(* The availability streak of one service (service_health.py) and the      *)
(* search circuit breaker in front of it (index_proxy_health.py).  Both    *)
(* keep their state in the key-value table, one commit per key, so that a  *)
(* caller can be overtaken or interrupted between any two of them.  The    *)
(* index proxy is checked by the search task alone; the torrent client by  *)
(* all three tasks, and it has no breaker (Window = 0).                    *)
(* A stored timestamp is modelled by its age, which stops at the number of *)
(* ticks the code compares it with.                                        *)
(***************************************************************************)
EXTENDS Integers

CONSTANTS
  Callers,     \* the tasks that check this service
  Threshold,   \* *_alert_hours, in ticks; 0 turns the alert off
  Window,      \* circuit_open_minutes, in ticks; 0 turns the breaker off
  Faults       \* database errors and crashes happen

ASSUME ThresholdAssumption == Threshold \in Nat
ASSUME WindowAssumption    == Window \in Nat
ASSUME FaultsAssumption    == Faults \in BOOLEAN

VARIABLES
  up,          \* the service works, and has results
  since,       \* age of <prefix>.unavailable_since
  alertSent,   \* <prefix>.alert_sent is "1"
  failedAt,    \* age of <prefix>.search_failed_at
  caller,      \* what each task is doing in its check
  sent         \* alerts delivered for the streak on record (a history variable)

vars == <<up, since, alertSent, failedAt, caller, sent>>

Absent  == -1             \* the key is not in the table
SentCap == 2              \* bound on the count of alerts

Ages(limit) == {Absent} \cup (0..limit)
Steps == {"idle", "failed", "empty", "healthy", "read", "start", "flag", "send",
          "record", "delete", "clear"}
Idle  == [at |-> "idle", stamp |-> 0]
At(c, step) == [caller EXCEPT ![c].at = step]

Init ==
  /\ up \in BOOLEAN
  /\ since = Absent /\ alertSent = FALSE /\ failedAt = Absent
  /\ caller = [c \in Callers |-> Idle]
  /\ sent = 0

-----------------------------------------------------------------------------
(* The world: the service comes and goes, and time passes. *)

Toggle ==
  /\ up' = ~up
  /\ UNCHANGED <<since, alertSent, failedAt, caller, sent>>

Older(age, limit) == IF age = Absent \/ age = limit THEN age ELSE age + 1

Tick ==
  /\ since' = Older(since, Threshold)
  /\ failedAt' = Older(failedAt, Window)
  /\ caller' = [c \in Callers |-> IF caller[c].at = "start"
                                    THEN [caller[c] EXCEPT !.stamp = Older(@, Threshold)]
                                    ELSE caller[c]]
  /\ UNCHANGED <<up, alertSent, sent>>

-----------------------------------------------------------------------------
(* One check of the service by a task. *)

(* is_search_circuit_open *)
CircuitOpen == failedAt # Absent /\ failedAt < Window

SkippedIsFailure(c) ==         \* mutant: a skipped run counts as a failed one
  /\ caller[c].at = "idle"
  /\ \/ /\ CircuitOpen
        /\ caller' = At(c, "failed")
     \/ /\ ~CircuitOpen
        /\ \E seen \in IF up THEN {"healthy"} ELSE {"failed", "empty"} : caller' = At(c, seen)
  /\ UNCHANGED <<up, since, alertSent, failedAt, sent>>

(* A run that finds the circuit open ends there and checks nothing.  A     *)
(* service that is down cannot be reached, fails in a search, or has no    *)
(* results.                                                                *)
Observe(c) ==
  /\ caller[c].at = "idle"
  /\ ~CircuitOpen
  /\ \E seen \in IF up THEN {"healthy"} ELSE {"failed", "empty"} : caller' = At(c, seen)
  /\ UNCHANGED <<up, since, alertSent, failedAt, sent>>

(* record_search_failure, record_search_success; then check_service_health,*)
(* where _on_unhealthy returns at once when the alert is turned off.       *)
(* Without a window nothing depends on search_failed_at, and it is left    *)
(* out.                                                                    *)
RecordSearch(c) ==
  /\ caller[c].at \in {"failed", "empty", "healthy"}
  /\ failedAt' = IF caller[c].at = "failed" /\ Window > 0 THEN 0 ELSE Absent
  /\ caller' = At(c, IF caller[c].at = "healthy" THEN "delete"
                     ELSE IF Threshold > 0 THEN "read" ELSE "idle")
  /\ UNCHANGED <<up, since, alertSent, sent>>

RestartStreak(c) ==            \* mutant: every failed check starts the streak anew
  /\ caller[c].at = "read"
  /\ caller' = [caller EXCEPT ![c] = [at |-> "start", stamp |-> 0]]
  /\ UNCHANGED <<up, since, alertSent, failedAt, sent>>

(* kv_get of the streak start, and the clock.                              *)
ReadSince(c) ==
  /\ caller[c].at = "read"
  /\ \/ /\ since = Absent
        /\ caller' = [caller EXCEPT ![c] = [at |-> "start", stamp |-> 0]]
     \/ /\ since # Absent
        /\ caller' = At(c, IF since < Threshold THEN "idle" ELSE "flag")
  /\ UNCHANGED <<up, since, alertSent, failedAt, sent>>

StartStreak(c) ==
  /\ caller[c].at = "start"
  /\ since' = caller[c].stamp
  /\ caller' = [caller EXCEPT ![c] = Idle]
  /\ UNCHANGED <<up, alertSent, failedAt, sent>>

FlagIgnored(c) ==              \* mutant: alert_sent is not read
  /\ caller[c].at = "flag"
  /\ caller' = At(c, "send")
  /\ UNCHANGED <<up, since, alertSent, failedAt, sent>>

(* kv_get of alert_sent.                                                   *)
ReadFlag(c) ==
  /\ caller[c].at = "flag"
  /\ caller' = At(c, IF alertSent THEN "idle" ELSE "send")
  /\ UNCHANGED <<up, since, alertSent, failedAt, sent>>

(* send_service_alert returns True.                                        *)
Deliver(c) ==
  /\ caller[c].at = "send"
  /\ sent' = IF sent < SentCap THEN sent + 1 ELSE sent
  /\ caller' = At(c, "record")
  /\ UNCHANGED <<up, since, alertSent, failedAt>>

(* It returns False: the next check tries again.  The addressees are one   *)
(* here; of several, notifications.py:185-194 counts a group of addresses  *)
(* as not reached when any of them was not, though the others got the      *)
(* message.                                                                *)
NotDelivered(c) ==
  /\ caller[c].at = "send"
  /\ caller' = At(c, "idle")
  /\ UNCHANGED <<up, since, alertSent, failedAt, sent>>

RecordAlert(c) ==
  /\ caller[c].at = "record"
  /\ alertSent' = TRUE
  /\ caller' = At(c, "idle")
  /\ UNCHANGED <<up, since, failedAt, sent>>

(* _reset_streak: first the streak, then the flag.                         *)
DeleteSince(c) ==
  /\ caller[c].at = "delete"
  /\ since' = Absent
  /\ sent' = 0
  /\ caller' = At(c, "clear")
  /\ UNCHANGED <<up, alertSent, failedAt>>

FlagStays(c) ==                \* mutant: the reset forgets the flag
  /\ caller[c].at = "clear"
  /\ caller' = At(c, "idle")
  /\ UNCHANGED <<up, since, alertSent, failedAt, sent>>

DeleteFlag(c) ==
  /\ caller[c].at = "clear"
  /\ alertSent' = FALSE
  /\ caller' = At(c, "idle")
  /\ UNCHANGED <<up, since, failedAt, sent>>

(* A database error is swallowed by check_service_health, or movarr is     *)
(* restarted: the check ends where it was.                                 *)
Abort(c) ==
  /\ Faults
  /\ caller[c].at # "idle"
  /\ caller' = [caller EXCEPT ![c] = Idle]
  /\ UNCHANGED <<up, since, alertSent, failedAt, sent>>

Check(c) ==
  \/ Observe(c) \/ RecordSearch(c) \/ ReadSince(c) \/ StartStreak(c) \/ ReadFlag(c)
  \/ Deliver(c) \/ NotDelivered(c) \/ RecordAlert(c) \/ DeleteSince(c) \/ DeleteFlag(c)

Next == Toggle \/ Tick \/ \E c \in Callers : Check(c) \/ Abort(c)

Spec == Init /\ [][Next]_vars

(* Time passes and every task checks again and again.  The last conjuncts  *)
(* are about the world: not every notification is refused, and not every   *)
(* reset is interrupted at the same place, for ever.                       *)
FairSpec ==
  /\ Spec /\ WF_vars(Tick)
  /\ \A c \in Callers : /\ WF_vars(Check(c)) /\ SF_vars(Deliver(c))
                        /\ SF_vars(RecordSearch(c))
                        /\ SF_vars(DeleteSince(c)) /\ SF_vars(DeleteFlag(c))

-----------------------------------------------------------------------------
(* Every key holds a value the code stores.                                *)
TypeOK ==
  /\ up \in BOOLEAN
  /\ since \in Ages(Threshold)
  /\ alertSent \in BOOLEAN
  /\ failedAt \in Ages(Window)
  /\ caller \in [Callers -> [at : Steps, stamp : 0..Threshold]]
  /\ sent \in 0..SentCap

(* service_health.py:3: "fires a single apprise alert" per streak.         *)
SingleAlert == sent <= 1

(* service_health.py:5: the streak resets "allowing re-alerting on future  *)
(* outages".  A flag without a streak, except while it is being deleted,   *)
(* would silence the next outage.                                          *)
FlagFollowsStreak ==
  alertSent => since # Absent \/ \E c \in Callers : caller[c].at = "clear"

(* An outage that does not end is alerted, in spite of the runs that the   *)
(* circuit breaker skips and of notifications that fail.                   *)
OutageAlerted == Threshold > 0 => (<>[]~up => <>[](sent > 0))

(* The breaker lets the search through again.                              *)
CircuitCloses == CircuitOpen ~> ~CircuitOpen

(* Once the service stays up the table is clean again, whatever the tasks  *)
(* did to each other's keys and wherever they were interrupted: no stale   *)
(* flag silences a later outage for ever.                                  *)
TableHeals == <>[]up => <>[](since = Absent /\ ~alertSent)

(* service_health.py:3-5, as Outage states it: an alert comes no sooner    *)
(* than the threshold, once, and no failed check moves the start of the    *)
(* streak.                                                                 *)
Promise == INSTANCE Outage WITH age <- since, alerts <- sent

FollowsOutage == Promise!Spec

(* index_proxy_health.py:7: the circuit "opens for circuit_open_minutes".  *)
(* While it is open nothing starts its time anew, and nothing but time     *)
(* closes it: not the runs that it skips, nor a check that began before.   *)
BreakerRunsDown ==
  [][CircuitOpen => failedAt' \in {failedAt, failedAt + 1}]_vars
=============================================================================
