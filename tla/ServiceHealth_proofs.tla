------------------------- MODULE ServiceHealth_proofs -------------------------
(***************************************************************************)
(* Proofs about ServiceHealth, for every threshold and every window.  Type *)
(* correctness holds for every set of callers.  That an outage is alerted  *)
(* once needs a single caller whose checks are not interrupted, which is   *)
(* how the index proxy is used: with several, two of them can read that no *)
(* alert was sent before either records one.                               *)
(***************************************************************************)
EXTENDS ServiceHealth, TLAPS

(* One action per line of Next, for a caller c.                            *)
LEMMA StepCases ==
  ASSUME [Next]_vars
  PROVE  \/ UNCHANGED vars \/ Toggle \/ Tick
         \/ \E c \in Callers : Check(c) \/ Abort(c)
BY DEF Next

LEMMA OlderType ==
  ASSUME NEW limit \in Nat, NEW age \in Ages(limit)
  PROVE  /\ Older(age, limit) \in Ages(limit)
         /\ age # Absent => Older(age, limit) # Absent /\ Older(age, limit) \in 0..limit
         /\ age = Absent => Older(age, limit) = Absent
BY DEF Ages, Older, Absent

LEMMA TickType ==
  ASSUME TypeOK, Tick
  PROVE  TypeOK'
<1>1. since' \in Ages(Threshold) /\ failedAt' \in Ages(Window)
  BY OlderType, ThresholdAssumption, WindowAssumption DEF TypeOK, Tick
<1>2. ASSUME NEW c \in Callers
      PROVE  [caller[c] EXCEPT !.stamp = Older(@, Threshold)]
               \in [at : Steps, stamp : 0..Threshold]
  <2>1. caller[c].stamp \in 0..Threshold
    BY DEF TypeOK
  <2>2. Older(caller[c].stamp, Threshold) \in 0..Threshold
    BY <2>1, OlderType, ThresholdAssumption DEF Ages, Absent
  <2> QED  BY <2>2 DEF TypeOK
<1>3. caller' \in [Callers -> [at : Steps, stamp : 0..Threshold]]
  BY <1>2 DEF TypeOK, Tick
<1> QED  BY <1>1, <1>3 DEF TypeOK, Tick

LEMMA AtType ==
  ASSUME TypeOK, NEW c \in Callers
  PROVE  /\ \A step \in Steps : At(c, step) \in [Callers -> [at : Steps, stamp : 0..Threshold]]
         /\ [caller EXCEPT ![c] = Idle] \in [Callers -> [at : Steps, stamp : 0..Threshold]]
         /\ [caller EXCEPT ![c] = [at |-> "start", stamp |-> 0]]
              \in [Callers -> [at : Steps, stamp : 0..Threshold]]
BY ThresholdAssumption DEF TypeOK, At, Idle, Steps

LEMMA CheckType ==
  ASSUME TypeOK, NEW c \in Callers, Check(c)
  PROVE  TypeOK'
<1>1. CASE Observe(c)
  BY <1>1, AtType DEF Observe, TypeOK, Steps
<1>2. CASE RecordSearch(c)
  <2>1. failedAt' \in Ages(Window)
    BY <1>2, WindowAssumption DEF RecordSearch, Ages
  <2>2. caller' \in [Callers -> [at : Steps, stamp : 0..Threshold]]
    <3>1. \E step \in {"delete", "read", "idle"} : caller' = At(c, step)
      BY <1>2 DEF RecordSearch
    <3> QED  BY <3>1, AtType DEF Steps
  <2> QED  BY <1>2, <2>1, <2>2 DEF RecordSearch, TypeOK
<1>3. CASE ReadSince(c)
  <2>1. caller' \in [Callers -> [at : Steps, stamp : 0..Threshold]]
    <3>1. \/ caller' = [caller EXCEPT ![c] = [at |-> "start", stamp |-> 0]]
          \/ \E step \in {"idle", "flag"} : caller' = At(c, step)
      BY <1>3 DEF ReadSince
    <3>2. CASE caller' = [caller EXCEPT ![c] = [at |-> "start", stamp |-> 0]]
      BY <3>2, AtType
    <3>3. ASSUME NEW step \in {"idle", "flag"}, caller' = At(c, step)
          PROVE  caller' \in [Callers -> [at : Steps, stamp : 0..Threshold]]
      BY <3>3, AtType DEF Steps
    <3> QED  BY <3>1, <3>2, <3>3
  <2> QED  BY <1>3, <2>1 DEF ReadSince, TypeOK
<1>4. CASE StartStreak(c)
  <2>1. caller[c].stamp \in Ages(Threshold)
    BY DEF TypeOK, Ages
  <2> QED  BY <1>4, <2>1, AtType DEF StartStreak, TypeOK
<1>5. CASE ReadFlag(c)
  BY <1>5, AtType DEF ReadFlag, TypeOK, Steps
<1>6. CASE Deliver(c)
  BY <1>6, AtType DEF Deliver, TypeOK, Steps, SentCap
<1>7. CASE NotDelivered(c)
  BY <1>7, AtType DEF NotDelivered, TypeOK, Steps
<1>8. CASE RecordAlert(c)
  BY <1>8, AtType DEF RecordAlert, TypeOK, Steps
<1>9. CASE DeleteSince(c)
  BY <1>9, AtType DEF DeleteSince, TypeOK, Steps, Ages, SentCap
<1>10. CASE DeleteFlag(c)
  BY <1>10, AtType DEF DeleteFlag, TypeOK, Steps
<1> QED
  BY <1>1, <1>2, <1>3, <1>4, <1>5, <1>6, <1>7, <1>8, <1>9, <1>10 DEF Check

LEMMA NextType ==
  ASSUME TypeOK, [Next]_vars
  PROVE  TypeOK'
<1>1. CASE UNCHANGED vars
  BY <1>1 DEF vars, TypeOK
<1>2. CASE Toggle
  BY <1>2 DEF Toggle, TypeOK
<1>3. ASSUME NEW c \in Callers, Abort(c)
      PROVE  TypeOK'
  BY <1>3, AtType DEF Abort, TypeOK
<1> QED  BY StepCases, <1>1, <1>2, <1>3, TickType, CheckType

LEMMA InitType ==
  ASSUME Init
  PROVE  TypeOK
<1>1. Idle \in [at : Steps, stamp : 0..Threshold]
  BY ThresholdAssumption DEF Idle, Steps
<1>2. Absent \in Ages(Threshold) /\ Absent \in Ages(Window) /\ 0 \in 0..SentCap
  BY DEF Ages, SentCap
<1> QED  BY <1>1, <1>2 DEF Init, TypeOK

(* Every key holds a value the code stores, for any number of callers,     *)
(* with and without interruptions.                                         *)
THEOREM HealthTypes == Spec => []TypeOK
BY InitType, NextType, PTL DEF Spec

-----------------------------------------------------------------------------
(* A single caller. *)

(* An alert counted for the streak is recorded, or is about to be; a check *)
(* that may alert has seen the streak and has not seen the flag.           *)
SingleInv(me) ==
  /\ sent \in {0, 1}
  /\ sent = 1 => alertSent \/ caller[me].at = "record"
  /\ caller[me].at = "send" => ~alertSent
  /\ caller[me].at = "record" => sent = 1
  /\ caller[me].at = "clear" => sent = 0
  /\ caller[me].at \in {"flag", "send", "record"} => since # Absent
  /\ alertSent => since # Absent \/ caller[me].at = "clear"

LEMMA AtOf ==
  ASSUME TypeOK, NEW c \in Callers
  PROVE  /\ \A step : At(c, step)[c].at = step
         /\ [caller EXCEPT ![c] = Idle][c].at = "idle"
         /\ [caller EXCEPT ![c] = [at |-> "start", stamp |-> 0]][c].at = "start"
BY DEF TypeOK, At, Idle

LEMMA SingleCheck ==
  ASSUME TypeOK, NEW me \in Callers, SingleInv(me), Check(me)
  PROVE  SingleInv(me)'
<1> USE DEF SingleInv
<1>1. CASE Observe(me)
  BY <1>1, AtOf DEF Observe
<1>2. CASE RecordSearch(me)
  BY <1>2, AtOf DEF RecordSearch
<1>3. CASE ReadSince(me)
  <2>1. CASE since = Absent /\ caller' = [caller EXCEPT ![me] = [at |-> "start", stamp |-> 0]]
    BY <1>3, <2>1, AtOf DEF ReadSince
  <2>2. CASE since # Absent /\ caller' = At(me, "idle")
    BY <1>3, <2>2, AtOf DEF ReadSince
  <2>3. CASE since # Absent /\ caller' = At(me, "flag")
    BY <1>3, <2>3, AtOf DEF ReadSince
  <2> QED  BY <1>3, <2>1, <2>2, <2>3 DEF ReadSince
<1>4. CASE StartStreak(me)
  <2>1. caller[me].stamp # Absent
    BY DEF TypeOK, Absent
  <2> QED  BY <1>4, <2>1, AtOf DEF StartStreak
<1>5. CASE ReadFlag(me)
  <2>1. CASE alertSent /\ caller' = At(me, "idle")
    BY <1>5, <2>1, AtOf DEF ReadFlag
  <2>2. CASE ~alertSent /\ caller' = At(me, "send")
    BY <1>5, <2>2, AtOf DEF ReadFlag
  <2> QED  BY <1>5, <2>1, <2>2 DEF ReadFlag
<1>6. CASE Deliver(me)
  BY <1>6, AtOf DEF Deliver, SentCap
<1>7. CASE NotDelivered(me)
  BY <1>7, AtOf DEF NotDelivered
<1>8. CASE RecordAlert(me)
  BY <1>8, AtOf DEF RecordAlert
<1>9. CASE DeleteSince(me)
  BY <1>9, AtOf DEF DeleteSince
<1>10. CASE DeleteFlag(me)
  BY <1>10, AtOf DEF DeleteFlag
<1> QED
  BY <1>1, <1>2, <1>3, <1>4, <1>5, <1>6, <1>7, <1>8, <1>9, <1>10 DEF Check

LEMMA SingleStep ==
  ASSUME TypeOK, NEW me, Callers = {me}, ~Faults, SingleInv(me), [Next]_vars
  PROVE  SingleInv(me)'
<1>1. CASE UNCHANGED vars
  BY <1>1 DEF vars, SingleInv
<1>2. CASE Toggle
  BY <1>2 DEF Toggle, SingleInv
<1>3. CASE Tick
  <2>1. since # Absent => since' # Absent
    BY <1>3, OlderType, ThresholdAssumption DEF Tick, TypeOK
  <2>2. caller'[me].at = caller[me].at
    BY <1>3 DEF Tick, TypeOK
  <2> QED  BY <1>3, <2>1, <2>2 DEF Tick, SingleInv
<1>4. ~Abort(me)
  BY DEF Abort
<1> QED  BY StepCases, <1>1, <1>2, <1>3, <1>4, SingleCheck

(* With one caller that is not interrupted, the code fires at most one     *)
(* alert per streak, and never leaves a flag that would silence the alert  *)
(* of the next one.                                                        *)
THEOREM SingleCaller ==
  ASSUME NEW me, Callers = {me}, ~Faults
  PROVE  Spec => [](SingleAlert /\ FlagFollowsStreak)
<1>1. Init => SingleInv(me)
  BY DEF Init, SingleInv, Idle
<1>2. TypeOK /\ SingleInv(me) /\ [Next]_vars => SingleInv(me)'
  BY SingleStep
<1>3. SingleInv(me) => SingleAlert /\ FlagFollowsStreak
  BY DEF SingleInv, SingleAlert, FlagFollowsStreak
<1> QED  BY <1>1, <1>2, <1>3, HealthTypes, PTL DEF Spec

(* With one caller a flag always belongs to a streak on record: the next   *)
(* outage is not silenced.                                                 *)
THEOREM FlagOfStreak ==
  ASSUME NEW me, Callers = {me}, ~Faults
  PROVE  Spec => []FlagFollowsStreak
<1>1. Spec => [](SingleAlert /\ FlagFollowsStreak)
  BY SingleCaller
<1> QED  BY <1>1, PTL

-----------------------------------------------------------------------------
(* The outage that Outage describes. *)

(* The caller starts a streak only where there is none, and alerts only    *)
(* about one as old as the threshold: nobody else touches the keys between *)
(* its reads and its writes.                                               *)
StreakInv(me) ==
  /\ since = Absent => sent = 0
  /\ caller[me].at = "start" => since = Absent
  /\ caller[me].at \in {"flag", "send", "record"} => since = Threshold

LEMMA AgeFacts ==
  ASSUME TypeOK
  PROVE  /\ since = Absent \/ since \in 0..Threshold
         /\ Older(since, Threshold) =
              IF since \in {Absent, Threshold} THEN since ELSE since + 1
         /\ \A c \in Callers : caller[c].stamp \in 0..Threshold
         /\ \A n \in 0..Threshold : n # Absent
BY ThresholdAssumption DEF TypeOK, Ages, Older, Absent

LEMMA StreakCheck ==
  ASSUME TypeOK, NEW me \in Callers, SingleInv(me), StreakInv(me), Check(me)
  PROVE  StreakInv(me)' /\ [Promise!Next]_(Promise!vars)
<1> USE DEF StreakInv, Promise!Next, Promise!vars
<1>1. CASE Observe(me)
  BY <1>1, AtOf DEF Observe
<1>2. CASE RecordSearch(me)
  BY <1>2, AtOf DEF RecordSearch
<1>3. CASE ReadSince(me)
  <2>1. CASE since = Absent /\ caller' = [caller EXCEPT ![me] = [at |-> "start", stamp |-> 0]]
    BY <1>3, <2>1, AtOf DEF ReadSince
  <2>2. CASE since # Absent /\ caller' = At(me, "idle")
    BY <1>3, <2>2, AtOf DEF ReadSince
  <2>3. CASE since # Absent /\ ~(since < Threshold) /\ caller' = At(me, "flag")
    BY <1>3, <2>3, AtOf, AgeFacts, ThresholdAssumption DEF ReadSince
  <2> QED  BY <1>3, <2>1, <2>2, <2>3 DEF ReadSince
<1>4. CASE StartStreak(me)
  <2>1. since = Absent /\ since' \in 0..Threshold /\ since' # Absent /\ UNCHANGED sent
    BY <1>4, AgeFacts DEF StartStreak
  <2>2. caller'[me].at = "idle"
    BY <1>4, AtOf DEF StartStreak
  <2> QED  BY <2>1, <2>2 DEF Promise!Begin
<1>5. CASE ReadFlag(me)
  BY <1>5, AtOf DEF ReadFlag
<1>6. CASE Deliver(me)
  <2>1. sent = 0 /\ since = Threshold
    BY <1>6 DEF Deliver, SingleInv
  <2>2. sent' = 1 /\ UNCHANGED since /\ caller'[me].at = "record"
    BY <1>6, <2>1, AtOf DEF Deliver, SentCap
  <2>3. since # Absent
    BY <2>1, ThresholdAssumption DEF Absent
  <2> QED  BY <2>1, <2>2, <2>3 DEF Promise!Alert
<1>7. CASE NotDelivered(me)
  BY <1>7, AtOf DEF NotDelivered
<1>8. CASE RecordAlert(me)
  BY <1>8, AtOf DEF RecordAlert
<1>9. CASE DeleteSince(me)
  BY <1>9, AtOf DEF DeleteSince, Promise!End
<1>10. CASE DeleteFlag(me)
  BY <1>10, AtOf DEF DeleteFlag
<1> QED
  BY <1>1, <1>2, <1>3, <1>4, <1>5, <1>6, <1>7, <1>8, <1>9, <1>10 DEF Check

LEMMA StreakStep ==
  ASSUME TypeOK, NEW me, Callers = {me}, ~Faults, SingleInv(me), StreakInv(me), [Next]_vars
  PROVE  StreakInv(me)' /\ [Promise!Next]_(Promise!vars)
<1>1. CASE UNCHANGED vars
  BY <1>1 DEF vars, StreakInv, Promise!vars
<1>2. CASE Toggle
  BY <1>2 DEF Toggle, StreakInv, Promise!vars
<1>3. CASE Tick
  <2>1. /\ since \in {Absent, Threshold} => since' = since
        /\ since \notin {Absent, Threshold} => since < Threshold /\ since' = since + 1
    BY <1>3, AgeFacts, ThresholdAssumption DEF Tick
  <2>2. caller'[me].at = caller[me].at /\ UNCHANGED sent
    BY <1>3 DEF Tick, TypeOK
  <2>3. since \notin {Absent, Threshold} => since' # Absent
    BY <2>1, AgeFacts DEF Absent
  <2> QED  BY <2>1, <2>2, <2>3 DEF StreakInv, Promise!Next, Promise!Pass, Promise!vars
<1>4. ~Abort(me)
  BY DEF Abort
<1> QED  BY StepCases, <1>1, <1>2, <1>3, <1>4, StreakCheck

(* With one caller that is not interrupted, the streak on record is an     *)
(* outage as Outage describes it: FollowsOutage, which health_proxy        *)
(* checks.                                                                 *)
THEOREM ImplementsOutage ==
  ASSUME NEW me, Callers = {me}, ~Faults
  PROVE  Spec => FollowsOutage
<1>1. Init => SingleInv(me) /\ StreakInv(me) /\ Promise!Init
  BY DEF Init, SingleInv, StreakInv, Idle, Promise!Init
<1>2. TypeOK /\ SingleInv(me) /\ StreakInv(me) /\ [Next]_vars
        => SingleInv(me)' /\ StreakInv(me)' /\ [Promise!Next]_(Promise!vars)
  BY SingleStep, StreakStep
<1> QED  BY <1>1, <1>2, HealthTypes, PTL DEF Spec, FollowsOutage, Promise!Spec

-----------------------------------------------------------------------------
(* The breaker. *)

(* A check that still has to record its search began with the circuit      *)
(* closed, and it has stayed closed.                                       *)
BreakerInv(me) == caller[me].at \in {"failed", "empty", "healthy"} => ~CircuitOpen

LEMMA BreakerStep ==
  ASSUME TypeOK, NEW me, Callers = {me}, BreakerInv(me), [Next]_vars
  PROVE  /\ BreakerInv(me)'
         /\ CircuitOpen => failedAt' \in {failedAt, failedAt + 1}
<1> USE DEF BreakerInv
<1>1. CASE Observe(me)
  BY <1>1 DEF Observe, CircuitOpen
<1>2. CASE RecordSearch(me)
  <2>1. caller'[me].at \in {"delete", "read", "idle"}
    BY <1>2, AtOf DEF RecordSearch
  <2> QED  BY <1>2, <2>1 DEF RecordSearch
<1>3. CASE ReadSince(me)
  <2>1. caller'[me].at \in {"start", "idle", "flag"}
    <3>1. CASE caller' = [caller EXCEPT ![me] = [at |-> "start", stamp |-> 0]]
      BY <3>1, AtOf
    <3>2. CASE \E step \in {"idle", "flag"} : caller' = At(me, step)
      BY <3>2, AtOf
    <3> QED  BY <1>3, <3>1, <3>2 DEF ReadSince
  <2> QED  BY <1>3, <2>1 DEF ReadSince
<1>4. CASE StartStreak(me)
  BY <1>4, AtOf DEF StartStreak
<1>5. CASE ReadFlag(me)
  <2>1. caller'[me].at \in {"idle", "send"}
    BY <1>5, AtOf DEF ReadFlag
  <2> QED  BY <1>5, <2>1 DEF ReadFlag
<1>6. CASE Deliver(me)
  BY <1>6, AtOf DEF Deliver
<1>7. CASE NotDelivered(me)
  BY <1>7, AtOf DEF NotDelivered
<1>8. CASE RecordAlert(me)
  BY <1>8, AtOf DEF RecordAlert
<1>9. CASE DeleteSince(me)
  BY <1>9, AtOf DEF DeleteSince
<1>10. CASE DeleteFlag(me)
  BY <1>10, AtOf DEF DeleteFlag
<1>11. CASE Abort(me)
  BY <1>11, AtOf DEF Abort
<1>12. CASE Toggle
  BY <1>12 DEF Toggle, CircuitOpen
<1>13. CASE Tick
  <2>1. caller'[me].at = caller[me].at
    BY <1>13 DEF Tick, TypeOK
  <2>2. failedAt' \in {failedAt, failedAt + 1} /\ (CircuitOpen' => CircuitOpen)
    BY <1>13, WindowAssumption DEF Tick, TypeOK, Older, Ages, CircuitOpen, Absent
  <2> QED  BY <2>1, <2>2
<1>14. CASE UNCHANGED vars
  BY <1>14 DEF vars, CircuitOpen
<1> QED
  BY StepCases, <1>1, <1>2, <1>3, <1>4, <1>5, <1>6, <1>7, <1>8, <1>9, <1>10, <1>11, <1>12,
     <1>13, <1>14 DEF Check

(* With one caller, interrupted or not, an open circuit runs down and      *)
(* nothing else happens to it: BreakerRunsDown, which health_proxy checks. *)
THEOREM BreakerIsNotExtended ==
  ASSUME NEW me, Callers = {me}
  PROVE  Spec => BreakerRunsDown
<1>1. Init => BreakerInv(me)
  BY DEF Init, BreakerInv, Idle
<1>2. TypeOK /\ BreakerInv(me) /\ [Next]_vars => BreakerInv(me)'
  BY BreakerStep
<1>3. TypeOK /\ BreakerInv(me) /\ [Next]_vars
        => [CircuitOpen => failedAt' \in {failedAt, failedAt + 1}]_vars
  BY BreakerStep
<1> QED  BY <1>1, <1>2, <1>3, HealthTypes, PTL DEF Spec, BreakerRunsDown
=============================================================================
