---------------------------- MODULE Process_proofs ----------------------------
(***************************************************************************)
(* Proofs about Process, for any number of processes and tasks on one      *)
(* database and any number of kills: no task runs on a database that is    *)
(* not up to date, a version is never set too early, and an upgrade keeps  *)
(* an outage that is going on.                                             *)
(***************************************************************************)
EXTENDS Process, FiniteSetTheorems, TLAPS

ProcState == [at : Places, existed : BOOLEAN, missing : SUBSET Schema,
              from : 0..DbVersion, step : 1..Len(Upgrades) + 1, jobs : SUBSET Tasks]

(* What a process in state s may rely on, whatever the others do.          *)
Relies(s) ==
  /\ s.jobs # {} \/ s.at \in {"seal", "started", "running"} => Needed \subseteq schema /\ "old" \notin keys
  /\ s.at = "create" => /\ {"history", "kv"} \subseteq schema \cup s.missing
                        /\ s.missing \subseteq {"history", "index", "kv"}
  /\ s.at \in {"look", "create", "read"} /\ ~s.existed /\ "history" \in schema => Columns \subseteq schema
  /\ s.at \in {"read", "upgrade", "add"} => {"history", "kv"} \subseteq schema
  /\ s.at \in {"upgrade", "add"} =>
       /\ s.from < DbVersion
       /\ s.from # 0 => Needed \cap SchemaOf(s.from) \subseteq schema
       /\ \A i \in 1..s.step - 1 : Upgrades[i] \in Columns => Upgrades[i] \in schema
       /\ s.step > 7 => "old" \notin keys
  /\ s.at = "add" => s.step \in Steps /\ Upgrades[s.step] \in Columns

DataInv ==
  /\ schema \subseteq Schema /\ version \in 0..DbVersion
  /\ VersionTellsSchema
  /\ keys \in {{}, {"old"}, {"new"}} /\ outage \in BOOLEAN /\ (outage <=> keys # {})
  /\ "old" \in keys => version = 11

ProcInv == proc \in [Procs -> ProcState] /\ \A p \in Procs : Relies(proc[p])

IInv == DataInv /\ ProcInv

-----------------------------------------------------------------------------
(* The table of upgrades. *)

LEMMA UpgradeFacts ==
  /\ Steps = 1..7 /\ Len(Upgrades) = 7 /\ DbVersion = 12
  /\ Upgrades[1] = "imdb_certification" /\ Upgrades[2] = "imdb_cert_source"
  /\ Upgrades[3] = "index" /\ Upgrades[4] = "stalled_at" /\ Upgrades[5] = "created_at"
  /\ Upgrades[6] = "kv" /\ Upgrades[7] = "rename"
  /\ VersionOf[1] = 7 /\ VersionOf[2] = 7 /\ VersionOf[3] = 8 /\ VersionOf[4] = 9
  /\ VersionOf[5] = 10 /\ VersionOf[6] = 11 /\ VersionOf[7] = 12
BY DEF Steps, Upgrades, VersionOf, DbVersion

LEMMA SchemaFacts ==
  /\ \A v \in 0..DbVersion : SchemaOf(v) \subseteq Schema /\ "history" \in SchemaOf(v)
  /\ Needed \cap SchemaOf(DbVersion) = Needed
  /\ \A v \in 0..DbVersion, i \in Steps :
       VersionOf[i] <= v /\ Upgrades[i] # "rename" => Upgrades[i] \in SchemaOf(v)
  /\ \A i \in Steps : Upgrades[i] \in Columns => Upgrades[i] \in Needed
<1>1. \A i \in Steps : Upgrades[i] \in Schema \cup {"rename"}
  BY UpgradeFacts DEF Schema, Columns
<1>2. \A v \in 0..DbVersion : SchemaOf(v) \subseteq Schema /\ "history" \in SchemaOf(v)
  BY <1>1 DEF SchemaOf, Schema
<1>3. \A v \in 0..DbVersion, i \in Steps :
        VersionOf[i] <= v /\ Upgrades[i] # "rename" => Upgrades[i] \in SchemaOf(v)
  BY DEF SchemaOf
<1>4. \A x \in Needed \ {"history"} : \E i \in 1..7 : Upgrades[i] = x
  BY UpgradeFacts DEF Needed, Schema, Columns
<1>5. \A i \in 1..7 : VersionOf[i] <= DbVersion
  BY UpgradeFacts
<1>6. Needed \subseteq SchemaOf(DbVersion)
  <2> SUFFICES ASSUME NEW x \in Needed, x # "history"
               PROVE  x \in SchemaOf(DbVersion)
    BY <1>2, UpgradeFacts
  <2>1. PICK i \in 1..7 : Upgrades[i] = x
    BY <1>4
  <2>2. x # "rename"
    BY DEF Needed, Schema, Columns
  <2> QED  BY <1>3, <1>5, <2>1, <2>2, UpgradeFacts
<1>7. \A i \in Steps : Upgrades[i] \in Columns => Upgrades[i] \in Needed
  BY DEF Needed, Schema, Columns
<1> QED  BY <1>2, <1>3, <1>6, <1>7

(* All columns are added by the upgrades.                                  *)
LEMMA ColumnsAreUpgrades ==
  ASSUME \A i \in 1..7 : Upgrades[i] \in Columns => Upgrades[i] \in schema
  PROVE  Columns \subseteq schema
BY UpgradeFacts DEF Columns

-----------------------------------------------------------------------------
(* What a process relies on, no other takes away.                          *)

Grows ==
  /\ schema \subseteq schema'
  /\ "history" \in schema' => "history" \in schema \/ Columns \subseteq schema'
  /\ "old" \in keys' => "old" \in keys

LEMMA RelianceKept ==
  ASSUME NEW s \in ProcState, Relies(s), Grows
  PROVE  Relies(s)'
<1>1. s.step \in Nat
  BY UpgradeFacts DEF ProcState
<1> QED  BY <1>1 DEF Relies, Grows

LEMMA OneMoves ==
  ASSUME ProcInv, Grows, NEW p \in Procs, NEW s \in ProcState, Relies(s)',
         proc' = [proc EXCEPT ![p] = s]
  PROVE  ProcInv'
<1>1. proc' \in [Procs -> ProcState] /\ \A q \in Procs : proc'[q] = IF q = p THEN s ELSE proc[q]
  BY DEF ProcInv
<1>2. \A q \in Procs : q # p => Relies(proc[q])'
  BY RelianceKept DEF ProcInv
<1> QED  BY <1>1, <1>2 DEF ProcInv

(* Goto leaves the rest of the state of a process alone. *)
LEMMA GotoState ==
  ASSUME ProcInv, NEW p \in Procs, NEW place \in Places
  PROVE  LET s == [proc[p] EXCEPT !.at = place] IN
         /\ s \in ProcState /\ s.at = place
         /\ s.existed = proc[p].existed /\ s.missing = proc[p].missing /\ s.from = proc[p].from
         /\ s.step = proc[p].step /\ s.jobs = proc[p].jobs
         /\ Goto(p, place) => proc' = [proc EXCEPT ![p] = s]
BY DEF ProcInv, ProcState, Goto

LEMMA OffState == Off \in ProcState /\ Relies(Off)
BY UpgradeFacts DEF Off, ProcState, Places, Relies

LEMMA DieKeeps ==
  ASSUME IInv, NEW p \in Procs, Die(p)
  PROVE  IInv'
<1>1. Grows /\ DataInv'
  BY DEF Die, database, IInv, DataInv, VersionTellsSchema, Grows
<1>2. Relies(Off)'
  BY <1>1, OffState, RelianceKept
<1>3. ProcInv'
  BY <1>1, <1>2, OffState, OneMoves DEF Die, IInv
<1> QED  BY <1>1, <1>3 DEF IInv

LEMMA SameData ==
  ASSUME DataInv, UNCHANGED database
  PROVE  DataInv' /\ Grows
BY DEF database, DataInv, VersionTellsSchema, Grows

(* A step that changes nothing but where one process is. *)
LEMMA MoveKeeps ==
  ASSUME IInv, NEW p \in Procs, NEW place \in Places, Goto(p, place), UNCHANGED database,
         Relies([proc[p] EXCEPT !.at = place])
  PROVE  IInv'
<1> DEFINE s == [proc[p] EXCEPT !.at = place]
<1>1. DataInv' /\ Grows
  BY SameData DEF IInv
<1>2. s \in ProcState /\ proc' = [proc EXCEPT ![p] = s]
  BY GotoState DEF IInv
<1> HIDE DEF s
<1>3. ASSUME NEW r, r = s
      PROVE  ProcInv'
  <2>1. Relies(r)
    BY <1>3 DEF s
  <2>2. Relies(r)'
    BY <1>1, <1>2, <1>3, <2>1, RelianceKept
  <2> QED  BY <1>1, <1>2, <1>3, <2>2, OneMoves DEF IInv
<1> QED  BY <1>1, <1>3 DEF IInv

LEMMA CheckTableKeeps ==
  ASSUME IInv, NEW p \in Procs, CheckTable(p) \/ LookForTables(p)
  PROVE  IInv'
<1>1. DataInv' /\ Grows
  BY SameData DEF IInv, CheckTable, LookForTables
<1>2. Relies(proc[p]) /\ proc[p] \in ProcState
  BY DEF IInv, ProcInv
<1>3. CASE CheckTable(p)
  <2>1. ASSUME NEW e \in BOOLEAN, e = ("history" \in schema),
               NEW s, s = [proc[p] EXCEPT !.at = "look", !.existed = e]
        PROVE  ProcInv'
    <3>1. s \in ProcState
      BY <1>2, <2>1 DEF ProcState, Places
    <3>2. s.at = "look" /\ s.existed = e /\ s.jobs = proc[p].jobs
      BY <1>2, <2>1 DEF ProcState
    <3>3. Relies(s)
      BY <1>2, <2>1, <3>2 DEF Relies
    <3>4. Relies(s)'
      BY <1>1, <3>1, <3>3, RelianceKept
    <3>5. proc' = [proc EXCEPT ![p] = s]
      BY <1>3, <2>1 DEF CheckTable, IInv, ProcInv, ProcState
    <3> QED  BY <1>1, <3>1, <3>4, <3>5, OneMoves DEF IInv
  <2>2. ("history" \in schema) \in BOOLEAN
    OBVIOUS
  <2>3. ProcInv'
    BY <2>1, <2>2
  <2> QED  BY <1>1, <2>3 DEF IInv
<1>4. CASE LookForTables(p)
  <2> DEFINE M == ({"history", "kv"} \ schema) \cup (IF "history" \in schema THEN {} ELSE {"index"})
  <2>1. ASSUME NEW s, s = [proc[p] EXCEPT !.at = "create", !.missing = M]
        PROVE  ProcInv'
    <3>1. M \subseteq {"history", "index", "kv"} /\ {"history", "kv"} \subseteq schema \cup M
      OBVIOUS
    <3>2. proc' = [proc EXCEPT ![p] = s]
      BY <1>4, <2>1 DEF LookForTables, IInv, ProcInv, ProcState
    <3> HIDE DEF M
    <3>3. s \in ProcState
      BY <1>2, <2>1, <3>1 DEF ProcState, Places, Schema
    <3>4. s.at = "create" /\ s.existed = proc[p].existed /\ s.jobs = proc[p].jobs /\ s.missing = M
      BY <1>2, <2>1 DEF ProcState
    <3>5. proc[p].at = "look"
      BY <1>4 DEF LookForTables, At
    <3>6. Relies(s)
      BY <1>2, <3>1, <3>4, <3>5 DEF Relies
    <3>7. Relies(s)'
      BY <1>1, <3>3, <3>6, RelianceKept
    <3> QED  BY <1>1, <3>2, <3>3, <3>7, OneMoves DEF IInv
  <2> QED  BY <1>1, <2>1 DEF IInv
<1> QED  BY <1>3, <1>4

LEMMA NextIsMissing ==
  ASSUME NEW p \in Procs, proc[p].missing # {},
         proc[p].missing \subseteq {"history", "index", "kv"}
  PROVE  /\ NextToCreate(p) \in proc[p].missing
         /\ NextToCreate(p) = "index" => "history" \notin proc[p].missing
<1>1. \E y \in proc[p].missing :
        \/ y = "history"
        \/ y = "index" /\ "history" \notin proc[p].missing
        \/ y = "kv" /\ proc[p].missing = {"kv"}
  OBVIOUS
<1> QED  BY <1>1 DEF NextToCreate

LEMMA CreateKeeps ==
  ASSUME IInv, NEW p \in Procs, CreateTable(p)
  PROVE  IInv'
<1> DEFINE x == NextToCreate(p)
<1>1. proc[p].at = "create" /\ proc[p].missing # {} /\ Relies(proc[p]) /\ proc[p] \in ProcState
  BY DEF CreateTable, At, IInv, ProcInv
<1>2. proc[p].missing \subseteq {"history", "index", "kv"}
  BY <1>1 DEF Relies
<1>3. x \in proc[p].missing
  BY <1>1, <1>2, NextIsMissing
<1> HIDE DEF x
<1>4. CASE x \in schema
  BY <1>4, DieKeeps DEF CreateTable, x
<1>5. CASE x \notin schema
  <2>1. /\ schema' = schema \cup {x} \cup (IF x = "history" THEN Columns ELSE {})
        /\ proc' = [proc EXCEPT ![p].missing = @ \ {x}]
        /\ UNCHANGED <<version, keys, outage>>
    BY <1>5 DEF CreateTable, x
  <2>2. Grows
    BY <2>1 DEF Grows
  <2>3. DataInv'
    BY <1>2, <1>3, <2>1 DEF IInv, DataInv, VersionTellsSchema, Schema
  <2>4. ASSUME NEW s, s = [proc[p] EXCEPT !.missing = @ \ {x}]
        PROVE  ProcInv'
    <3>1. s \in ProcState /\ proc' = [proc EXCEPT ![p] = s]
      BY <1>1, <2>1, <2>4 DEF ProcState, IInv, ProcInv
    <3>2. s.at = "create" /\ s.existed = proc[p].existed /\ s.jobs = proc[p].jobs
          /\ s.missing = proc[p].missing \ {x}
      BY <1>1, <2>4 DEF ProcState
    <3>3. Relies(proc[p]) /\ x \in schema' /\ schema \subseteq schema'
      BY <1>1, <2>1
    <3>4. Relies(s)'
      BY <1>1, <2>1, <2>2, <3>2, <3>3 DEF Relies, Grows
    <3> QED  BY <2>2, <3>1, <3>4, OneMoves DEF IInv
  <2> QED  BY <2>3, <2>4 DEF IInv
<1> QED  BY <1>4, <1>5

LEMMA ReadKeeps ==
  ASSUME IInv, NEW p \in Procs, ReadVersion(p)
  PROVE  IInv'
<1> DEFINE place == IF version = 0 /\ ~proc[p].existed THEN "seal"
                    ELSE IF version < DbVersion THEN "upgrade" ELSE "started"
<1>1. /\ proc[p].at = "read" /\ Relies(proc[p]) /\ proc[p] \in ProcState
      /\ proc' = [proc EXCEPT ![p] = [proc[p] EXCEPT !.from = version, !.step = 1, !.at = place]]
  BY DEF ReadVersion, At, IInv, ProcInv, ProcState
<1>2. DataInv' /\ Grows
  BY SameData DEF IInv, ReadVersion
<1>3. place \in {"seal", "started"} => Needed \subseteq schema /\ "old" \notin keys
  <2>1. CASE version = 0 /\ ~proc[p].existed
    <3>1. "history" \in schema /\ "kv" \in schema /\ Columns \subseteq schema
      BY <1>1, <2>1 DEF Relies
    <3> QED  BY <2>1, <3>1 DEF Needed, Schema, IInv, DataInv
  <2>2. CASE version = DbVersion
    <3>1. Needed \subseteq schema
      BY <2>2, SchemaFacts, UpgradeFacts DEF IInv, DataInv, VersionTellsSchema
    <3> QED  BY <2>2, <3>1, UpgradeFacts DEF IInv, DataInv
  <2> QED  BY <2>1, <2>2, UpgradeFacts DEF IInv, DataInv
<1>4. /\ place \in {"seal", "upgrade", "started"}
      /\ place = "upgrade" => version < DbVersion
  OBVIOUS
<1> HIDE DEF place
<1>5. ASSUME NEW s, s = [proc[p] EXCEPT !.from = version, !.step = 1, !.at = place]
      PROVE  ProcInv'
  <2>1. s \in ProcState
    <3>1. 1 \in 1..Len(Upgrades) + 1 /\ version \in 0..DbVersion /\ place \in Places
      BY <1>4, UpgradeFacts DEF IInv, DataInv, Places
    <3> QED  BY <1>1, <1>5, <3>1 DEF ProcState
  <2>2. s.at = place /\ s.from = version /\ s.step = 1 /\ s.jobs = proc[p].jobs
    BY <1>1, <1>5 DEF ProcState
  <2>3. Relies(s)
    BY <1>1, <1>3, <1>4, <2>2 DEF Relies, IInv, DataInv, VersionTellsSchema
  <2>4. Relies(s)'
    BY <1>2, <2>1, <2>3, RelianceKept
  <2> QED  BY <1>1, <1>2, <1>5, <2>1, <2>4, OneMoves DEF IInv
<1> QED  BY <1>2, <1>5 DEF IInv

(* One step of the upgrade is done, or was found done.                     *)
LEMMA StepDone ==
  ASSUME IInv, NEW p \in Procs, proc[p].at \in {"upgrade", "add"}, proc[p].step \in Steps,
         NextStep(p), Grows, DataInv',
         Upgrades[proc[p].step] \in Columns => Upgrades[proc[p].step] \in schema',
         proc[p].step = 7 => "old" \notin keys'
  PROVE  IInv'
<1>1. proc[p] \in ProcState /\ Relies(proc[p]) /\ proc[p].step \in 1..7
  BY UpgradeFacts DEF IInv, ProcInv
<1>2. ASSUME NEW s, s = [proc[p] EXCEPT !.at = "upgrade", !.step = @ + 1]
      PROVE  ProcInv'
  <2>1. s \in ProcState /\ proc' = [proc EXCEPT ![p] = s]
    BY <1>1, <1>2, UpgradeFacts DEF ProcState, Places, NextStep, IInv, ProcInv
  <2>2. s.at = "upgrade" /\ s.step = proc[p].step + 1 /\ s.from = proc[p].from /\ s.jobs = proc[p].jobs
    BY <1>1, <1>2 DEF ProcState
  <2>3. \A i \in 1..s.step - 1 : Upgrades[i] \in Columns => Upgrades[i] \in schema'
    <3>1. \A i \in 1..s.step - 1 : i = proc[p].step \/ i \in 1..proc[p].step - 1
      BY <1>1, <2>2
    <3> QED  BY <1>1, <3>1 DEF Relies, Grows
  <2>4. s.step > 7 => "old" \notin keys'
    BY <1>1, <2>2
  <2>5. Relies(s)'
    BY <1>1, <2>2, <2>3, <2>4 DEF Relies, Grows
  <2> QED  BY <2>1, <2>5, OneMoves DEF IInv
<1> QED  BY <1>2 DEF IInv

LEMMA UpgradeKeeps ==
  ASSUME IInv, NEW p \in Procs,
         SkipUpgrade(p) \/ CreateIfAbsent(p) \/ RenameKey(p) \/ LookForColumn(p) \/ AddColumn(p)
  PROVE  IInv'
<1>1. /\ proc[p] \in ProcState /\ Relies(proc[p]) /\ proc[p].from \in 0..12
      /\ UNCHANGED database => DataInv' /\ Grows
  BY SameData, UpgradeFacts DEF IInv, ProcInv, ProcState
<1>2. CASE SkipUpgrade(p)
  <2>1. /\ proc[p].at = "upgrade" /\ proc[p].step \in Steps /\ NextStep(p)
        /\ VersionOf[proc[p].step] <= proc[p].from /\ UNCHANGED database
    BY <1>2 DEF SkipUpgrade, At
  <2>2. proc[p].from # 0 /\ proc[p].from < 12 /\ proc[p].step # 7
    BY <1>1, <2>1, UpgradeFacts DEF Relies
  <2>3. Upgrades[proc[p].step] \in Columns => Upgrades[proc[p].step] \in schema
    <3>1. SUFFICES ASSUME Upgrades[proc[p].step] \in Columns
                   PROVE  Upgrades[proc[p].step] \in Needed \cap SchemaOf(proc[p].from)
      BY <1>1, <2>1, <2>2 DEF Relies
    <3>2. Upgrades[proc[p].step] # "rename"
      BY <3>1 DEF Columns
    <3> QED  BY <1>1, <2>1, <3>1, <3>2, SchemaFacts, UpgradeFacts
  <2> QED  BY <1>1, <2>1, <2>2, <2>3, StepDone DEF database
<1>3. CASE CreateIfAbsent(p)
  <2>1. /\ proc[p].at = "upgrade" /\ proc[p].step \in Steps /\ NextStep(p)
        /\ Upgrades[proc[p].step] \in {"index", "kv"} /\ schema' = schema \cup {Upgrades[proc[p].step]}
        /\ UNCHANGED <<version, keys, outage>>
    BY <1>3 DEF CreateIfAbsent, At
  <2>2. Grows /\ proc[p].step # 7
    BY <2>1, UpgradeFacts DEF Grows
  <2>3. DataInv'
    BY <2>1 DEF IInv, DataInv, VersionTellsSchema, Schema
  <2> QED  BY <2>1, <2>2, <2>3, StepDone
<1>4. CASE RenameKey(p)
  <2>1. ~({"old", "new"} \subseteq keys)
    BY DEF IInv, DataInv
  <2>2. /\ proc[p].at = "upgrade" /\ proc[p].step \in Steps /\ NextStep(p)
        /\ Upgrades[proc[p].step] = "rename" /\ keys' = IF "old" \in keys THEN {"new"} ELSE keys
        /\ UNCHANGED <<schema, version, outage>>
    BY <1>4, <2>1 DEF RenameKey, At
  <2>3. Grows
    BY <2>2 DEF Grows
  <2>4. DataInv'
    BY <2>2 DEF IInv, DataInv, VersionTellsSchema
  <2>5. Upgrades[proc[p].step] \notin Columns /\ "old" \notin keys'
    BY <2>2 DEF Columns
  <2> QED  BY <2>2, <2>3, <2>4, <2>5, StepDone
<1>5. CASE LookForColumn(p)
  <2>1. /\ proc[p].at = "upgrade" /\ proc[p].step \in Steps /\ UNCHANGED database
        /\ Upgrades[proc[p].step] \in Columns
    BY <1>5 DEF LookForColumn, At
  <2>2. CASE Upgrades[proc[p].step] \in schema
    <3>1. NextStep(p) /\ proc[p].step # 7
      BY <1>5, <2>1, <2>2, UpgradeFacts DEF LookForColumn, Columns
    <3> QED  BY <1>1, <2>1, <2>2, <3>1, StepDone DEF database
  <2>3. CASE Upgrades[proc[p].step] \notin schema
    <3>1. Goto(p, "add")
      BY <1>5, <2>3 DEF LookForColumn
    <3>2. "add" \in Places
      BY DEF Places
    <3>3. ASSUME NEW s, s = [proc[p] EXCEPT !.at = "add"]
          PROVE  Relies(s)
      <4>1. s.at = "add" /\ s.step = proc[p].step /\ s.from = proc[p].from /\ s.jobs = proc[p].jobs
        BY <1>1, <3>3 DEF ProcState
      <4> QED  BY <1>1, <2>1, <4>1 DEF Relies
    <3> QED  BY <2>1, <3>1, <3>2, <3>3, MoveKeeps
  <2> QED  BY <2>2, <2>3
<1>6. CASE AddColumn(p)
  <2>1. proc[p].at = "add" /\ Upgrades[proc[p].step] \in Columns
    BY <1>1, <1>6 DEF AddColumn, At, Relies
  <2>2. CASE Upgrades[proc[p].step] \in schema
    BY <1>6, <2>2, DieKeeps DEF AddColumn
  <2>3. CASE Upgrades[proc[p].step] \notin schema
    <3>1. /\ schema' = schema \cup {Upgrades[proc[p].step]} /\ NextStep(p)
          /\ UNCHANGED <<version, keys, outage>>
      BY <1>6, <2>3 DEF AddColumn
    <3>2. Grows /\ DataInv'
      BY <2>1, <3>1 DEF Grows, Columns, IInv, DataInv, VersionTellsSchema, Schema
    <3>3. proc[p].step \in Steps /\ proc[p].step # 7
      BY <1>1, <2>1, UpgradeFacts DEF Relies, Columns
    <3> QED  BY <2>1, <3>1, <3>2, <3>3, StepDone
  <2> QED  BY <2>2, <2>3
<1> QED  BY <1>2, <1>3, <1>4, <1>5, <1>6

-----------------------------------------------------------------------------
(* The other steps. *)

(* A process that leaves the opening behind, or ends, relies on less.      *)
LEMMA MoveOn ==
  ASSUME IInv, NEW p \in Procs, UNCHANGED database,
         \/ At(p, "off") /\ Goto(p, "open")
         \/ TablesCreated(p) \/ UpgradesDone(p)
         \/ At(p, "started") /\ Goto(p, "running")
         \/ At(p, "running") /\ Goto(p, "stopping")
         \/ At(p, "stopping") /\ Goto(p, "draining")
  PROVE  IInv'
<1>1. proc[p] \in ProcState /\ Relies(proc[p])
  BY DEF IInv, ProcInv
<1>2. PICK place \in {"open", "read", "seal", "running", "stopping", "draining"} :
        /\ Goto(p, place)
        /\ place = "read" => TablesCreated(p)
        /\ place = "seal" => UpgradesDone(p)
        /\ place = "running" => At(p, "started")
  BY DEF TablesCreated, UpgradesDone
<1>3. ASSUME NEW s, s = [proc[p] EXCEPT !.at = place]
      PROVE  Relies(s)
  <2>1. /\ s.at = place /\ s.existed = proc[p].existed /\ s.missing = proc[p].missing
        /\ s.from = proc[p].from /\ s.step = proc[p].step /\ s.jobs = proc[p].jobs
    BY <1>1, <1>3 DEF ProcState
  <2>2. CASE place = "read"
    <3>1. proc[p].at = "create" /\ proc[p].missing = {}
      BY <1>2, <2>2 DEF TablesCreated, At
    <3> QED  BY <1>1, <2>1, <2>2, <3>1 DEF Relies
  <2>3. CASE place = "seal"
    <3>1. proc[p].at = "upgrade" /\ proc[p].step = 8
      BY <1>1, <1>2, <2>3, UpgradeFacts DEF UpgradesDone, At, ProcState
    <3>2. "old" \notin keys /\ {"history", "kv"} \subseteq schema
          /\ \A i \in 1..7 : Upgrades[i] \in Columns => Upgrades[i] \in schema
      BY <1>1, <3>1 DEF Relies
    <3>3. Needed \subseteq schema
      BY <3>2, ColumnsAreUpgrades DEF Needed, Schema
    <3> QED  BY <1>1, <2>1, <2>3, <3>2, <3>3 DEF Relies
  <2>4. CASE place = "running"
    BY <1>1, <1>2, <2>1, <2>4 DEF Relies, At
  <2>5. CASE place \in {"open", "stopping", "draining"}
    BY <1>1, <2>1, <2>5 DEF Relies
  <2> QED  BY <1>2, <2>2, <2>3, <2>4, <2>5
<1> QED  BY <1>2, <1>3, MoveKeeps DEF Places

LEMMA SealKeeps ==
  ASSUME IInv, NEW p \in Procs, SetVersion(p)
  PROVE  IInv'
<1>1. proc[p] \in ProcState /\ Relies(proc[p]) /\ proc[p].at = "seal" /\ Goto(p, "started")
  BY DEF IInv, ProcInv, SetVersion, At
<1>2. Needed \subseteq schema /\ "old" \notin keys
  BY <1>1 DEF Relies
<1>3. version' = DbVersion /\ UNCHANGED <<schema, keys, outage>>
  BY DEF SetVersion
<1>4. DataInv' /\ Grows
  BY <1>2, <1>3, UpgradeFacts DEF IInv, DataInv, VersionTellsSchema, Grows
<1>5. ASSUME NEW s, s = [proc[p] EXCEPT !.at = "started"]
      PROVE  ProcInv'
  <2>1. s \in ProcState /\ s.at = "started" /\ s.jobs = proc[p].jobs
    BY <1>1, <1>5 DEF ProcState, Places
  <2>2. proc' = [proc EXCEPT ![p] = s]
    BY <1>1, <1>5 DEF Goto, IInv, ProcInv, ProcState
  <2>3. Relies(s)
    BY <1>2, <2>1 DEF Relies
  <2>4. Relies(s)'
    BY <1>4, <2>1, <2>3, RelianceKept
  <2> QED  BY <1>4, <2>1, <2>2, <2>4, OneMoves DEF IInv
<1> QED  BY <1>4, <1>5 DEF IInv

LEMMA JobKeeps ==
  ASSUME IInv, NEW p \in Procs, NEW t \in Tasks, StartJob(p, t) \/ EndJob(p, t)
  PROVE  IInv'
<1>1. proc[p] \in ProcState /\ Relies(proc[p])
  BY DEF IInv, ProcInv
<1>2. Needed \subseteq schema /\ "old" \notin keys
  BY <1>1 DEF StartJob, EndJob, At, Relies
<1>3. PICK jobs \in SUBSET Tasks : proc' = [proc EXCEPT ![p].jobs = jobs]
  <2>1. proc[p].jobs \in SUBSET Tasks
    BY <1>1 DEF ProcState
  <2>2. CASE StartJob(p, t)
    BY <2>1, <2>2 DEF StartJob
  <2>3. CASE EndJob(p, t)
    BY <2>1, <2>3 DEF EndJob
  <2> QED  BY <2>2, <2>3
<1>4. schema' = schema /\ version' = version
  BY DEF StartJob, EndJob, database
<1>5. /\ keys' \in {{}, {"new"}} /\ outage' \in BOOLEAN /\ (outage' <=> keys' # {})
  <2>1. keys \in {{}, {"new"}}
    BY <1>2 DEF IInv, DataInv
  <2>2. CASE UNCHANGED <<outage, keys>>
    BY <2>1, <2>2 DEF IInv, DataInv
  <2>3. CASE outage' \in BOOLEAN /\ keys' = IF outage' THEN keys \cup {"new"} ELSE keys \ {"new"}
    BY <2>1, <2>3
  <2> QED  BY <2>2, <2>3 DEF StartJob, EndJob, database
<1>6. DataInv' /\ Grows
  BY <1>4, <1>5 DEF IInv, DataInv, VersionTellsSchema, Grows
<1>7. ASSUME NEW s, s = [proc[p] EXCEPT !.jobs = jobs]
      PROVE  ProcInv'
  <2>1. s \in ProcState /\ proc' = [proc EXCEPT ![p] = s]
    BY <1>1, <1>3, <1>7 DEF ProcState, IInv, ProcInv
  <2>2. /\ s.at = proc[p].at /\ s.existed = proc[p].existed /\ s.missing = proc[p].missing
        /\ s.from = proc[p].from /\ s.step = proc[p].step
    BY <1>1, <1>7 DEF ProcState
  <2>3. Relies(s)
    BY <1>1, <1>2, <2>2 DEF Relies
  <2>4. Relies(s)'
    BY <1>6, <2>1, <2>3, RelianceKept
  <2> QED  BY <1>6, <2>1, <2>4, OneMoves DEF IInv
<1> QED  BY <1>6, <1>7 DEF IInv

(* Whatever ends a process leaves the database to the others.              *)
LEMMA EndKeeps ==
  ASSUME IInv, NEW p \in Procs, EarlyInterrupt(p) \/ Kill(p) \/ Exit(p)
  PROVE  IInv'
<1>1. proc[p] \in ProcState /\ Relies(proc[p]) /\ DataInv' /\ Grows
  BY SameData DEF IInv, ProcInv, EarlyInterrupt, Kill, Exit
<1>2. ASSUME NEW s \in ProcState, Relies(s), proc' = [proc EXCEPT ![p] = s]
      PROVE  IInv'
  <2>1. Relies(s)'
    BY <1>1, <1>2, RelianceKept
  <2> QED  BY <1>1, <1>2, <2>1, OneMoves DEF IInv
<1>3. CASE Kill(p) \/ Exit(p)
  BY <1>2, <1>3, OffState DEF Kill, Exit
<1>4. CASE EarlyInterrupt(p)
  <2>1. ASSUME NEW s, s = [Off EXCEPT !.at = "draining", !.jobs = proc[p].jobs]
        PROVE  IInv'
    <3>1. s.at = "draining" /\ s.jobs = proc[p].jobs
      BY <2>1 DEF Off
    <3>2. s \in ProcState
      BY <1>1, <2>1, OffState DEF ProcState, Off, Places
    <3>3. Relies(s)
      BY <1>1, <3>1 DEF Relies
    <3> QED  BY <1>2, <1>4, <2>1, <3>2, <3>3 DEF EarlyInterrupt
  <2> QED  BY <2>1
<1> QED  BY <1>3, <1>4

LEMMA InitInv == Init => IInv
<1> SUFFICES ASSUME Init
             PROVE  IInv
  OBVIOUS
<1>1. DataInv
  <2>1. CASE schema = {} /\ version = 0 /\ keys = {} /\ outage = FALSE
    <3>1. schema \subseteq Schema /\ version \in 0..DbVersion /\ VersionTellsSchema
      BY <2>1, UpgradeFacts DEF VersionTellsSchema
    <3>2. keys \in {{}, {"old"}, {"new"}} /\ "old" \notin keys
      BY <2>1
    <3>3. outage \in BOOLEAN /\ (outage <=> keys # {})
      BY <2>1
    <3> QED  BY <3>1, <3>2, <3>3 DEF DataInv
  <2>2. ASSUME NEW v \in {0} \cup 6..DbVersion, version = v, schema = SchemaOf(v),
               outage \in BOOLEAN, outage => v >= 11,
               keys = IF ~outage THEN {} ELSE IF v < 12 THEN {"old"} ELSE {"new"}
        PROVE  DataInv
    <3>1. v \in 0..DbVersion /\ v <= 12
      BY <2>2, UpgradeFacts
    <3>2. schema \subseteq Schema /\ VersionTellsSchema
      BY <2>2, <3>1, SchemaFacts DEF VersionTellsSchema
    <3> QED  BY <2>2, <3>1, <3>2 DEF DataInv
  <2> QED  BY <2>1, <2>2 DEF Init
<1>2. ProcInv
  BY OffState DEF Init, ProcInv
<1> QED  BY <1>1, <1>2 DEF IInv

LEMMA StepInv == IInv /\ [Next]_vars => IInv'
<1> SUFFICES ASSUME IInv, [Next]_vars
             PROVE  IInv'
  OBVIOUS
<1>1. CASE UNCHANGED vars
  BY <1>1 DEF vars, IInv, DataInv, VersionTellsSchema, ProcInv, Relies
<1>2. ASSUME NEW p \in Procs, Start(p) \/ InstallHandlers(p) \/ Signal(p) \/ CleanupPidFile(p)
                              \/ TablesCreated(p) \/ UpgradesDone(p)
      PROVE  IInv'
  <2>1. UNCHANGED database
    BY <1>2 DEF Start, InstallHandlers, Signal, CleanupPidFile, TablesCreated, UpgradesDone, database
  <2>2. \/ At(p, "off") /\ Goto(p, "open")
        \/ TablesCreated(p) \/ UpgradesDone(p)
        \/ At(p, "started") /\ Goto(p, "running")
        \/ At(p, "running") /\ Goto(p, "stopping")
        \/ At(p, "stopping") /\ Goto(p, "draining")
    BY <1>2 DEF Start, InstallHandlers, Signal, CleanupPidFile
  <2> QED  BY <2>1, <2>2, MoveOn
<1>3. ASSUME NEW p \in Procs, OpenDatabase(p)
      PROVE  IInv'
  BY <1>2, <1>3, CheckTableKeeps, CreateKeeps, ReadKeeps, UpgradeKeeps, SealKeeps DEF OpenDatabase
<1> QED  BY <1>1, <1>2, <1>3, JobKeeps, EndKeeps DEF Next

LEMMA Inductive == Spec => []IInv
BY InitInv, StepInv, PTL DEF Spec

-----------------------------------------------------------------------------
(* Theorems. *)

(* A database that has a version has what a release of that version needs, *)
(* however many processes upgrade it and wherever each is cut off.         *)
THEOREM VersionIsTrue == Spec => []VersionTellsSchema
<1>1. IInv => VersionTellsSchema
  BY DEF IInv, DataInv
<1> QED  BY <1>1, Inductive, PTL

(* A task finds every table and column it uses.                            *)
THEOREM TasksFindSchema == Spec => []TasksHaveSchema
<1>1. IInv => TasksHaveSchema
  BY DEF IInv, ProcInv, Relies, TasksHaveSchema
<1> QED  BY <1>1, Inductive, PTL

(* The start of an outage is kept through the upgrade, once, and under the *)
(* name that tasks look for.                                               *)
THEOREM OutageIsKept == Spec => []OutageSurvives
<1>1. IInv => OutageSurvives
  <2> SUFFICES ASSUME IInv
               PROVE  OutageSurvives
    OBVIOUS
  <2>1. Cardinality({}) = 0 /\ Cardinality({"old"}) = 1 /\ Cardinality({"new"}) = 1
    BY FS_EmptySet, FS_Singleton
  <2>2. keys \in {{}, {"old"}, {"new"}}
    BY DEF IInv, DataInv
  <2>3. Cardinality(keys) <= 1
    BY <2>1, <2>2
  <2>4. \A p \in Procs : proc[p].jobs # {} \/ proc[p].at \in {"started", "running"} => "old" \notin keys
    BY DEF IInv, ProcInv, Relies
  <2> QED  BY <2>3, <2>4 DEF IInv, DataInv, OutageSurvives
<1> QED  BY <1>1, Inductive, PTL

-----------------------------------------------------------------------------
(* One process alone on the database.                                      *)

Opening == {"open", "look", "create", "read", "upgrade", "add", "seal"}

(* Opening the database raises no exception: a start that ends before the  *)
(* scheduler runs was ended by a signal or a kill.                         *)
NoneGivesUp ==
  \A p \in Procs : proc[p].at \in Opening /\ proc'[p].at = "off" => disturbed' # disturbed

OpeningSucceeds == [][NoneGivesUp]_vars

(* What a process alone found missing is missing until it creates it, and  *)
(* an index is only there with its table, wherever an earlier start ended. *)
LoneInv(p) ==
  /\ "index" \in schema => "history" \in schema
  /\ proc[p].at = "create" => proc[p].missing \cap schema = {}
  /\ proc[p].at = "add" => Upgrades[proc[p].step] \notin schema

LEMMA LoneInit ==
  ASSUME Init, NEW p \in Procs
  PROVE  LoneInv(p)
<1>1. proc[p].at = "off"
  BY DEF Init, Off
<1>2. "index" \in schema => "history" \in schema
  BY DEF Init, SchemaOf
<1> QED  BY <1>1, <1>2 DEF LoneInv

(* The steps that a second process could make fail. *)
LEMMA LoneWrites ==
  ASSUME IInv, NEW p \in Procs, LoneInv(p),
         CreateTable(p) \/ RenameKey(p) \/ AddColumn(p)
  PROVE  LoneInv(p)' /\ proc'[p].at # "off"
<1>1. proc[p] \in ProcState /\ Relies(proc[p]) /\ proc \in [Procs -> ProcState]
  BY DEF IInv, ProcInv
<1>2. CASE CreateTable(p)
  <2> DEFINE x == NextToCreate(p)
  <2>1. /\ proc[p].at = "create" /\ proc[p].missing \cap schema = {}
        /\ proc[p].missing \subseteq {"history", "index", "kv"} /\ proc[p].missing # {}
        /\ "history" \in schema \cup proc[p].missing
    BY <1>1, <1>2 DEF CreateTable, At, Relies, LoneInv
  <2>2. x \in proc[p].missing /\ (x = "index" => "history" \in schema)
    BY <2>1, NextIsMissing
  <2> HIDE DEF x
  <2>3. /\ schema' = schema \cup {x} \cup (IF x = "history" THEN Columns ELSE {})
        /\ proc' = [proc EXCEPT ![p].missing = @ \ {x}]
    BY <1>2, <2>1, <2>2 DEF CreateTable, x
  <2>4. proc'[p].at = "create" /\ proc'[p].missing = proc[p].missing \ {x}
    BY <1>1, <2>1, <2>3 DEF ProcState
  <2>5. proc'[p].missing \cap schema' = {}
    BY <2>1, <2>3, <2>4 DEF Columns
  <2>6. "index" \in schema' => "history" \in schema'
    BY <2>2, <2>3 DEF LoneInv, Columns
  <2> QED  BY <2>4, <2>5, <2>6 DEF LoneInv
<1>3. CASE RenameKey(p)
  <2>1. ~({"old", "new"} \subseteq keys)
    BY DEF IInv, DataInv
  <2>2. NextStep(p) /\ schema' = schema
    BY <1>3, <2>1 DEF RenameKey
  <2>3. proc'[p].at = "upgrade"
    BY <1>1, <2>2 DEF NextStep, ProcState
  <2> QED  BY <2>2, <2>3 DEF LoneInv
<1>4. CASE AddColumn(p)
  <2>1. proc[p].at = "add" /\ Upgrades[proc[p].step] \notin schema
        /\ Upgrades[proc[p].step] \in Columns
    BY <1>1, <1>4 DEF AddColumn, At, LoneInv, Relies
  <2>2. NextStep(p) /\ schema' = schema \cup {Upgrades[proc[p].step]}
    BY <1>4, <2>1 DEF AddColumn
  <2>3. proc'[p].at = "upgrade"
    BY <1>1, <2>2 DEF NextStep, ProcState
  <2>4. "index" \in schema' => "history" \in schema'
    BY <2>1, <2>2 DEF LoneInv, Columns
  <2> QED  BY <2>3, <2>4 DEF LoneInv
<1> QED  BY <1>2, <1>3, <1>4

(* The other steps of opening the database. *)
LEMMA LoneLooks ==
  ASSUME IInv, NEW p \in Procs, LoneInv(p), OpenDatabase(p)
  PROVE  LoneInv(p)' /\ proc'[p].at # "off"
<1>1. proc[p] \in ProcState /\ Relies(proc[p]) /\ proc \in [Procs -> ProcState]
  BY DEF IInv, ProcInv
<1>2. ASSUME schema' = schema, proc'[p].at \in {"look", "read", "upgrade", "seal", "started"}
      PROVE  LoneInv(p)' /\ proc'[p].at # "off"
  BY <1>2 DEF LoneInv
<1>3. CASE \/ CheckTable(p) \/ TablesCreated(p) \/ ReadVersion(p) \/ SkipUpgrade(p)
           \/ UpgradesDone(p) \/ SetVersion(p)
  <2>1. schema' = schema
    BY <1>3 DEF CheckTable, TablesCreated, ReadVersion, SkipUpgrade, UpgradesDone, SetVersion, database
  <2>2. proc'[p].at \in {"look", "read", "upgrade", "seal", "started"}
    BY <1>1, <1>3 DEF CheckTable, TablesCreated, ReadVersion, SkipUpgrade, UpgradesDone,
                      SetVersion, Goto, NextStep, ProcState
  <2> QED  BY <1>2, <2>1, <2>2
<1>4. CASE LookForTables(p)
  <2> DEFINE M == ({"history", "kv"} \ schema) \cup (IF "history" \in schema THEN {} ELSE {"index"})
  <2>1. M \cap schema = {}
    BY DEF LoneInv
  <2>2. schema' = schema /\ proc' = [proc EXCEPT ![p].at = "create", ![p].missing = M]
    BY <1>4 DEF LookForTables, database
  <2> HIDE DEF M
  <2>3. proc'[p].at = "create" /\ proc'[p].missing = M
    BY <1>1, <2>2 DEF ProcState
  <2> QED  BY <2>1, <2>2, <2>3 DEF LoneInv
<1>5. CASE CreateIfAbsent(p)
  <2>1. /\ proc[p].at = "upgrade" /\ NextStep(p)
        /\ schema' = schema \cup {Upgrades[proc[p].step]}
    BY <1>5 DEF CreateIfAbsent, At
  <2>2. proc'[p].at = "upgrade" /\ "history" \in schema
    BY <1>1, <2>1 DEF NextStep, ProcState, Relies
  <2> QED  BY <2>1, <2>2 DEF LoneInv
<1>6. CASE LookForColumn(p)
  <2>1. schema' = schema
    BY <1>6 DEF LookForColumn, database
  <2>2. CASE Upgrades[proc[p].step] \in schema
    <3>1. NextStep(p)
      BY <1>6, <2>2 DEF LookForColumn
    <3>2. proc'[p].at = "upgrade"
      BY <1>1, <3>1 DEF NextStep, ProcState
    <3> QED  BY <1>2, <2>1, <3>2
  <2>3. CASE Upgrades[proc[p].step] \notin schema
    <3>1. Goto(p, "add")
      BY <1>6, <2>3 DEF LookForColumn
    <3>2. proc'[p].at = "add" /\ proc'[p].step = proc[p].step
      BY <1>1, <3>1 DEF Goto, ProcState
    <3> QED  BY <2>1, <2>3, <3>2 DEF LoneInv
  <2> QED  BY <2>2, <2>3
<1> QED  BY <1>3, <1>4, <1>5, <1>6, LoneWrites DEF OpenDatabase

LEMMA LoneStep ==
  ASSUME NEW p, Procs = {p}, IInv, LoneInv(p), disturbed \in Nat, [Next]_vars
  PROVE  /\ LoneInv(p)'
         /\ proc[p].at \in Opening /\ proc'[p].at = "off" => disturbed' # disturbed
<1>1. proc[p] \in ProcState /\ proc \in [Procs -> ProcState] /\ p \in Procs
  BY DEF IInv, ProcInv
<1>2. ASSUME schema' = schema, proc'[p].at \notin {"create", "add"}
      PROVE  LoneInv(p)'
  BY <1>2 DEF LoneInv
<1>3. CASE UNCHANGED vars
  BY <1>3 DEF vars, LoneInv, Opening
<1>4. CASE OpenDatabase(p)
  BY <1>1, <1>4, LoneLooks
<1>5. CASE Start(p) \/ InstallHandlers(p) \/ Signal(p) \/ CleanupPidFile(p)
  <2>1. schema' = schema
    BY <1>5 DEF Start, InstallHandlers, Signal, CleanupPidFile, database
  <2>2. proc'[p].at \in {"open", "running", "stopping", "draining"}
    BY <1>1, <1>5 DEF Start, InstallHandlers, Signal, CleanupPidFile, Goto, ProcState
  <2> QED  BY <1>2, <2>1, <2>2
<1>6. CASE \E t \in Tasks : StartJob(p, t) \/ EndJob(p, t)
  <2>1. schema' = schema
    BY <1>6 DEF StartJob, EndJob, database
  <2>2. /\ proc'[p].at = proc[p].at /\ proc'[p].missing = proc[p].missing
        /\ proc'[p].step = proc[p].step
    BY <1>1, <1>6 DEF StartJob, EndJob, ProcState
  <2> QED  BY <2>1, <2>2 DEF LoneInv, Opening
<1>7. CASE EarlyInterrupt(p)
  <2>1. proc'[p].at = "draining"
    BY <1>1, <1>7 DEF EarlyInterrupt, Off
  <2> QED  BY <1>2, <1>7, <2>1 DEF EarlyInterrupt, database
<1>8. CASE Kill(p)
  <2>1. proc'[p].at = "off"
    BY <1>1, <1>8 DEF Kill, Off
  <2>2. schema' = schema
    BY <1>8 DEF Kill, database
  <2>3. disturbed' # disturbed
    BY <1>8 DEF Kill, Disturb
  <2> QED  BY <1>2, <2>1, <2>2, <2>3
<1>9. CASE Exit(p)
  <2>1. proc[p].at = "draining" /\ proc'[p].at = "off" /\ schema' = schema
    BY <1>1, <1>9 DEF Exit, At, Off, database
  <2> QED  BY <1>2, <2>1 DEF Opening
<1> QED  BY <1>3, <1>4, <1>5, <1>6, <1>7, <1>8, <1>9 DEF Next

LEMMA DisturbedIsNat == Spec => [](disturbed \in Nat)
<1> DEFINE D == disturbed \in Nat
<1>1. Init => D
  BY DEF Init
<1>2. D /\ [Next]_vars => D'
  <2> SUFFICES ASSUME D, [Next]_vars
               PROVE  disturbed' = disturbed \/ Disturb
    BY DEF Disturb
  <2>1. ASSUME NEW p \in Procs, OpenDatabase(p)
        PROVE  disturbed' = disturbed
    BY <2>1 DEF OpenDatabase, CheckTable, LookForTables, CreateTable, TablesCreated, ReadVersion,
                SkipUpgrade, CreateIfAbsent, RenameKey, LookForColumn, AddColumn, UpgradesDone,
                SetVersion, Die
  <2>2. ASSUME NEW p \in Procs, Signal(p) \/ EarlyInterrupt(p) \/ Kill(p)
        PROVE  Disturb
    BY <2>2 DEF Signal, EarlyInterrupt, Kill
  <2>3. ASSUME NEW p \in Procs, Start(p) \/ InstallHandlers(p) \/ CleanupPidFile(p) \/ Exit(p)
        PROVE  disturbed' = disturbed
    BY <2>3 DEF Start, InstallHandlers, CleanupPidFile, Exit
  <2>4. ASSUME NEW p \in Procs, NEW t \in Tasks, StartJob(p, t) \/ EndJob(p, t)
        PROVE  disturbed' = disturbed
    BY <2>4 DEF StartJob, EndJob
  <2>5. CASE UNCHANGED vars
    BY <2>5 DEF vars
  <2> QED  BY <2>1, <2>2, <2>3, <2>4, <2>5 DEF Next
<1> HIDE DEF D
<1>3. Spec => []D
  BY <1>1, <1>2, PTL DEF Spec
<1> QED  BY <1>3 DEF D

(* A process that is alone on the database always gets it open, whichever  *)
(* release left it and wherever earlier starts were killed: each statement *)
(* of the schema finds what it needs and nothing that it creates.  With a  *)
(* second process both may die of it.                                      *)
THEOREM LoneStartSucceeds ==
  ASSUME NEW me, Procs = {me}
  PROVE  Spec => OpeningSucceeds
<1>1. Init => LoneInv(me)
  BY LoneInit
<1>2. IInv /\ LoneInv(me) /\ disturbed \in Nat /\ [Next]_vars => LoneInv(me)'
  BY LoneStep
<1>3. Spec => []LoneInv(me)
  BY <1>1, <1>2, Inductive, DisturbedIsNat, PTL DEF Spec
<1>4. IInv /\ LoneInv(me) /\ disturbed \in Nat /\ [Next]_vars => [NoneGivesUp]_vars
  BY LoneStep DEF NoneGivesUp
<1> QED  BY <1>3, <1>4, Inductive, DisturbedIsNat, PTL DEF Spec, OpeningSucceeds
=============================================================================
