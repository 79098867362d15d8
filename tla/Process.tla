------------------------------- MODULE Process -------------------------------
(***************************************************************************)
(* movarr as a process: it writes its PID file, opens the database and     *)
(* brings its schema up to date (database.py, _ensure_schema), starts the  *)
(* scheduler, runs the tasks until it gets a signal, and exits             *)
(* (scheduler.py, run and _run_daemon).  It can be killed at every step    *)
(* and is started again, and a second one may be started on the same       *)
(* database: nothing prevents it.                                          *)
(*                                                                         *)
(* SQLite commits each statement that changes the schema by itself, so     *)
(* that each is a step.  The data is abstracted to one entry of the        *)
(* key-value table, the start of the outage that ServiceHealth is about,   *)
(* which the last upgrade renames.                                         *)
(***************************************************************************)
EXTENDS Integers, Sequences, FiniteSets

CONSTANTS
  Procs,            \* processes that may be on one database at a time
  Tasks,            \* scheduled tasks; the search task keeps the entry
  MaxDisturbances   \* bound on signals and kills

ASSUME MaxDisturbancesAssumption == MaxDisturbances \in Nat

Columns == {"imdb_certification", "imdb_cert_source", "stalled_at", "created_at"}
Schema  == Columns \cup {"history", "index", "kv"}

\* What queries need: without the index they are only slower.
Needed  == Schema \ {"index"}

(* _upgrade: what each step adds, and the version from which on it is      *)
(* there.                                                                  *)
Upgrades  == <<"imdb_certification", "imdb_cert_source", "index", "stalled_at",
               "created_at", "kv", "rename">>
RenameIsOld == <<7, 7, 8, 9, 10, 11, 11>>   \* mutant: the last step is taken for done at 11

VersionOf == <<7, 7, 8, 9, 10, 11, 12>>

DbVersion == 12
Steps     == DOMAIN Upgrades

\* The schema a release with this version leaves behind; 0 stands for those
\* before there was one.
SchemaOf(v) == {"history"} \cup ({Upgrades[i] : i \in {i \in Steps : VersionOf[i] <= v}} \ {"rename"})

VARIABLES
  schema,     \* tables, columns and the index that are there
  version,    \* PRAGMA user_version
  keys,       \* names under which the start of the outage is stored
  outage,     \* whether the last search found the proxy down
  proc,       \* per process, where it is
  pid,        \* the process the PID file names, or "none"
  disturbed   \* signals and kills so far

vars == <<schema, version, keys, outage, proc, pid, disturbed>>

Off == [at |-> "off", existed |-> FALSE, missing |-> {}, from |-> 0, step |-> 1,
        jobs |-> {}]

Places == {"off", "open", "look", "create", "read", "upgrade", "add", "seal",
           "started", "running", "stopping", "draining"}

(* No database, or one that an earlier release left.                       *)
Init ==
  /\ \/ schema = {} /\ version = 0 /\ keys = {} /\ outage = FALSE
     \/ \E v \in {0} \cup 6..DbVersion :
          /\ version = v /\ schema = SchemaOf(v)
          /\ outage \in BOOLEAN /\ (outage => v >= 11)
          /\ keys = IF ~outage THEN {} ELSE IF v < 12 THEN {"old"} ELSE {"new"}
  /\ proc = [p \in Procs |-> Off]
  /\ pid = "none" /\ disturbed = 0

At(p, place)   == proc[p].at = place
Goto(p, place) == proc' = [proc EXCEPT ![p].at = place]

database == <<schema, version, keys, outage>>

-----------------------------------------------------------------------------
(* Opening the database. *)

(* run: the PID file is written whatever it says, and the database opened. *)
Start(p) ==
  /\ At(p, "off")
  /\ Goto(p, "open")
  /\ pid' \in {p, pid}         \* _write_pid goes on when it fails
  /\ UNCHANGED <<database, disturbed>>

(* _history_table_exists *)
CheckTable(p) ==
  /\ At(p, "open")
  /\ proc' = [proc EXCEPT ![p].at = "look", ![p].existed = "history" \in schema]
  /\ UNCHANGED <<database, pid, disturbed>>

(* create_all looks which tables are missing, then creates each.           *)
LookForTables(p) ==
  /\ At(p, "look")
  /\ proc' = [proc EXCEPT ![p].at = "create", ![p].missing =
                ({"history", "kv"} \ schema) \cup (IF "history" \in schema THEN {} ELSE {"index"})]
  /\ UNCHANGED <<database, pid, disturbed>>

(* An exception while the database is opened ends the process: run removes *)
(* the PID file, whoever wrote it.                                         *)
Die(p) ==
  /\ proc' = [proc EXCEPT ![p] = Off]
  /\ pid' = "none"
  /\ UNCHANGED <<database, disturbed>>

(* A table is created with all its columns.  If another process was faster *)
(* the statement fails.                                                    *)
NextToCreate(p) ==
  CHOOSE x \in proc[p].missing :
    \/ x = "history"
    \/ x = "index" /\ "history" \notin proc[p].missing
    \/ x = "kv" /\ proc[p].missing = {"kv"}

CreateTable(p) ==
  /\ At(p, "create") /\ proc[p].missing # {}
  /\ LET x == NextToCreate(p) IN
     IF x \in schema THEN Die(p)
     ELSE /\ schema' = schema \cup {x} \cup (IF x = "history" THEN Columns ELSE {})
          /\ proc' = [proc EXCEPT ![p].missing = @ \ {x}]
          /\ UNCHANGED <<version, keys, outage, pid, disturbed>>

TablesCreated(p) ==
  /\ At(p, "create") /\ proc[p].missing = {}
  /\ Goto(p, "read")
  /\ UNCHANGED <<database, pid, disturbed>>

AnyVersionIsNew(p) ==          \* mutant: a table without a version is taken for a new one
  /\ At(p, "read")
  /\ proc' = [proc EXCEPT ![p].from = version, ![p].step = 1,
                ![p].at = IF version = 0 THEN "seal"
                          ELSE IF version < DbVersion THEN "upgrade" ELSE "started"]
  /\ UNCHANGED <<database, pid, disturbed>>

(* _ensure_schema: a table without a version is of an early release.       *)
ReadVersion(p) ==
  /\ At(p, "read")
  /\ proc' = [proc EXCEPT ![p].from = version, ![p].step = 1,
                ![p].at = IF version = 0 /\ ~proc[p].existed THEN "seal"
                          ELSE IF version < DbVersion THEN "upgrade" ELSE "started"]
  /\ UNCHANGED <<database, pid, disturbed>>

NextStep(p) == proc' = [proc EXCEPT ![p].at = "upgrade", ![p].step = @ + 1]

SkipsOneMore(p) ==             \* mutant: the first step of an upgrade is left out
  /\ At(p, "upgrade") /\ proc[p].step \in Steps
  /\ VersionOf[proc[p].step] <= proc[p].from + 1
  /\ NextStep(p)
  /\ UNCHANGED <<database, pid, disturbed>>

(* The steps of versions the database already has are left out.            *)
SkipUpgrade(p) ==
  /\ At(p, "upgrade") /\ proc[p].step \in Steps
  /\ VersionOf[proc[p].step] <= proc[p].from
  /\ NextStep(p)
  /\ UNCHANGED <<database, pid, disturbed>>

(* CREATE INDEX IF NOT EXISTS, CREATE TABLE IF NOT EXISTS: one statement.  *)
CreateIfAbsent(p) ==
  /\ At(p, "upgrade") /\ proc[p].step \in Steps
  /\ VersionOf[proc[p].step] > proc[p].from
  /\ Upgrades[proc[p].step] \in {"index", "kv"}
  /\ schema' = schema \cup {Upgrades[proc[p].step]}
  /\ NextStep(p)
  /\ UNCHANGED <<version, keys, outage, pid, disturbed>>

(* _upgrade_v12_kv_key_rename: the key is the primary key, so that the     *)
(* statement fails when the new name is taken.                             *)
RenameKey(p) ==
  /\ At(p, "upgrade") /\ proc[p].step \in Steps
  /\ VersionOf[proc[p].step] > proc[p].from
  /\ Upgrades[proc[p].step] = "rename"
  /\ IF {"old", "new"} \subseteq keys THEN Die(p)
     ELSE /\ keys' = IF "old" \in keys THEN {"new"} ELSE keys
          /\ NextStep(p)
          /\ UNCHANGED <<schema, version, outage, pid, disturbed>>

NoLook(p) ==                   \* mutant: a column is added without looking for it
  /\ At(p, "upgrade") /\ proc[p].step \in Steps
  /\ VersionOf[proc[p].step] > proc[p].from
  /\ Upgrades[proc[p].step] \in Columns
  /\ Goto(p, "add")
  /\ UNCHANGED <<database, pid, disturbed>>

(* _add_column_if_absent looks first, and adds the column in a second      *)
(* statement.                                                              *)
LookForColumn(p) ==
  /\ At(p, "upgrade") /\ proc[p].step \in Steps
  /\ VersionOf[proc[p].step] > proc[p].from
  /\ Upgrades[proc[p].step] \in Columns
  /\ IF Upgrades[proc[p].step] \in schema THEN NextStep(p) ELSE Goto(p, "add")
  /\ UNCHANGED <<database, pid, disturbed>>

AddColumn(p) ==
  /\ At(p, "add")
  /\ IF Upgrades[proc[p].step] \in schema THEN Die(p)
     ELSE /\ schema' = schema \cup {Upgrades[proc[p].step]}
          /\ NextStep(p)
          /\ UNCHANGED <<version, keys, outage, pid, disturbed>>

UpgradesDone(p) ==
  /\ At(p, "upgrade") /\ proc[p].step \notin Steps
  /\ Goto(p, "seal")
  /\ UNCHANGED <<database, pid, disturbed>>

(* _set_user_version, after all the steps.                                 *)
SetVersion(p) ==
  /\ At(p, "seal")
  /\ version' = DbVersion
  /\ Goto(p, "started")
  /\ UNCHANGED <<schema, keys, outage, pid, disturbed>>

OpenDatabase(p) ==
  \/ CheckTable(p) \/ LookForTables(p) \/ CreateTable(p) \/ TablesCreated(p)
  \/ ReadVersion(p) \/ SkipUpgrade(p) \/ CreateIfAbsent(p) \/ RenameKey(p)
  \/ LookForColumn(p) \/ AddColumn(p) \/ UpgradesDone(p) \/ SetVersion(p)

-----------------------------------------------------------------------------
(* The scheduler and its end. *)

JobsGoOn(p, t) ==              \* mutant: the scheduler is not shut down
  /\ proc[p].at \in {"started", "running", "stopping", "draining"}
  /\ t \notin proc[p].jobs
  /\ proc' = [proc EXCEPT ![p].jobs = @ \cup {t}]
  /\ UNCHANGED <<database, pid, disturbed>>

(* The scheduler runs before the handlers are there; a task that is to run *)
(* at the start does so at once.  max_instances is 1.                      *)
StartJob(p, t) ==
  /\ At(p, "started") \/ At(p, "running")
  /\ t \notin proc[p].jobs
  /\ proc' = [proc EXCEPT ![p].jobs = @ \cup {t}]
  /\ UNCHANGED <<database, pid, disturbed>>

(* A search stores, under the name of this version, since when the proxy   *)
(* is down, or deletes that (ServiceHealth).                               *)
EndJob(p, t) ==
  /\ t \in proc[p].jobs
  /\ proc' = [proc EXCEPT ![p].jobs = @ \ {t}]
  /\ IF t = "search"
       THEN /\ outage' \in BOOLEAN
            /\ keys' = IF outage' THEN keys \cup {"new"} ELSE keys \ {"new"}
       ELSE UNCHANGED <<outage, keys>>
  /\ UNCHANGED <<schema, version, pid, disturbed>>

InstallHandlers(p) ==
  /\ At(p, "started")
  /\ Goto(p, "running")
  /\ UNCHANGED <<database, pid, disturbed>>

Disturb == disturbed < MaxDisturbances /\ disturbed' = disturbed + 1

(* _shutdown: the scheduler stops, running tasks are not waited for.       *)
Signal(p) ==
  /\ Disturb
  /\ At(p, "running")
  /\ Goto(p, "stopping")
  /\ UNCHANGED <<database, pid>>

(* An interrupt before the handlers are there is an exception, and         *)
(* _cleanup_pid_file runs.                                                 *)
EarlyInterrupt(p) ==
  /\ Disturb
  /\ proc[p].at \notin {"off", "running", "stopping", "draining"}
  /\ proc' = [proc EXCEPT ![p] = [Off EXCEPT !.at = "draining", !.jobs = proc[p].jobs]]
  /\ pid' = "none"
  /\ UNCHANGED database

(* SIGKILL, a crash of the machine, or SIGTERM before the handlers are     *)
(* there: nothing is cleaned up.                                           *)
Kill(p) ==
  /\ Disturb
  /\ ~At(p, "off")
  /\ proc' = [proc EXCEPT ![p] = Off]
  /\ UNCHANGED <<database, pid>>

(* The main thread ends, and the PID file is gone while the tasks may      *)
(* still be at work.                                                       *)
CleanupPidFile(p) ==
  /\ At(p, "stopping")
  /\ Goto(p, "draining")
  /\ pid' = "none"
  /\ UNCHANGED <<database, disturbed>>

(* The interpreter waits for the threads of the tasks.                     *)
Exit(p) ==
  /\ At(p, "draining") /\ proc[p].jobs = {}
  /\ proc' = [proc EXCEPT ![p] = Off]
  /\ UNCHANGED <<database, pid, disturbed>>

Next ==
  \E p \in Procs :
    \/ Start(p) \/ OpenDatabase(p) \/ InstallHandlers(p)
    \/ \E t \in Tasks : StartJob(p, t) \/ EndJob(p, t)
    \/ Signal(p) \/ EarlyInterrupt(p) \/ Kill(p)
    \/ CleanupPidFile(p) \/ Exit(p)

Spec == Init /\ [][Next]_vars

-----------------------------------------------------------------------------
(* Properties. *)

TypeOK ==
  /\ schema \subseteq Schema /\ version \in 0..DbVersion
  /\ keys \subseteq {"old", "new"} /\ outage \in BOOLEAN
  /\ proc \in [Procs -> [at : Places, existed : BOOLEAN, missing : SUBSET Schema,
                        from : 0..DbVersion, step : 1..Len(Upgrades) + 1, jobs : SUBSET Tasks]]
  /\ pid \in Procs \cup {"none"} /\ disturbed \in 0..MaxDisturbances

(* The version is only ever set on a schema that has what a release of     *)
(* this version reads and writes: an upgrade that was interrupted, or that *)
(* ran into another one, is taken up again and not taken for done.         *)
VersionTellsSchema == version # 0 => Needed \cap SchemaOf(version) \subseteq schema

(* No task runs on a database that lacks a table or a column.              *)
TasksHaveSchema ==
  \A p \in Procs : proc[p].jobs # {} \/ proc[p].at \in {"started", "running"} => Needed \subseteq schema

(* An upgrade does not lose an outage that is going on: once tasks run,    *)
(* they find its start under the name they look for, and it is there once. *)
OutageSurvives ==
  /\ Cardinality(keys) <= 1
  /\ outage <=> keys # {}
  /\ \A p \in Procs : proc[p].jobs # {} \/ proc[p].at \in {"started", "running"} => "old" \notin keys

(* What is started goes on, and a task comes to an end.                    *)
Fairness ==
  \A p \in Procs :
    /\ WF_vars(Start(p)) /\ WF_vars(OpenDatabase(p)) /\ WF_vars(InstallHandlers(p))
    /\ WF_vars(CleanupPidFile(p)) /\ WF_vars(Exit(p))
    /\ \A t \in Tasks : WF_vars(EndJob(p, t))

FairSpec == Spec /\ Fairness

(* A signal ends the process, whatever runs at that time.                  *)
SignalEndsProcess == \A p \in Procs : At(p, "stopping") ~> At(p, "off")

(* However often starts are cut off or collide, every process is up at     *)
(* last.                                                                   *)
AllUp == <>[](\A p \in Procs : At(p, "running"))
=============================================================================
