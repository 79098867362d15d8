----------------------------- MODULE Configuration -----------------------------
(***************************************************************************)
(* The configuration file and its migrations (config.py): read, back up,   *)
(* migrate, rewrite, with a crash anywhere in between and a user who edits *)
(* the file and puts backups back.  A file is the version in it, its       *)
(* sections with nothing in them (YAML's null), and a value for one        *)
(* setting of each kind that a migration treats differently: "user",       *)
(* "file" (a path that still ends in its file name) and "small" (a timeout *)
(* in seconds that is no number, or comes to 0.0 minutes) are the user's.  *)
(* Versions are numbered along the chain of MIGRATIONS, 1 for 1.0.0 up to  *)
(* Current for 2.23.0; 0 is a file without a version.                      *)
(***************************************************************************)
EXTENDS Naturals

CONSTANTS
  Hand,            \* files a user may have written, or kept from an old version
  Absent, Torn     \* no file; a file that is no YAML mapping

Current == 25

Sections == {"notification", "schedule", "filters", "queue_management", "index_site"}
Settings == {"run_on_start", "allow_list", "reject_list", "delete_data", "jackett_ignore_list",
             "hook_timeout_mins", "path", "circuit_open_minutes"}
Retired  == {"email", "ffprobe_path", "good_list", "bad_list", "ignore_list", "hook_timeout_secs"}
Keys     == Settings \cup Retired

Content == [version : 0..Current, empty : SUBSET Sections,
            value : [Keys -> {"none", "null", "default", "user", "file", "small"}]]

ASSUME HandAssumption == Hand \subseteq Content /\ Absent \notin Content /\ Torn \notin Content

Blank == [version |-> 0, empty |-> {}, value |-> [k \in Keys |-> "none"]]

-----------------------------------------------------------------------------
(* The migrations, on the values. *)

SetDefault(f, k) == IF f[k] = "none" THEN [f EXCEPT ![k] = "default"] ELSE f
Rename(f, old, new) ==
  IF f[old] = "none" THEN f ELSE [f EXCEPT ![new] = f[old], ![old] = "none"]

(* An empty list is dropped, and an existing one of the proxy stays.       *)
MoveIgnoreList(f) ==
  [f EXCEPT !["jackett_ignore_list"] =
              IF f["ignore_list"] = "user" /\ @ = "none" THEN "user" ELSE @,
            !["ignore_list"] = "none"]

DefaultFirst(f) ==             \* mutant: the default is set before the conversion
  [SetDefault(f, "hook_timeout_mins") EXCEPT !["hook_timeout_secs"] = "none"]

(* Seconds become minutes, rounded to one decimal, unless there are        *)
(* minutes.  What is no number, or is not above 0.0 after the rounding, is *)
(* dropped for the default.                                                *)
ConvertTimeout(f) ==
  SetDefault([f EXCEPT !["hook_timeout_mins"] =
                         IF @ = "none" /\ f["hook_timeout_secs"] \in {"user", "default"}
                         THEN f["hook_timeout_secs"] ELSE @,
                       !["hook_timeout_secs"] = "none"], "hook_timeout_mins")

(* The settings of a version: those not yet retired and those already      *)
(* there.  A file fits when it has no others, a path to a file only where  *)
(* paths are, and small only the timeout in seconds.                       *)
Schema(v) ==
  {k \in Keys :
     CASE k = "email" -> v = 1          [] k = "ffprobe_path" -> v \in 1..7
       [] k = "run_on_start" -> v > 5
       [] k = "good_list" -> v < 9      [] k = "allow_list" -> v > 8
       [] k = "bad_list" -> v < 10      [] k = "reject_list" -> v > 9
       [] k = "ignore_list" -> v < 18   [] k = "jackett_ignore_list" -> v > 17
       [] k = "hook_timeout_secs" -> v = 19 [] k = "hook_timeout_mins" -> v > 19
       [] k = "circuit_open_minutes" -> v > 24
       [] OTHER -> TRUE}

FitsSchema(c) ==
  \A k \in Keys : /\ c.value[k] = "file" => k = "path"
                  /\ c.value[k] = "small" => k = "hook_timeout_secs"
                  /\ c.version # 0 /\ k \notin Schema(c.version) => c.value[k] = "none"

(* From version i to the next; the others add settings to which nothing    *)
(* else happens.                                                           *)
Migrate(i, f) ==
  CASE i = 1  -> [f EXCEPT !["email"] = "none"]
    [] i = 5  -> SetDefault(f, "run_on_start")
    [] i = 7  -> [f EXCEPT !["ffprobe_path"] = "none"]
    [] i = 8  -> Rename(f, "good_list", "allow_list")
    [] i = 9  -> Rename(f, "bad_list", "reject_list")
    [] i = 13 -> [f EXCEPT !["delete_data"] = "default"]
    [] i = 17 -> MoveIgnoreList(f)
    [] i = 18 -> SetDefault(f, "hook_timeout_mins")
    [] i = 19 -> ConvertTimeout(f)
    [] i = 20 -> [f EXCEPT !["path"] = IF @ = "file" THEN "user" ELSE @]
    [] i = 24 -> SetDefault(f, "circuit_open_minutes")
    [] OTHER  -> f

FirstVersion(c) == IF c.version = 0 THEN 1 ELSE c.version
Outdated(c) == FirstVersion(c) < Current

Migrated(c) ==
  LET at[i \in FirstVersion(c)..Current] ==
        IF i = FirstVersion(c) THEN c.value ELSE Migrate(i - 1, at[i - 1])
  IN  at[Current]

(* A migration written by hand trips over an empty section, unless one of  *)
(* the table has filled it before.                                         *)
TripsOver(i) ==
  CASE i = 1 -> "notification" [] i = 5 -> "schedule" [] i \in {8, 9} -> "filters"
    [] i = 13 -> "queue_management" [] i = 17 -> "index_site" [] OTHER -> "nothing"

Fills(i) == IF i = 6 THEN {"index_site"} ELSE {}

MigrationFails(c) ==
  \E i \in FirstVersion(c)..(Current - 1) :
    /\ TripsOver(i) \in c.empty
    /\ \A j \in FirstVersion(c)..(i - 1) : TripsOver(i) \notin Fills(j)

(* What the program uses, and what it writes back.                         *)
Given(f, k) == f[k] \notin {"none", "null"}
Effective(f) == [k \in Settings |-> IF Given(f, k) THEN f[k] ELSE "default"]

RawValues(c) ==                \* mutant: the file gets the settings as they were read
  [version |-> Current, empty |-> {}, value |-> [k \in Keys |-> c.value[k]]]

Merged(c) ==
  LET f == Migrated(c)
  IN  [version |-> Current, empty |-> {},
       value |-> [k \in Keys |-> IF Given(f, k) THEN f[k]
                                 ELSE IF k \in Settings THEN "default" ELSE "none"]]

HasNone(c) == c.empty # {} \/ \E k \in Keys : c.value[k] = "null"
Stripped(c) ==
  [c EXCEPT !.empty = {}, !.value = [k \in Keys |-> IF Given(@, k) THEN @[k] ELSE "none"]]

OneBackup(c) == 1              \* mutant: a single backup file
BackupName(c) == FirstVersion(c)

-----------------------------------------------------------------------------
VARIABLES
  file, backups,   \* the file and its backups, by version
  pc,              \* load_config
  raw,             \* the file as load_config read it
  loaded,          \* the configuration of the last start, Absent if the file changed since
  written,         \* what the user wrote last (a history variable)
  refused          \* a backup of it failed (a history variable)

vars == <<file, backups, pc, raw, loaded, written, refused>>

Init ==
  /\ file \in Hand \cup {Absent} /\ written = file
  /\ backups = [v \in 1..(Current - 1) |-> Absent]
  /\ pc = "down" /\ raw = Blank /\ loaded = Absent /\ refused = FALSE

(* The user edits the file, or puts a backup that looks whole back.        *)
UserWrites ==
  /\ pc \in {"down", "up"}
  /\ \E c \in Hand \cup ({backups[v] : v \in DOMAIN backups} \ {Absent, Torn, Blank}) :
       file' = c /\ written' = c
  /\ loaded' = Absent /\ refused' = FALSE
  /\ UNCHANGED <<backups, pc, raw>>

(* Opening the file for writing empties it.                                *)
BeginDefault ==
  /\ pc = "down" /\ file = Absent
  /\ file' = Blank /\ pc' = "default"
  /\ UNCHANGED <<backups, raw, loaded, written, refused>>

EndDefault ==
  /\ pc = "default"
  /\ file' = Merged(Blank) /\ pc' = "down"
  /\ UNCHANGED <<backups, raw, loaded, written, refused>>

(* load_config raises on a torn file.                                      *)
Read ==
  /\ pc = "down" /\ file \notin {Absent, Torn}
  /\ raw' = file
  /\ \/ Outdated(file) /\ pc' = "backup" /\ UNCHANGED <<file, loaded>>
     \/ ~Outdated(file) /\ HasNone(file) /\ pc' = "strip" /\ file' = Blank /\ UNCHANGED loaded
     \/ ~Outdated(file) /\ ~HasNone(file) /\ pc' = "up"
        /\ loaded' = Effective(file.value) /\ UNCHANGED file
  /\ UNCHANGED <<backups, written, refused>>

EndStrip ==
  /\ pc = "strip"
  /\ file' = Stripped(raw) /\ loaded' = Effective(raw.value) /\ pc' = "up"
  /\ UNCHANGED <<backups, raw, written, refused>>

(* A backup that fails is only a warning, and may leave a torn copy.       *)
Backup ==
  /\ pc = "backup" /\ pc' = "migrate"
  /\ \/ backups' = [backups EXCEPT ![BackupName(raw)] = file] /\ UNCHANGED refused
     \/ \E c \in {backups[BackupName(raw)], Torn} :
          backups' = [backups EXCEPT ![BackupName(raw)] = c] /\ refused' = TRUE
  /\ UNCHANGED <<file, raw, loaded, written>>

BeginRewrite ==
  /\ pc = "migrate"
  /\ \/ MigrationFails(raw) /\ pc' = "down" /\ UNCHANGED file
     \/ ~MigrationFails(raw) /\ pc' = "rewrite" /\ file' = Blank
  /\ UNCHANGED <<backups, raw, loaded, written, refused>>

EndRewrite ==
  /\ pc = "rewrite"
  /\ file' = Merged(raw) /\ loaded' = Effective(Migrated(raw)) /\ pc' = "up"
  /\ UNCHANGED <<backups, raw, written, refused>>

Stop ==
  /\ pc = "up" /\ pc' = "down"
  /\ UNCHANGED <<file, backups, raw, loaded, written, refused>>

(* A crash leaves a file that was being written empty, torn, or cut off    *)
(* after the version, which is in the first section.                       *)
CutOff == [Blank EXCEPT !.version = Current]

Crash ==
  /\ pc' = "down" /\ loaded' = Absent
  /\ \/ pc \in {"default", "strip", "rewrite"} /\ file' \in {Blank, Torn, CutOff} /\ UNCHANGED backups
     \/ pc = "backup" /\ UNCHANGED file
        /\ \E c \in {backups[BackupName(raw)], Blank, Torn} :
             backups' = [backups EXCEPT ![BackupName(raw)] = c]
  /\ UNCHANGED <<raw, written, refused>>

Next ==
  \/ UserWrites \/ BeginDefault \/ EndDefault \/ Read \/ EndStrip
  \/ Backup \/ BeginRewrite \/ EndRewrite \/ Stop \/ Crash

Spec == Init /\ [][Next]_vars

-----------------------------------------------------------------------------
(* README.md:37: "backing up the previous version before applying          *)
(* changes".  Through any crashes and restarts, the settings of an old     *)
(* file whose backup did not fail are in the file, migrated or not, or in  *)
(* a backup.  Version 1.0.0 is the subject of BackupSurvives.              *)
Kept ==
  \/ file \in {written, Merged(written)}
  \/ \E v \in DOMAIN backups : backups[v] = written

SettingsSurvive ==
  written # Absent /\ ~refused => (written.version \in 2..(Current - 1) => Kept)

(* config.py:837: "a single backup of the original file is created before  *)
(* the first migration step".  The settings of any file that is migrated   *)
(* survive.                                                                *)
BackupSurvives ==
  written # Absent /\ ~refused => (Outdated(written) => Kept)

(* A start that nothing disturbed since the last one yields the same       *)
(* configuration: what is written back is what was used.                   *)
StableRestart ==
  [][pc # "up" /\ pc' = "up" /\ loaded # Absent => loaded' = loaded]_vars

(* What became of a retired setting.                                       *)
Successor(k) ==
  CASE k = "good_list" -> "allow_list" [] k = "bad_list" -> "reject_list"
    [] k = "ignore_list" -> "jackett_ignore_list"
    [] k = "hook_timeout_secs" -> "hook_timeout_mins" [] OTHER -> k

(* The chain carries every setting of the user's to its place in the       *)
(* present schema, whatever version it starts from, with four exceptions.  *)
(* Two have no place there, 2.12.0 sets delete_data on purpose, and a      *)
(* small hook_timeout_secs, of 2 s say, becomes the default of 5 minutes,  *)
(* though the docstring of the migration (config.py:276) speaks of any     *)
(* existing value.  A file without a version is taken for 1.0.0, whatever  *)
(* is in it.                                                               *)
CarriedOver ==
  [][(pc # "up" /\ pc' = "up" /\ raw'.version # 0) =>
       \A k \in Keys \ {"email", "ffprobe_path"} :
         /\ raw'.value[k] \in {"user", "file"}
         /\ k = "delete_data" => raw'.version > 13
         => loaded'[Successor(k)] \in {"user", "file"}]_vars
=============================================================================
