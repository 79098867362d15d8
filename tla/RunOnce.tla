-------------------------------- MODULE RunOnce --------------------------------
(***************************************************************************)
(* Single passes (scheduler.py, run_once), again and again: a search, then *)
(* queue management, then post-processing, one after the other and each on *)
(* what the one before left.  run only comes to run_once when every task   *)
(* is disabled, and then it does nothing: a pass as here is one of a       *)
(* caller of run_once, or of a scheduler whose tasks do not overlap, and   *)
(* Movarr has those that do.  With the interleavings                       *)
(* of Movarr and Library out of the way, this module looks at what the     *)
(* comparisons of Quality do to the queue and the library of one movie in  *)
(* the long run.  copy_completed and remove_completed are on, their        *)
(* default; the names in the client and in the library carry the features  *)
(* of the index title; the client lists a torrent as soon as it is added.  *)
(***************************************************************************)
EXTENDS Quality

CONSTANTS
  Releases,          \* releases of the movie the indexer offers, or the user owns
  Features,          \* what parsing yields for each of them
  Owned,             \* releases whose file may be in the library from the start
  SupersedeEnabled,  \* queue_management.supersede_enabled
  DeleteLower        \* post_process.delete_lower_quality

ASSUME FeaturesAssumption == Features \in [Releases -> Feature]
ASSUME OwnedAssumption    == Owned \subseteq Releases
ASSUME SwitchesAssumption == SupersedeEnabled \in BOOLEAN /\ DeleteLower \in BOOLEAN

VARIABLES
  phase,      \* the task that runs
  row,        \* per release, the result of its history row
  client,     \* per release, its torrent in the client
  shelf,      \* releases whose file is in the library
  walk,       \* the library as the search found it
  replaced    \* releases whose file was deleted as superseded (a history variable)

vars == <<phase, row, client, shelf, walk, replaced>>

Init ==
  /\ phase = "idle"
  /\ row = [r \in Releases |-> "none"]
  /\ client = [r \in Releases |-> "none"]
  /\ shelf \in SUBSET Owned
  /\ walk = {} /\ replaced = {}

InClient == {r \in Releases : client[r] # "none"}
SameEdition(r, s) == Features[r].edition = Features[s].edition

(* Rows found by tag: a Failed row has none.                               *)
Tagged(r) == row[r] \in {"Passed", "Stalled", "Completed"}
MarkedAs(result, S) == [r \in Releases |-> IF r \in S /\ Tagged(r) THEN result ELSE row[r]]

-----------------------------------------------------------------------------
(* The search. *)

(* _search_with_expiry: rows that are old enough are forgotten.            *)
BeginSearch ==
  /\ phase = "idle"
  /\ phase' = "search"
  /\ \E S \in SUBSET {r \in Releases : row[r] \in {"Failed", "Passed", "Stalled"}} :
       row' = [r \in Releases |-> IF r \in S THEN "none" ELSE row[r]]
  /\ walk' = shelf
  /\ UNCHANGED <<client, shelf, replaced>>

(* _check_library: a title without a resolution is rejected.               *)
PassesLibrary(r) ==
  Features[r].resolution # 0 /\ \A s \in walk : BetterThanFile(Features[r], Features[s])

OnlyLoading(r) ==              \* mutant: finished torrents are left alone
  IF SupersedeEnabled THEN {s \in Releases : client[s] = "loading"} ELSE {}

(* _collect_supersede_matches *)
Matches(r) == IF SupersedeEnabled THEN InClient ELSE {}

Fail(r) ==
  /\ row' = [row EXCEPT ![r] = "Failed"]
  /\ UNCHANGED client

(* One result without a row: another filter rejects it, the library or the *)
(* queue holds something as good, or it is queued and takes the place of   *)
(* what is in the queue.  A hash the client has keeps its torrent.         *)
TakeResult(r) ==
  /\ phase = "search"
  /\ row[r] = "none"
  /\ LET Outranked == \E s \in Matches(r) : ~Supersedes(Features[r], Features[s])
     IN  \/ Fail(r)
         \/ /\ PassesLibrary(r) /\ ~Outranked
            /\ row' = [MarkedAs("Stalled", Matches(r)) EXCEPT ![r] = "Passed"]
            /\ client' = [s \in Releases |->
                            CASE s \in Matches(r) -> "none"
                              [] s = r /\ client[r] = "none" -> "loading"
                              [] OTHER -> client[s]]
  /\ UNCHANGED <<phase, shelf, walk, replaced>>

EndSearch ==
  /\ phase = "search"
  /\ phase' = "queue"
  /\ UNCHANGED <<row, client, shelf, walk, replaced>>

-----------------------------------------------------------------------------
(* run_queue_management: torrents that are stuck go, their rows stall.     *)
ManageQueue ==
  /\ phase = "queue"
  /\ phase' = "post"
  /\ \E S \in SUBSET {r \in Releases : client[r] = "loading"} :
       /\ client' = [r \in Releases |-> IF r \in S THEN "none" ELSE client[r]]
       /\ row' = MarkedAs("Stalled", S)
  /\ UNCHANGED <<shelf, walk, replaced>>

-----------------------------------------------------------------------------
(* run_post_processing *)

(* _delete_superseded_loop: every other file of the edition.               *)
Superseded(r) == IF DeleteLower THEN {s \in shelf \ {r} : SameEdition(r, s)} ELSE {}

(* _process_one: copy, mark, delete what is superseded, remove.  A torrent *)
(* without a row is skipped.                                               *)
ProcessFinished(r) ==
  /\ phase = "post"
  /\ client[r] = "done"
  /\ Tagged(r)
  /\ row' = [row EXCEPT ![r] = "Completed"]
  /\ shelf' = (shelf \ Superseded(r)) \cup {r}
  /\ replaced' = (replaced \cup Superseded(r)) \ {r}
  /\ client' = [client EXCEPT ![r] = "none"]
  /\ UNCHANGED <<phase, walk>>

EndRun ==
  /\ phase = "post"
  /\ \A r \in Releases : client[r] = "done" => ~Tagged(r)
  /\ phase' = "idle"
  /\ UNCHANGED <<row, client, shelf, walk, replaced>>

(* A download finishes while no task looks.                                *)
Finish(r) ==
  /\ client[r] = "loading"
  /\ client' = [client EXCEPT ![r] = "done"]
  /\ UNCHANGED <<phase, row, shelf, walk, replaced>>

Next ==
  \/ BeginSearch \/ EndSearch \/ ManageQueue \/ EndRun
  \/ \E r \in Releases : TakeResult(r) \/ ProcessFinished(r) \/ Finish(r)

Spec == Init /\ [][Next]_vars

-----------------------------------------------------------------------------
(* Every variable holds what the tasks store in it.                        *)
TypeOK ==
  /\ phase \in {"idle", "search", "queue", "post"}
  /\ row \in [Releases -> {"none", "Failed", "Passed", "Stalled", "Completed"}]
  /\ client \in [Releases -> {"none", "loading", "done"}]
  /\ shelf \subseteq Releases /\ walk \subseteq Releases /\ replaced \subseteq Releases

(* README.md:269: files are deleted "when a better version is copied".     *)
(* With supersession there is never more than one torrent of the movie, so *)
(* that the library check made when it was queued still holds when it is   *)
(* copied: every file deleted gives way to one that is above it.           *)
UpgradesOnly ==
  [][SupersedeEnabled =>
       \A s \in shelf \ shelf' : \E r \in shelf' \ shelf : Above(Features[r], Features[s])]_vars

(* Replacement does not go in circles: what is in the queue is above every *)
(* file of its edition that was ever replaced, whatever was forgotten in   *)
(* the meantime.                                                           *)
NoWayBack ==
  SupersedeEnabled => \A r \in InClient, s \in replaced :
    SameEdition(r, s) => Above(Features[r], Features[s])
=============================================================================
