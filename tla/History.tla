------------------------------- MODULE History -------------------------------
(***************************************************************************)
(* The history table of database.py: the rows, and the queries that the    *)
(* three tasks run on it.  Every query opens its own session and commits   *)
(* once, so each operator here is one atomic step of the module that uses  *)
(* it.  A row keeps the columns the control flow reads: index_title,       *)
(* torrent_tag and result.  created_at and stalled_at are abstracted to    *)
(* one field: age is "due" when the column the row's expiry looks at lies  *)
(* before the cutoff.                                                      *)
(***************************************************************************)
EXTENDS Naturals

CONSTANTS
  Titles,     \* index titles; a title is also one torrent, hence one hash
  MaxTag,     \* bound on the tags add_torrent issues (uuid4 in the code)
  Expiring    \* results whose *_expiry_days setting is positive

ASSUME TitlesAssumption == Titles # {}
ASSUME MaxTagAssumption == MaxTag \in Nat
ASSUME ExpiringAssumption == Expiring \subseteq {"Stalled", "Failed", "Passed"}

Results == {"Failed", "Passed", "Stalled", "Completed"}

\* A torrent_tag column that is NULL, a torrent without a movarr- tag.
NoTag == 0
Tags  == 1..MaxTag

Row == [title : Titles, tag : Tags \cup {NoTag}, result : Results, age : {"recent", "due"}]

-----------------------------------------------------------------------------
(* Database.write: insert, without looking for an existing row. *)
Write(rows, title, tag, result) ==
  rows \cup {[title |-> title, tag |-> tag, result |-> result, age |-> "recent"]}

HasPassed(rows, title) ==      \* mutant: the lookup of has_passed
  \E r \in rows : r.title = title /\ r.result \in {"Passed", "Completed", "Stalled"}

(* is_duplicate_exact: a row with this title, whatever its result. *)
IsDuplicateExact(rows, title) == \E r \in rows : r.title = title

(* find_by_tag *)
FindByTag(rows, tag) == {r \in rows : r.tag = tag}

(* UPDATE history SET ... WHERE torrent_tag = tag: no row, no effect. *)
Marked(r, result) == [r EXCEPT !.result = result, !.age = "recent"]

UpdateByTag(rows, tag, result) ==
  {r \in rows : r.tag # tag} \cup {Marked(r, result) : r \in FindByTag(rows, tag)}

(* mark_stalled does not look at the result it overwrites, and stamps      *)
(* stalled_at with the current time.                                       *)
MarkStalled(rows, tag) == UpdateByTag(rows, tag, "Stalled")

(* mark_completed *)
MarkCompleted(rows, tag) == UpdateByTag(rows, tag, "Completed")

(* A row's timestamp falls behind the cutoff.  Completed rows have none.   *)
MayAge(rows) == {r \in rows : r.result \in Expiring /\ r.age = "recent"}
Aged(rows, r) == (rows \ {r}) \cup {[r EXCEPT !.age = "due"]}

(* expire_stalled, expire_failed, expire_passed, in the order              *)
(* _search_with_expiry calls them.  They touch disjoint sets of rows and   *)
(* no other task turns a row one of them has skipped into a row a later    *)
(* one deletes (a mark stamps the current time), so the three commits are  *)
(* one step.  The query also asks that the timestamp is not NULL           *)
(* (database.py:346); the rows of this model always have theirs: write     *)
(* stamps created_at and mark_stalled stalled_at.                          *)
ExpireByResult(rows, result) == {r \in rows : ~(r.result = result /\ r.age = "due")}

ExpireNotPassed(rows) ==       \* mutant: passed_expiry_days is ignored
  ExpireByResult(ExpireByResult(rows, "Stalled"), "Failed")

ExpireAll(rows) ==
  ExpireByResult(ExpireByResult(ExpireByResult(rows, "Stalled"), "Failed"), "Passed")

(* What the table says of a title, given that no title has two rows.       *)
StatusOf(rows, title) ==
  IF IsDuplicateExact(rows, title)
    THEN (CHOOSE r \in rows : r.title = title).result
    ELSE "None"
=============================================================================
