-------------------------------- MODULE Movarr --------------------------------
(***************************************************************************)
(* The three scheduled tasks of movarr and the two stores they share:      *)
(* the history table (database.py) and the torrent client                  *)
(* (qbittorrent.py).  APScheduler runs each task on a thread of its own    *)
(* and never two runs of one task, so the system is three sequential       *)
(* threads that interleave at every query and every client call:           *)
(*   search  _search_with_expiry and run_search   (scheduler.py, search.py)*)
(*   qm      run_queue_management                 (queue_manager.py)       *)
(*   pp      run_post_processing                  (post_processor.py)      *)
(* The torrent client is external: a torrent is visible some time after    *)
(* the add call was answered, or never.  A torrent's hash is identified    *)
(* with the index title it was added for.                                  *)
(***************************************************************************)
EXTENDS History

CONSTANTS
  MovieOf,           \* the IMDb id a title resolves to
  Score,             \* quality of a title, as supersession compares it
  NameScore,         \* quality read from the name the client shows for it
  SupersedeEnabled,  \* queue_management.supersede_enabled
  Monitors,          \* the torrent states whose monitor is enabled
  CopyCompleted,     \* post_process.copy_completed
  RemoveCompleted,   \* post_process.remove_completed
  Manual,            \* titles whose torrents the user adds or removes by hand
  Faults             \* failed calls, aborted runs and crashes happen

ASSUME ScoreAssumption == /\ Score \in [Titles -> Nat]
                          /\ NameScore \in [Titles -> Nat]
ASSUME MonitorsAssumption == Monitors \subseteq {"metaDL", "stalledDL"}
ASSUME SwitchAssumption == /\ SupersedeEnabled \in BOOLEAN
                           /\ CopyCompleted \in BOOLEAN
                           /\ RemoveCompleted \in BOOLEAN
                           /\ Faults \in BOOLEAN
ASSUME ManualAssumption == Manual \subseteq Titles

VARIABLES
  history,    \* rows of the history table
  client,     \* torrents of movarr's category in the torrent client
  pending,    \* adds the client has answered but not carried out
  nextTag,    \* the next tag add_torrent issues
  search,     \* the search thread
  qm,         \* the queue management thread
  pp,         \* the post-processing thread
  library     \* what was ever copied to the library (a history variable)

vars == <<history, client, pending, nextTag, search, qm, pp, library>>

Entry   == [title : Titles, tag : Tags]
Slot    == [title : Titles, tag : Tags \cup {NoTag}]
States  == {"metaDL", "downloading", "stalledDL", "done"}
Torrent == [title : Titles, tag : Tags \cup {NoTag}, state : States]

SearchState == [pc : {"idle", "scan", "filter", "queue", "persist", "mark", "delete"},
                new : Slot, todo : SUBSET Entry, victim : Slot]
QueueState  == [pc : {"idle", "list", "work"}, pass : {"metaDL", "stalledDL"},
                todo : SUBSET Entry, gone : SUBSET Entry]
PostState   == [pc : {"idle", "loop", "mark", "remove"},
                todo : SUBSET Entry, cur : Slot]

NoEntry    == [title |-> CHOOSE t \in Titles : TRUE, tag |-> NoTag]
SearchIdle == [pc |-> "idle", new |-> NoEntry, todo |-> {}, victim |-> NoEntry]
QueueIdle  == [pc |-> "idle", pass |-> "metaDL", todo |-> {}, gone |-> {}]
PostIdle   == [pc |-> "idle", todo |-> {}, cur |-> NoEntry]

Init ==
  /\ history = {} /\ client = {} /\ pending = {} /\ library = {}
  /\ nextTag = 1
  /\ search = SearchIdle /\ qm = QueueIdle /\ pp = PostIdle

-----------------------------------------------------------------------------
(* The torrent client (external). *)

WholeCategory == client        \* mutant: the tag is not looked at

(* Torrents with a movarr- tag: what extract_movarr_tag finds one in.      *)
Tagged == {x \in client : x.tag # NoTag}

EntryOf(x) == [title |-> x.title, tag |-> x.tag]

(* A call either works or is refused; delete_torrent returns which.        *)
Outcomes == IF Faults THEN BOOLEAN ELSE {TRUE}

Paused(title, ok) == client    \* mutant: the torrent is stopped, not deleted

(* torrents_delete goes by hash: it removes whatever has the hash now, and *)
(* is answered with success when nothing has.                              *)
Deleted(title, ok) == IF ok THEN {x \in client : x.title # title} ELSE client

(* The client carries out an add.  A hash it has already keeps its         *)
(* torrent, with the tags it had.                                          *)
FetchTorrent(e) ==
  /\ pending' = pending \ {e}
  /\ client' = IF \E x \in client : x.title = e.title
                 THEN client
                 ELSE client \cup {[title |-> e.title, tag |-> e.tag, state |-> "metaDL"]}
  /\ UNCHANGED <<history, nextTag, search, qm, pp, library>>

(* The add fails after it was answered: a dead link, a refused magnet.     *)
DropTorrent(e) ==
  /\ pending' = pending \ {e}
  /\ UNCHANGED <<history, client, nextTag, search, qm, pp, library>>

Advances(from, to) ==
  <<from, to>> \in {<<"metaDL", "downloading">>, <<"downloading", "stalledDL">>,
                    <<"stalledDL", "downloading">>, <<"downloading", "done">>}

AdvanceTorrent(x, to) ==
  /\ Advances(x.state, to)
  /\ client' = (client \ {x}) \cup {[x EXCEPT !.state = to]}
  /\ UNCHANGED <<history, pending, nextTag, search, qm, pp, library>>

(* The user works on movarr's category by hand.  How far a torrent without *)
(* a movarr- tag has got is never looked at.                               *)
UserAdds(t) ==
  /\ \A x \in client : x.title # t
  /\ client' = client \cup {[title |-> t, tag |-> NoTag, state |-> "done"]}
  /\ UNCHANGED <<history, pending, nextTag, search, qm, pp, library>>

UserRemoves(t) ==
  /\ \E x \in client : x.title = t
  /\ client' = Deleted(t, TRUE)
  /\ UNCHANGED <<history, pending, nextTag, search, qm, pp, library>>

ClientStep ==
  \/ \E e \in pending : FetchTorrent(e) \/ DropTorrent(e)
  \/ \E x \in client, to \in States : AdvanceTorrent(x, to)
  \/ \E t \in Manual : UserAdds(t) \/ UserRemoves(t)

(* Days pass: the expiry date of a title's row is behind it.               *)
RowAges(t) ==
  /\ \E r \in MayAge(history) : r.title = t /\ history' = Aged(history, r)
  /\ UNCHANGED <<client, pending, nextTag, search, qm, pp, library>>

-----------------------------------------------------------------------------
(* The search thread. *)

(* _search_with_expiry expires, then run_search looks at the criteria, the *)
(* client, the circuit breaker and the proxy, any of which can end the run.*)
BeginSearch ==
  /\ search.pc = "idle"
  /\ history' = ExpireAll(history)
  /\ \/ search' = [search EXCEPT !.pc = "scan"]
     \/ search' = search
  /\ UNCHANGED <<client, pending, nextTag, qm, pp, library>>

(* The indexer yields a result; a title with a row is skipped at once.     *)
TakeResult(t) ==
  /\ search.pc = "scan"
  /\ ~IsDuplicateExact(history, t)
  /\ search' = [search EXCEPT !.pc = "filter", !.new = [title |-> t, tag |-> NoTag]]
  /\ UNCHANGED <<history, client, pending, nextTag, qm, pp, library>>

NextResult == [SearchIdle EXCEPT !.pc = "scan"]

(* A verdict of the index filters, the IMDb lookup or the IMDb filters.    *)
FailResult ==
  /\ history' = Write(history, search.new.title, NoTag, "Failed")
  /\ search' = NextResult

RejectResult ==
  /\ search.pc = "filter"
  /\ FailResult
  /\ UNCHANGED <<client, pending, nextTag, qm, pp, library>>

(* _collect_supersede_matches: torrents of the category whose tag names    *)
(* the movie.  A torrent without a movarr- tag names none.                 *)
Matches(t) == {x \in Tagged : MovieOf[x.title] = MovieOf[t]}

NewWinsOrTies(t, x) == Score[t] >= NameScore[x.title]   \* mutant: < for <=

NewWins(t, x) == Score[t] > NameScore[x.title]

(* _supersede for a result that passed every filter.  When listing the     *)
(* category raises, the result is queued and nothing is superseded.        *)
Supersede ==
  /\ search.pc = "filter"
  /\ LET t == search.new.title
         M == IF SupersedeEnabled THEN Matches(t) ELSE {}
     IN  \/ /\ \A x \in M : NewWins(t, x)
            /\ search' = [search EXCEPT !.pc = "queue", !.todo = {EntryOf(x) : x \in M}]
            /\ UNCHANGED history
         \/ /\ \E x \in M : ~NewWins(t, x)
            /\ FailResult
         \/ /\ Faults /\ SupersedeEnabled
            /\ search' = [search EXCEPT !.pc = "queue"]
            /\ UNCHANGED history
  /\ UNCHANGED <<client, pending, nextTag, qm, pp, library>>

TagWithoutUuid(n) == n         \* mutant: the tag is only movie and score

(* _build_supersede_tag: every tag has a uuid of its own.                  *)
TagAfter(n) == n + 1

(* add_torrent, answered with success.                                     *)
AddTorrent ==
  /\ search.pc = "queue"
  /\ nextTag \in Tags
  /\ LET e == [search.new EXCEPT !.tag = nextTag]
     IN  /\ pending' = pending \cup {e}
         /\ search' = [search EXCEPT !.pc = "persist", !.new = e]
  /\ nextTag' = TagAfter(nextTag)
  /\ UNCHANGED <<history, client, qm, pp, library>>

(* add_torrent returns None: no link, or the call raised, in which case    *)
(* the client may have carried it out all the same.                        *)
AddRefused ==
  /\ search.pc = "queue"
  /\ FailResult
  /\ \/ UNCHANGED <<pending, nextTag>>
     \/ /\ Faults /\ nextTag \in Tags
        /\ pending' = pending \cup {[search.new EXCEPT !.tag = nextTag]}
        /\ nextTag' = TagAfter(nextTag)
  /\ UNCHANGED <<client, qm, pp, library>>

(* On to the next superseded torrent, or to the next result.               *)
AfterQueued(todo) ==
  IF todo = {} THEN NextResult
               ELSE [search EXCEPT !.pc = "mark", !.todo = todo, !.victim = NoEntry]

(* _queue_and_persist, after the notification.                             *)
PersistResult ==
  /\ search.pc = "persist"
  /\ history' = Write(history, search.new.title, search.new.tag, "Passed")
  /\ search' = AfterQueued(search.todo)
  /\ UNCHANGED <<client, pending, nextTag, qm, pp, library>>

(* _delete_superseded_matches marks each match, ignoring a failure, then   *)
(* deletes it, ignoring a failure.                                         *)
MarkSuperseded(e) ==
  /\ search.pc = "mark"
  /\ e \in search.todo
  /\ \E ok \in Outcomes : history' = IF ok THEN MarkStalled(history, e.tag) ELSE history
  /\ search' = [search EXCEPT !.pc = "delete", !.victim = e, !.todo = @ \ {e}]
  /\ UNCHANGED <<client, pending, nextTag, qm, pp, library>>

DeleteSuperseded ==
  /\ search.pc = "delete"
  /\ \E ok \in Outcomes : client' = Deleted(search.victim.title, ok)
  /\ search' = AfterQueued(search.todo)
  /\ UNCHANGED <<history, pending, nextTag, qm, pp, library>>

EndSearch ==
  /\ search.pc = "scan"
  /\ search' = SearchIdle
  /\ UNCHANGED <<history, client, pending, nextTag, qm, pp, library>>

SearchStep ==
  \/ BeginSearch \/ \E t \in Titles : TakeResult(t)
  \/ RejectResult \/ Supersede \/ AddTorrent \/ AddRefused \/ PersistResult
  \/ \E e \in search.todo : MarkSuperseded(e)
  \/ DeleteSuperseded \/ EndSearch

-----------------------------------------------------------------------------
(* The queue management thread: a metaDL pass, then a stalledDL pass. *)

BeginQueueRun ==
  /\ qm.pc = "idle"
  /\ qm' = [qm EXCEPT !.pc = "list", !.pass = "metaDL"]
  /\ UNCHANGED <<history, client, pending, nextTag, search, pp, library>>

(* list_by_category, identify_for_deletion and the movarr- tag filter, on  *)
(* one answer of the client.  Any of the stuck torrents may be old enough. *)
Stuck(pass) == IF pass \in Monitors THEN {x \in Tagged : x.state = pass} ELSE {}

ListStuck ==
  /\ qm.pc = "list"
  /\ \E S \in SUBSET Stuck(qm.pass) :
       qm' = [qm EXCEPT !.pc = "work", !.todo = {EntryOf(x) : x \in S}, !.gone = {}]
  /\ UNCHANGED <<history, client, pending, nextTag, search, pp, library>>

(* delete_stalled: one call per torrent, remembering which succeeded.      *)
DeleteStuck(e) ==
  /\ qm.pc = "work"
  /\ e \in qm.todo
  /\ \E ok \in Outcomes :
       /\ client' = Deleted(e.title, ok)
       /\ qm' = [qm EXCEPT !.todo = @ \ {e}, !.gone = IF ok THEN @ \cup {e} ELSE @]
  /\ UNCHANGED <<history, pending, nextTag, search, pp, library>>

(* mark_stalled, once every deletion is done, with the tag of the listing. *)
MarkStuck(e) ==
  /\ qm.pc = "work"
  /\ qm.todo = {}
  /\ e \in qm.gone
  /\ history' = MarkStalled(history, e.tag)
  /\ qm' = [qm EXCEPT !.gone = @ \ {e}]
  /\ UNCHANGED <<client, pending, nextTag, search, pp, library>>

EndPass ==
  /\ qm.pc = "work"
  /\ qm.todo = {} /\ qm.gone = {}
  /\ qm' = IF qm.pass = "metaDL"
             THEN [qm EXCEPT !.pc = "list", !.pass = "stalledDL"]
             ELSE QueueIdle
  /\ UNCHANGED <<history, client, pending, nextTag, search, pp, library>>

QueueStep ==
  \/ BeginQueueRun \/ ListStuck \/ EndPass
  \/ \E e \in qm.todo : DeleteStuck(e)
  \/ \E e \in qm.gone : MarkStuck(e)

-----------------------------------------------------------------------------
(* The post-processing thread. *)

(* list_completed: it leaves out a torrent whose details it fails to get.  *)
Finished == {x \in Tagged : x.state = "done"}

BeginPostProcessing ==
  /\ pp.pc = "idle"
  /\ \E S \in SUBSET Finished :
       /\ Faults \/ S = Finished
       /\ pp' = [pp EXCEPT !.pc = "loop", !.todo = {EntryOf(x) : x \in S}]
  /\ UNCHANGED <<history, client, pending, nextTag, search, qm, library>>

CompleteAnyway(e, ok) ==       \* mutant: _copy_files' result is not looked at
  [pc |-> "mark", todo |-> pp.todo \ {e}, cur |-> e]

(* _process_one up to the verified copy.  Nothing happens when no row has  *)
(* the tag; with copy_completed, when there is nothing to copy, no         *)
(* destination, a hook that vetoes or a copy that fails.                   *)
AfterCopy(e, ok) ==
  IF ok THEN [pc |-> "mark", todo |-> pp.todo \ {e}, cur |-> e]
        ELSE [pp EXCEPT !.todo = @ \ {e}]

CanCopy(e) ==
  FindByTag(history, e.tag) # {} /\ \E x \in client : x.title = e.title

ProcessFinished(e) ==
  /\ pp.pc = "loop"
  /\ e \in pp.todo
  /\ \/ /\ CopyCompleted
        /\ \E ok \in {FALSE, CanCopy(e)} :
             /\ library' = IF ok THEN library \cup {e} ELSE library
             /\ pp' = AfterCopy(e, ok)
     \/ /\ ~CopyCompleted
        /\ pp' = AfterCopy(e, FindByTag(history, e.tag) # {})
        /\ UNCHANGED library
  /\ UNCHANGED <<history, client, pending, nextTag, search, qm>>

(* _post_copy_actions and _process_one_no_copy: mark_completed first.      *)
MarkFinished ==
  /\ pp.pc = "mark"
  /\ history' = MarkCompleted(history, pp.cur.tag)
  /\ pp' = IF RemoveCompleted THEN [pp EXCEPT !.pc = "remove"]
                              ELSE [pp EXCEPT !.pc = "loop", !.cur = NoEntry]
  /\ UNCHANGED <<client, pending, nextTag, search, qm, library>>

RemoveFinished ==
  /\ pp.pc = "remove"
  /\ \E ok \in Outcomes : client' = Deleted(pp.cur.title, ok)
  /\ pp' = [pp EXCEPT !.pc = "loop", !.cur = NoEntry]
  /\ UNCHANGED <<history, pending, nextTag, search, qm, library>>

EndPostProcessing ==
  /\ pp.pc = "loop"
  /\ pp.todo = {}
  /\ pp' = PostIdle
  /\ UNCHANGED <<history, client, pending, nextTag, search, qm, library>>

PostStep ==
  \/ BeginPostProcessing \/ MarkFinished \/ RemoveFinished \/ EndPostProcessing
  \/ \E e \in pp.todo : ProcessFinished(e)

-----------------------------------------------------------------------------
(* An exception ends one task's run (_run_guarded); a crash ends all three. *)
Interrupted(s, q, p) ==
  /\ Faults
  /\ search' = s /\ qm' = q /\ pp' = p
  /\ UNCHANGED <<history, client, pending, nextTag, library>>

Interrupt ==
  \/ search.pc # "idle" /\ Interrupted(SearchIdle, qm, pp)
  \/ qm.pc # "idle"     /\ Interrupted(search, QueueIdle, pp)
  \/ pp.pc # "idle"     /\ Interrupted(search, qm, PostIdle)
  \/ Interrupted(SearchIdle, QueueIdle, PostIdle)

Next == ClientStep \/ (\E t \in Titles : RowAges(t)) \/ SearchStep \/ QueueStep \/ PostStep \/ Interrupt

Spec == Init /\ [][Next]_vars

(* APScheduler starts every task again and again, and a task that runs     *)
(* reaches its end: every call has a timeout.  Time passes.                *)
FairSpec == Spec /\ WF_vars(SearchStep) /\ \A t \in Titles : WF_vars(RowAges(t))

-----------------------------------------------------------------------------
(* Every variable holds what the stores and the threads can hold.          *)
TypeOK ==
  /\ history \subseteq Row
  /\ client \subseteq Torrent
  /\ pending \subseteq Entry
  /\ nextTag \in 1..(MaxTag + 1)
  /\ search \in SearchState
  /\ qm \in QueueState
  /\ pp \in PostState
  /\ library \subseteq Entry

(* A title never has two rows: one verdict per title, whatever the tasks   *)
(* do between the duplicate check and the write.                           *)
OneRowPerTitle == \A r, s \in history : r.title = s.title => r = s

(* Everything that carries a tag, in either store or in a thread's hands.  *)
Held(S) == {EntryOf(x) : x \in {y \in S : y.tag # NoTag}}

Carriers ==
  Held(history) \cup Held(client) \cup Held({search.new, search.victim, pp.cur})
    \cup pending \cup search.todo \cup qm.todo \cup qm.gone \cup pp.todo

(* A tag means one title everywhere: the row a task updates by tag is the  *)
(* row of the torrent it handled, however stale the listing it works from. *)
TagMeansTitle == \A a, b \in Carriers : a.tag = b.tag => a.title = b.title

(* While superseded torrents are being deleted, the row of the torrent     *)
(* that replaces them is on record, it is for the same movie and scores    *)
(* higher than the name of each torrent still to delete.                   *)
SupersedeJustified ==
  search.pc \in {"mark", "delete"} =>
    /\ \E r \in history : r.title = search.new.title /\ r.tag = search.new.tag
    /\ \A e \in search.todo \cup ({search.victim} \ {NoEntry}) :
         /\ MovieOf[e.title] = MovieOf[search.new.title]
         /\ Score[search.new.title] > NameScore[e.title]

(* post_processor.py's header: the verified flag is set in the DB only     *)
(* after all files copy successfully.                                      *)
CompletedWasCopied ==
  CopyCompleted => \A r \in history :
    r.result = "Completed" => [title |-> r.title, tag |-> r.tag] \in library

(* A torrent recorded as Stalled is gone from the client for good,         *)
(* whatever was lost or cut off: queue management marks what it did        *)
(* delete, by a listing that may be old, and an add that is carried out    *)
(* late never brings it back.  Only a superseded torrent whose deletion    *)
(* failed can still be there, and that one has lost to a better release.   *)
StalledIsGone ==
  \A r \in history, x \in client :
    r.result = "Stalled" /\ r.tag = x.tag =>
      /\ SupersedeEnabled
      /\ \E t \in Titles : MovieOf[t] = MovieOf[r.title] /\ Score[t] > NameScore[r.title]

(* What the table says of each title, and what is promised of that.        *)
status == [t \in Titles |-> StatusOf(history, t)]
TitleLife == INSTANCE Lifecycle WITH Titles <- Titles, status <- status

(* A title that was recorded as Completed stays so: the table of the       *)
(* outcomes of a torrent in                                                *)
(* docs/specs/2026-05-03-torrent-status-tracking-design.md:34 has          *)
(*     result="Completed"  (permanent — never retried)                     *)
CompletedIsPermanent ==
  [][\A t \in Titles : status[t] = "Completed" => status'[t] = "Completed"]_vars

(* Whatever happens to its torrent, a title is again and again free to be  *)
(* queued, or Completed: no lost call, no run cut off and no failed        *)
(* deletion leaves it with a verdict that blocks it for good.              *)
NothingBlockedForever == \A t \in Titles : []<>(status[t] \in {"None", "Completed"})
=============================================================================
