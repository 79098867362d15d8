---------------------------- MODULE Movarr_proofs ----------------------------
(***************************************************************************)
(* Proofs about Movarr, for every set of titles, every bound on tags, every*)
(* scoring and every setting of the switches, with and without faults.     *)
(***************************************************************************)
EXTENDS Movarr, TLAPS

-----------------------------------------------------------------------------
(* The queries of the history table. *)

LEMMA TagFacts ==
  /\ NoTag \notin Tags
  /\ Tags \subseteq Nat
  /\ \A n \in 1..(MaxTag + 1) : n \in Tags => n + 1 \in 1..(MaxTag + 1)
BY MaxTagAssumption DEF Tags, NoTag

LEMMA NoEntryType == NoEntry \in Slot /\ NoEntry.tag = NoTag /\ NoEntry \notin Entry
BY TitlesAssumption, TagFacts DEF NoEntry, Slot, Entry

(* A row after an update by tag is a row from before it, with its title    *)
(* and its tag; only rows with the tag change.                             *)
LEMMA UpdateByTagOrigin ==
  ASSUME NEW rows, rows \subseteq Row, NEW tag, NEW result \in Results
  PROVE  \A r \in UpdateByTag(rows, tag, result) :
           /\ r \in Row
           /\ \E s \in rows :
                /\ r.title = s.title /\ r.tag = s.tag
                /\ s.tag = tag => r = Marked(s, result)
                /\ s.tag # tag => r = s
<1>1. \A s \in Row : /\ Marked(s, result) \in Row
                     /\ Marked(s, result).title = s.title
                     /\ Marked(s, result).tag = s.tag
  BY DEF Marked, Row
<1> QED  BY <1>1 DEF UpdateByTag, FindByTag

(* No row is lost in an update by tag.                                     *)
LEMMA UpdateByTagKeeps ==
  ASSUME NEW rows, rows \subseteq Row, NEW tag, NEW result \in Results,
         NEW s \in rows
  PROVE  \E r \in UpdateByTag(rows, tag, result) : r.title = s.title /\ r.tag = s.tag
<1>1. CASE s.tag = tag
  <2> DEFINE r == Marked(s, result)
  <2>1. r \in UpdateByTag(rows, tag, result)
    BY <1>1 DEF UpdateByTag, FindByTag
  <2>2. r.title = s.title /\ r.tag = s.tag
    BY DEF Row, Marked
  <2> QED  BY <2>1, <2>2
<1>2. CASE s.tag # tag
  BY <1>2 DEF UpdateByTag
<1> QED  BY <1>1, <1>2

LEMMA WriteType ==
  ASSUME NEW rows, rows \subseteq Row, NEW title \in Titles,
         NEW tag \in Tags \cup {NoTag}, NEW result \in Results
  PROVE  Write(rows, title, tag, result) \subseteq Row
BY DEF Write, Row

LEMMA AgedRows ==
  ASSUME NEW rows, rows \subseteq Row, NEW s \in MayAge(rows)
  PROVE  /\ Aged(rows, s) \subseteq Row
         /\ \A r \in Aged(rows, s) :
              \E q \in rows : /\ r.title = q.title /\ r.tag = q.tag
                              /\ r.result = q.result
                              /\ IF q = s THEN r = [s EXCEPT !.age = "due"] ELSE r = q
         /\ \A q \in rows : \E r \in Aged(rows, s) :
              r.title = q.title /\ r.tag = q.tag /\ r.result = q.result
<1> DEFINE old == [s EXCEPT !.age = "due"]
<1>1. /\ s \in rows /\ s \in Row
      /\ old \in Row
      /\ old.title = s.title /\ old.tag = s.tag /\ old.result = s.result
  BY DEF MayAge, Row
<1>2. Aged(rows, s) = (rows \ {s}) \cup {old}
  BY DEF Aged
<1> QED  BY <1>1, <1>2

LEMMA ExpireShrinks ==
  ASSUME NEW rows
  PROVE  ExpireAll(rows) \subseteq rows
BY DEF ExpireAll, ExpireByResult

-----------------------------------------------------------------------------
(* Type correctness. *)

LEMMA IdleTypes ==
  /\ SearchIdle \in SearchState /\ NextResult \in SearchState
  /\ QueueIdle \in QueueState /\ PostIdle \in PostState
BY NoEntryType DEF SearchIdle, NextResult, QueueIdle, PostIdle,
                   SearchState, QueueState, PostState

(* Torrents of the listing become entries of a work list.                  *)
LEMMA ListedTypes ==
  ASSUME client \subseteq Torrent, NEW S \in SUBSET Tagged
  PROVE  {EntryOf(x) : x \in S} \subseteq Entry
BY DEF Tagged, Torrent, EntryOf, Entry

LEMMA DeletedType ==
  ASSUME NEW title, NEW ok
  PROVE  Deleted(title, ok) \subseteq client
BY DEF Deleted

LEMMA ClientType ==
  ASSUME TypeOK, ClientStep
  PROVE  TypeOK'
<1> USE DEF TypeOK
<1>1. ASSUME NEW e \in pending, FetchTorrent(e)
      PROVE  TypeOK'
  <2>1. [title |-> e.title, tag |-> e.tag, state |-> "metaDL"] \in Torrent
    BY DEF Entry, Torrent, States
  <2> QED  BY <1>1, <2>1 DEF FetchTorrent
<1>2. ASSUME NEW e \in pending, DropTorrent(e)
      PROVE  TypeOK'
  BY <1>2 DEF DropTorrent
<1>3. ASSUME NEW x \in client, NEW to \in States, AdvanceTorrent(x, to)
      PROVE  TypeOK'
  <2>1. [x EXCEPT !.state = to] \in Torrent
    BY DEF Torrent
  <2> QED  BY <1>3, <2>1 DEF AdvanceTorrent
<1>4. ASSUME NEW t \in Manual, UserAdds(t)
      PROVE  TypeOK'
  <2>1. [title |-> t, tag |-> NoTag, state |-> "done"] \in Torrent
    BY ManualAssumption DEF Torrent, States
  <2> QED  BY <1>4, <2>1 DEF UserAdds
<1>5. ASSUME NEW t \in Manual, UserRemoves(t)
      PROVE  TypeOK'
  BY <1>5, DeletedType DEF UserRemoves
<1> QED  BY <1>1, <1>2, <1>3, <1>4, <1>5 DEF ClientStep

LEMMA RowAgesType ==
  ASSUME TypeOK, NEW t \in Titles, RowAges(t)
  PROVE  TypeOK'
BY AgedRows DEF TypeOK, RowAges

LEMMA FailResultType ==
  ASSUME TypeOK, FailResult
  PROVE  history' \subseteq Row /\ search' \in SearchState
BY WriteType, IdleTypes DEF TypeOK, FailResult, SearchState, Slot, Results

LEMMA AfterQueuedType ==
  ASSUME TypeOK, NEW todo \in SUBSET Entry
  PROVE  AfterQueued(todo) \in SearchState
BY IdleTypes, NoEntryType DEF TypeOK, AfterQueued, SearchState

LEMMA UpdateType ==
  ASSUME TypeOK, NEW tag
  PROVE  /\ MarkStalled(history, tag) \subseteq Row
         /\ MarkCompleted(history, tag) \subseteq Row
BY UpdateByTagOrigin DEF TypeOK, MarkStalled, MarkCompleted, Results

LEMMA SearchType ==
  ASSUME TypeOK, SearchStep
  PROVE  TypeOK'
<1> USE DEF TypeOK
<1>1. CASE BeginSearch
  BY <1>1, ExpireShrinks DEF BeginSearch, SearchState
<1>2. ASSUME NEW t \in Titles, TakeResult(t)
      PROVE  TypeOK'
  BY <1>2 DEF TakeResult, SearchState, Slot
<1>3. CASE RejectResult
  BY <1>3, FailResultType DEF RejectResult
<1>4. CASE Supersede
  <2> DEFINE t == search.new.title
             M == IF SupersedeEnabled THEN Matches(t) ELSE {}
  <2>1. {EntryOf(x) : x \in M} \subseteq Entry
    BY ListedTypes DEF Matches
  <2>2. UNCHANGED <<client, pending, nextTag, qm, pp, library>>
    BY <1>4 DEF Supersede
  <2>3. history' \subseteq Row /\ search' \in SearchState
    <3>1. CASE FailResult
      BY <3>1, FailResultType
    <3>2. CASE /\ search' = [search EXCEPT !.pc = "queue", !.todo = {EntryOf(x) : x \in M}]
               /\ UNCHANGED history
      BY <3>2, <2>1 DEF SearchState
    <3>3. CASE search' = [search EXCEPT !.pc = "queue"] /\ UNCHANGED history
      BY <3>3 DEF SearchState
    <3> QED  BY <1>4, <3>1, <3>2, <3>3 DEF Supersede
  <2> QED  BY <2>2, <2>3
<1>5. CASE AddTorrent
  <2>1. [search.new EXCEPT !.tag = nextTag] \in Entry
    BY <1>5 DEF AddTorrent, SearchState, Slot, Entry
  <2>2. [search.new EXCEPT !.tag = nextTag] \in Slot
    BY <2>1 DEF Entry, Slot
  <2>3. nextTag' \in 1..(MaxTag + 1)
    BY <1>5, TagFacts DEF AddTorrent, TagAfter
  <2> QED  BY <1>5, <2>1, <2>2, <2>3 DEF AddTorrent, SearchState
<1>6. CASE AddRefused
  <2>1. nextTag \in Tags => [search.new EXCEPT !.tag = nextTag] \in Entry
    BY DEF SearchState, Slot, Entry
  <2>2. nextTag' \in 1..(MaxTag + 1)
    BY <1>6, TagFacts DEF AddRefused, TagAfter
  <2> QED  BY <1>6, <2>1, <2>2, FailResultType DEF AddRefused
<1>7. CASE PersistResult
  <2>1. Write(history, search.new.title, search.new.tag, "Passed") \subseteq Row
    BY WriteType DEF SearchState, Slot, Results
  <2>2. AfterQueued(search.todo) \in SearchState
    BY AfterQueuedType DEF SearchState
  <2> QED  BY <1>7, <2>1, <2>2 DEF PersistResult
<1>8. ASSUME NEW e \in search.todo, MarkSuperseded(e)
      PROVE  TypeOK'
  <2>1. e \in Slot
    BY DEF SearchState, Entry, Slot
  <2>2. history' \subseteq Row
    BY <1>8, UpdateType DEF MarkSuperseded
  <2> QED  BY <1>8, <2>1, <2>2 DEF MarkSuperseded, SearchState
<1>9. CASE DeleteSuperseded
  <2>1. AfterQueued(search.todo) \in SearchState
    BY AfterQueuedType DEF SearchState
  <2>2. client' \subseteq Torrent
    BY <1>9, DeletedType DEF DeleteSuperseded
  <2> QED  BY <1>9, <2>1, <2>2 DEF DeleteSuperseded
<1>10. CASE EndSearch
  BY <1>10, IdleTypes DEF EndSearch
<1> QED  BY <1>1, <1>2, <1>3, <1>4, <1>5, <1>6, <1>7, <1>8, <1>9, <1>10 DEF SearchStep

LEMMA QueueType ==
  ASSUME TypeOK, QueueStep
  PROVE  TypeOK'
<1> USE DEF TypeOK
<1>1. CASE BeginQueueRun
  BY <1>1 DEF BeginQueueRun, QueueState
<1>2. CASE ListStuck
  <2>1. PICK S \in SUBSET Stuck(qm.pass) :
          qm' = [qm EXCEPT !.pc = "work", !.todo = {EntryOf(x) : x \in S}, !.gone = {}]
    BY <1>2 DEF ListStuck
  <2>2. {EntryOf(x) : x \in S} \subseteq Entry
    BY ListedTypes DEF Stuck
  <2>3. qm' \in QueueState
    BY <2>1, <2>2 DEF QueueState
  <2> QED  BY <1>2, <2>3 DEF ListStuck
<1>3. ASSUME NEW e \in qm.todo, DeleteStuck(e)
      PROVE  TypeOK'
  <2>1. client' \subseteq Torrent
    BY <1>3, DeletedType DEF DeleteStuck
  <2>2. PICK gone \in {qm.gone, qm.gone \cup {e}} :
          qm' = [qm EXCEPT !.todo = @ \ {e}, !.gone = gone]
    BY <1>3 DEF DeleteStuck
  <2>3. gone \subseteq Entry
    BY DEF QueueState
  <2>4. qm' \in QueueState
    BY <2>2, <2>3 DEF QueueState
  <2> QED  BY <1>3, <2>1, <2>4 DEF DeleteStuck
<1>4. ASSUME NEW e \in qm.gone, MarkStuck(e)
      PROVE  TypeOK'
  BY <1>4, UpdateType DEF MarkStuck, QueueState
<1>5. CASE EndPass
  BY <1>5, IdleTypes DEF EndPass, QueueState
<1> QED  BY <1>1, <1>2, <1>3, <1>4, <1>5 DEF QueueStep

LEMMA PostType ==
  ASSUME TypeOK, PostStep
  PROVE  TypeOK'
<1> USE DEF TypeOK
<1>1. CASE BeginPostProcessing
  <2>1. PICK S \in SUBSET Finished :
          pp' = [pp EXCEPT !.pc = "loop", !.todo = {EntryOf(x) : x \in S}]
    BY <1>1 DEF BeginPostProcessing
  <2>2. {EntryOf(x) : x \in S} \subseteq Entry
    BY ListedTypes DEF Finished
  <2>3. pp' \in PostState
    BY <2>1, <2>2 DEF PostState
  <2> QED  BY <1>1, <2>3 DEF BeginPostProcessing
<1>2. ASSUME NEW e \in pp.todo, ProcessFinished(e)
      PROVE  TypeOK'
  <2>1. e \in Entry /\ e \in Slot
    BY DEF PostState, Entry, Slot
  <2>2. \A ok : AfterCopy(e, ok) \in PostState
    BY <2>1 DEF AfterCopy, PostState
  <2> QED  BY <1>2, <2>1, <2>2 DEF ProcessFinished
<1>3. CASE MarkFinished
  BY <1>3, UpdateType, NoEntryType DEF MarkFinished, PostState
<1>4. CASE RemoveFinished
  BY <1>4, DeletedType, NoEntryType DEF RemoveFinished, PostState
<1>5. CASE EndPostProcessing
  BY <1>5, IdleTypes DEF EndPostProcessing
<1> QED  BY <1>1, <1>2, <1>3, <1>4, <1>5 DEF PostStep

LEMMA InterruptType ==
  ASSUME TypeOK, Interrupt
  PROVE  TypeOK'
BY IdleTypes DEF TypeOK, Interrupt, Interrupted

(* Every thread only ever handles torrents with a movarr- tag, and every   *)
(* variable keeps its type.                                                *)
THEOREM TypeCorrect == Spec => []TypeOK
<1>1. Init => TypeOK
  BY IdleTypes, MaxTagAssumption DEF Init, TypeOK
<1>2. TypeOK /\ [Next]_vars => TypeOK'
  <2> SUFFICES ASSUME TypeOK, [Next]_vars PROVE TypeOK'
    OBVIOUS
  <2>1. CASE UNCHANGED vars
    BY <2>1 DEF vars, TypeOK
  <2> QED
    BY <2>1, ClientType, RowAgesType, SearchType, QueueType, PostType,
       InterruptType DEF Next
<1> QED  BY <1>1, <1>2, PTL DEF Spec

-----------------------------------------------------------------------------
(* One row per title.  The search thread alone inserts and expires, and    *)
(* between its duplicate check and its write the other threads only change *)
(* rows that are there: the check stays true.                              *)

OneRowInv ==
  /\ OneRowPerTitle
  /\ search.pc \in {"filter", "queue", "persist"} =>
       ~IsDuplicateExact(history, search.new.title)

(* What a step that is not an insertion may do to the table: no row has a  *)
(* new title, and rows do not come to share one.                           *)
NoNewTitle(rows, rows2) ==
  /\ \A r \in rows2 : \E s \in rows : r.title = s.title
  /\ (\A r, s \in rows  : r.title = s.title => r = s)
       => (\A r, s \in rows2 : r.title = s.title => r = s)

LEMMA NoNewTitleByUpdate ==
  ASSUME NEW rows, rows \subseteq Row, NEW tag, NEW result \in Results
  PROVE  NoNewTitle(rows, UpdateByTag(rows, tag, result))
<1>1. \A r \in UpdateByTag(rows, tag, result) : \E s \in rows : r.title = s.title
  BY UpdateByTagOrigin
<1>2. ASSUME \A r, s \in rows : r.title = s.title => r = s,
             NEW r \in UpdateByTag(rows, tag, result),
             NEW s \in UpdateByTag(rows, tag, result),
             r.title = s.title
      PROVE  r = s
  <2>1. PICK r0 \in rows : /\ r.title = r0.title
                           /\ r0.tag = tag =>
                                r = Marked(r0, result)
                           /\ r0.tag # tag => r = r0
    BY UpdateByTagOrigin
  <2>2. PICK s0 \in rows : /\ s.title = s0.title
                           /\ s0.tag = tag =>
                                s = Marked(s0, result)
                           /\ s0.tag # tag => s = s0
    BY UpdateByTagOrigin
  <2>3. r0 = s0
    BY <1>2, <2>1, <2>2
  <2> QED  BY <2>1, <2>2, <2>3
<1> QED  BY <1>1, <1>2 DEF NoNewTitle

LEMMA NoNewTitleByAging ==
  ASSUME NEW rows, rows \subseteq Row, NEW s \in MayAge(rows)
  PROVE  NoNewTitle(rows, Aged(rows, s))
BY AgedRows DEF NoNewTitle

LEMMA NoNewTitleByExpiry ==
  ASSUME NEW rows
  PROVE  NoNewTitle(rows, ExpireAll(rows))
BY ExpireShrinks DEF NoNewTitle

(* The ways a step changes the table, and what the search thread does with *)
(* it at the same time.                                                    *)
LEMMA HistoryStep ==
  ASSUME TypeOK, [Next]_vars
  PROVE  \/ history' = history
         \/ search.pc = "idle" /\ BeginSearch
         \/ \E t \in Titles : RowAges(t)
         \/ \E e \in search.todo : MarkSuperseded(e)
         \/ (\E e \in qm.gone : MarkStuck(e)) /\ UNCHANGED search
         \/ MarkFinished /\ UNCHANGED search
         \/ search.pc \in {"filter", "queue"} /\ FailResult
         \/ PersistResult
<1>1. CASE UNCHANGED vars
  BY <1>1 DEF vars
<1>2. CASE ClientStep
  BY <1>2 DEF ClientStep, FetchTorrent, DropTorrent, AdvanceTorrent, UserAdds, UserRemoves
<1>3. CASE SearchStep
  BY <1>3 DEF SearchStep, BeginSearch, TakeResult, RejectResult, Supersede, AddTorrent,
              AddRefused, DeleteSuperseded, EndSearch
<1>4. CASE QueueStep
  BY <1>4 DEF QueueStep, BeginQueueRun, ListStuck, DeleteStuck, MarkStuck, EndPass
<1>5. CASE PostStep
  BY <1>5 DEF PostStep, BeginPostProcessing, ProcessFinished, MarkFinished,
              RemoveFinished, EndPostProcessing
<1>6. CASE Interrupt
  BY <1>6 DEF Interrupt, Interrupted
<1> QED  BY <1>1, <1>2, <1>3, <1>4, <1>5, <1>6 DEF Next

(* An insertion is by the search thread, of a title it checked.            *)
LEMMA TitlesStep ==
  ASSUME TypeOK, [Next]_vars
  PROVE  \/ NoNewTitle(history, history')
         \/ /\ search.pc \in {"filter", "queue", "persist"}
            /\ \E tag, result :
                 history' = Write(history, search.new.title, tag, result)
            /\ search'.pc \notin {"filter", "queue", "persist"}
<1>1. CASE history' = history
  BY <1>1 DEF NoNewTitle
<1>2. CASE BeginSearch
  BY <1>2, NoNewTitleByExpiry DEF BeginSearch
<1>3. ASSUME NEW t \in Titles, RowAges(t)
      PROVE  NoNewTitle(history, history')
  BY <1>3, NoNewTitleByAging DEF RowAges, TypeOK
<1>4. ASSUME NEW e \in search.todo, MarkSuperseded(e)
      PROVE  NoNewTitle(history, history')
  <2>1. CASE history' = history
    BY <2>1 DEF NoNewTitle
  <2>2. CASE history' = MarkStalled(history, e.tag)
    BY <2>2, NoNewTitleByUpdate DEF MarkStalled, Results, TypeOK
  <2> QED  BY <1>4, <2>1, <2>2 DEF MarkSuperseded
<1>5. ASSUME NEW e \in qm.gone, MarkStuck(e)
      PROVE  NoNewTitle(history, history')
  BY <1>5, NoNewTitleByUpdate DEF MarkStuck, MarkStalled, Results, TypeOK
<1>6. CASE MarkFinished
  BY <1>6, NoNewTitleByUpdate DEF MarkFinished, MarkCompleted, Results, TypeOK
<1>7. CASE search.pc \in {"filter", "queue"} /\ FailResult
  BY <1>7 DEF FailResult, NextResult, SearchIdle
<1>8. CASE PersistResult
  <2>1. search'.pc \in {"scan", "mark"}
    BY <1>8 DEF PersistResult, AfterQueued, NextResult, SearchIdle, TypeOK, SearchState
  <2> QED  BY <1>8, <2>1 DEF PersistResult
<1> QED  BY HistoryStep, <1>1, <1>2, <1>3, <1>4, <1>5, <1>6, <1>7, <1>8

(* How the search thread comes to hold a result it is deciding on.         *)
LEMMA DecidingStep ==
  ASSUME TypeOK, [Next]_vars, search'.pc \in {"filter", "queue", "persist"}
  PROVE  \/ /\ search.pc \in {"filter", "queue", "persist"}
            /\ search'.new.title = search.new.title
         \/ /\ history' = history
            /\ ~IsDuplicateExact(history, search'.new.title)
<1>1. CASE search' = search
  BY <1>1
<1>2. CASE SearchStep
  <2>1. CASE BeginSearch
    BY <2>1 DEF BeginSearch, TypeOK, SearchState
  <2>2. ASSUME NEW t \in Titles, TakeResult(t)
        PROVE  history' = history /\ ~IsDuplicateExact(history, search'.new.title)
    BY <2>2 DEF TakeResult, TypeOK, SearchState
  <2>3. CASE FailResult
    BY <2>3 DEF FailResult, NextResult, SearchIdle
  <2>4. CASE Supersede
    BY <2>4, <2>3 DEF Supersede, TypeOK, SearchState
  <2>5. CASE AddTorrent
    BY <2>5 DEF AddTorrent, TypeOK, SearchState, Slot
  <2>6. ASSUME NEW todo, search' = AfterQueued(todo)
        PROVE  FALSE
    BY <2>6 DEF AfterQueued, NextResult, SearchIdle, TypeOK, SearchState
  <2>7. ASSUME NEW e \in search.todo, MarkSuperseded(e)
        PROVE  FALSE
    BY <2>7 DEF MarkSuperseded, TypeOK, SearchState
  <2>8. CASE EndSearch
    BY <2>8 DEF EndSearch, SearchIdle
  <2> QED
    BY <1>2, <2>1, <2>2, <2>3, <2>4, <2>5, <2>6, <2>7, <2>8
    DEF SearchStep, RejectResult, AddRefused, PersistResult, DeleteSuperseded
<1>3. CASE Interrupt
  BY <1>3 DEF Interrupt, Interrupted, SearchIdle
<1>4. CASE QueueStep
  BY <1>1, <1>4 DEF QueueStep, BeginQueueRun, ListStuck, DeleteStuck, MarkStuck, EndPass
<1>5. CASE PostStep
  BY <1>1, <1>5 DEF PostStep, BeginPostProcessing, ProcessFinished, MarkFinished,
                    RemoveFinished, EndPostProcessing
<1>6. CASE ClientStep
  BY <1>1, <1>6 DEF ClientStep, FetchTorrent, DropTorrent, AdvanceTorrent, UserAdds,
                    UserRemoves
<1>7. ASSUME NEW t \in Titles, RowAges(t)
      PROVE  search' = search
  BY <1>7 DEF RowAges
<1>8. CASE UNCHANGED vars
  BY <1>1, <1>8 DEF vars
<1> QED  BY <1>1, <1>2, <1>3, <1>4, <1>5, <1>6, <1>7, <1>8 DEF Next

LEMMA OneRowStep ==
  ASSUME TypeOK, OneRowInv, [Next]_vars
  PROVE  OneRowInv'
<1>1. OneRowPerTitle'
  <2>1. CASE NoNewTitle(history, history')
    BY <2>1 DEF OneRowInv, OneRowPerTitle, NoNewTitle
  <2>2. CASE /\ search.pc \in {"filter", "queue", "persist"}
             /\ \E tag, result :
                  history' = Write(history, search.new.title, tag, result)
    BY <2>2 DEF OneRowInv, OneRowPerTitle, IsDuplicateExact, Write
  <2> QED  BY <2>1, <2>2, TitlesStep
<1>2. ASSUME search'.pc \in {"filter", "queue", "persist"}
      PROVE  ~IsDuplicateExact(history', search'.new.title)
  <2>1. CASE history' = history /\ ~IsDuplicateExact(history, search'.new.title)
    BY <2>1
  <2>2. CASE /\ search.pc \in {"filter", "queue", "persist"}
             /\ search'.new.title = search.new.title
    BY <1>2, <2>2, TitlesStep DEF NoNewTitle, OneRowInv, IsDuplicateExact
  <2> QED  BY <1>2, <2>1, <2>2, DecidingStep
<1> QED  BY <1>1, <1>2 DEF OneRowInv

(* A title never has two rows, whatever the other threads do between the   *)
(* duplicate check of the search thread and its write, and however its     *)
(* runs are interrupted.                                                   *)
THEOREM OneRow == Spec => []OneRowPerTitle
<1>1. Init => OneRowInv
  BY DEF Init, OneRowInv, OneRowPerTitle, SearchIdle
<1>2. TypeOK /\ OneRowInv /\ [Next]_vars => OneRowInv'
  BY OneRowStep
<1>3. OneRowInv => OneRowPerTitle
  BY DEF OneRowInv
<1> QED  BY <1>1, <1>2, <1>3, TypeCorrect, PTL DEF Spec

-----------------------------------------------------------------------------
(* A tag means one title.  Tags are only made by add_torrent; every other  *)
(* step copies what some store or some thread carries already.             *)

TagInv ==
  /\ TagMeansTitle
  /\ \A e \in Carriers : e.tag < nextTag

LEMMA HeldMonotone ==
  ASSUME NEW S, NEW T, S \subseteq T
  PROVE  Held(S) \subseteq Held(T)
BY DEF Held

LEMMA HeldByUpdate ==
  ASSUME NEW rows, rows \subseteq Row, NEW tag, NEW result \in Results
  PROVE  Held(UpdateByTag(rows, tag, result)) \subseteq Held(rows)
<1> SUFFICES ASSUME NEW r \in UpdateByTag(rows, tag, result), r.tag # NoTag
             PROVE  EntryOf(r) \in Held(rows)
  BY DEF Held
<1>1. PICK s \in rows : r.title = s.title /\ r.tag = s.tag
  BY UpdateByTagOrigin
<1> QED  BY <1>1 DEF Held, EntryOf

LEMMA HeldByAging ==
  ASSUME NEW rows, rows \subseteq Row, NEW s \in MayAge(rows)
  PROVE  Held(Aged(rows, s)) \subseteq Held(rows)
<1> SUFFICES ASSUME NEW r \in Aged(rows, s), r.tag # NoTag
             PROVE  EntryOf(r) \in Held(rows)
  BY DEF Held
<1>1. PICK q \in rows : r.title = q.title /\ r.tag = q.tag
  BY AgedRows
<1> QED  BY <1>1 DEF Held, EntryOf

LEMMA HeldByWrite ==
  ASSUME NEW rows, NEW title, NEW tag, NEW result,
         NEW e \in Held(Write(rows, title, tag, result))
  PROVE  e \in Held(rows) \/ (tag # NoTag /\ e = [title |-> title, tag |-> tag])
BY DEF Held, Write, EntryOf

LEMMA RowsCarried ==
  ASSUME TypeOK, [Next]_vars
  PROVE  Held(history') \subseteq Carriers
<1> DEFINE known == Held(history)
<1>0. known \subseteq Carriers
  BY DEF Carriers
<1> USE DEF TypeOK
<1>1. CASE history' = history
  BY <1>0, <1>1
<1>2. CASE BeginSearch
  BY <1>0, <1>2, ExpireShrinks, HeldMonotone DEF BeginSearch
<1>3. ASSUME NEW t \in Titles, RowAges(t)
      PROVE  Held(history') \subseteq known
  BY <1>3, HeldByAging DEF RowAges
<1>4. ASSUME NEW e \in search.todo, MarkSuperseded(e)
      PROVE  Held(history') \subseteq known
  <2>1. Held(MarkStalled(history, e.tag)) \subseteq known
    BY HeldByUpdate DEF MarkStalled, Results
  <2>2. history' = history \/ history' = MarkStalled(history, e.tag)
    BY <1>4 DEF MarkSuperseded
  <2> QED  BY <2>1, <2>2
<1>5. ASSUME NEW e \in qm.gone, MarkStuck(e)
      PROVE  Held(history') \subseteq known
  BY <1>5, HeldByUpdate DEF MarkStuck, MarkStalled, Results
<1>6. CASE MarkFinished
  BY <1>0, <1>6, HeldByUpdate DEF MarkFinished, MarkCompleted, Results
<1>7. CASE FailResult
  BY <1>0, <1>7, HeldByWrite DEF FailResult
<1>8. CASE PersistResult
  <2>1. ASSUME search.new.tag # NoTag
        PROVE  [title |-> search.new.title, tag |-> search.new.tag] \in Carriers
    BY <2>1 DEF Carriers, Held, EntryOf
  <2> QED  BY <1>0, <1>8, <2>1, HeldByWrite DEF PersistResult
<1> QED  BY <1>0, HistoryStep, <1>1, <1>2, <1>3, <1>4, <1>5, <1>6, <1>7, <1>8

LEMMA TorrentsCarried ==
  ASSUME TypeOK, [Next]_vars
  PROVE  Held(client') \subseteq Carriers
<1>0. Held(client) \subseteq Carriers /\ pending \subseteq Carriers
  BY DEF Carriers
<1>1. CASE client' \subseteq client
  BY <1>0, <1>1, HeldMonotone
<1>2. ASSUME NEW e \in pending, FetchTorrent(e)
      PROVE  Held(client') \subseteq Carriers
  <2> DEFINE x == [title |-> e.title, tag |-> e.tag, state |-> "metaDL"]
  <2>1. client' \subseteq client \cup {x}
    BY <1>2 DEF FetchTorrent
  <2>2. EntryOf(x) = e
    BY DEF EntryOf, TypeOK, Entry
  <2> QED  BY <1>0, <2>1, <2>2 DEF Held
<1>3. ASSUME NEW x \in client, NEW to \in States, AdvanceTorrent(x, to)
      PROVE  Held(client') \subseteq Carriers
  <2> DEFINE y == [x EXCEPT !.state = to]
  <2>1. client' \subseteq client \cup {y}
    BY <1>3 DEF AdvanceTorrent
  <2>2. y.tag = x.tag /\ EntryOf(y) = EntryOf(x)
    BY DEF EntryOf, TypeOK, Torrent
  <2> QED  BY <1>0, <2>1, <2>2 DEF Held
<1>4. ASSUME NEW t \in Manual, UserAdds(t)
      PROVE  Held(client') \subseteq Carriers
  <2> DEFINE y == [title |-> t, tag |-> NoTag, state |-> "done"]
  <2>1. client' \subseteq client \cup {y} /\ y.tag = NoTag
    BY <1>4 DEF UserAdds
  <2> QED  BY <1>0, <2>1 DEF Held
<1>5. \A title, ok : Deleted(title, ok) \subseteq client
  BY DeletedType
<1>6. CASE ClientStep
  <2>1. ASSUME NEW e \in pending, DropTorrent(e)  PROVE client' \subseteq client
    BY <2>1 DEF DropTorrent
  <2>2. ASSUME NEW t \in Manual, UserRemoves(t)  PROVE client' \subseteq client
    BY <2>2, <1>5 DEF UserRemoves
  <2> QED  BY <1>1, <1>2, <1>3, <1>4, <1>6, <2>1, <2>2 DEF ClientStep
<1>7. CASE SearchStep
  <2>1. CASE DeleteSuperseded
    BY <1>1, <1>5, <2>1 DEF DeleteSuperseded
  <2>2. CASE UNCHANGED client
    BY <1>1, <2>2
  <2> QED
    BY <1>7, <2>1, <2>2
    DEF SearchStep, BeginSearch, TakeResult, RejectResult, Supersede, AddTorrent, AddRefused,
        PersistResult, MarkSuperseded, EndSearch
<1>8. CASE QueueStep
  <2>1. ASSUME NEW e \in qm.todo, DeleteStuck(e)
        PROVE  Held(client') \subseteq Carriers
    BY <1>1, <1>5, <2>1 DEF DeleteStuck
  <2>2. CASE UNCHANGED client
    BY <1>1, <2>2
  <2> QED
    BY <1>8, <2>1, <2>2 DEF QueueStep, BeginQueueRun, ListStuck, MarkStuck, EndPass
<1>9. CASE PostStep
  <2>1. CASE RemoveFinished
    BY <1>1, <1>5, <2>1 DEF RemoveFinished
  <2>2. CASE UNCHANGED client
    BY <1>1, <2>2
  <2> QED
    BY <1>9, <2>1, <2>2
    DEF PostStep, BeginPostProcessing, ProcessFinished, MarkFinished, EndPostProcessing
<1>10. CASE Interrupt
  BY <1>1, <1>10 DEF Interrupt, Interrupted
<1>11. ASSUME NEW t \in Titles, RowAges(t)
       PROVE  client' \subseteq client
  BY <1>11 DEF RowAges
<1>12. CASE UNCHANGED vars
  BY <1>1, <1>12 DEF vars
<1> QED  BY <1>1, <1>6, <1>7, <1>8, <1>9, <1>10, <1>11, <1>12 DEF Next

(* What the threads and the adds in flight carry.                          *)
Hands ==
  Held({search.new, search.victim, pp.cur})
    \cup pending \cup search.todo \cup qm.todo \cup qm.gone \cup pp.todo

LEMMA Carried ==
  /\ Held(history) \subseteq Carriers
  /\ Held(client) \subseteq Carriers
  /\ Hands \subseteq Carriers
  /\ Held({search.new}) \subseteq Carriers
  /\ Held({search.victim}) \subseteq Carriers
  /\ Held({pp.cur}) \subseteq Carriers
<1>1. \A e \in {search.new, search.victim, pp.cur} :
        Held({e}) \subseteq Held({search.new, search.victim, pp.cur})
  BY DEF Held
<1> QED  BY <1>1 DEF Carriers, Hands

(* A work list of a thread is a part of what the client was seen to hold.  *)
LEMMA ListedCarried ==
  ASSUME NEW S \in SUBSET Tagged
  PROVE  {EntryOf(x) : x \in S} \subseteq Carriers
BY DEF Tagged, Carriers, Held

LEMMA EntryCarried ==
  ASSUME NEW e \in Entry
  PROVE  Held({e}) = {e}
BY TagFacts DEF Held, EntryOf, Entry

LEMMA NothingCarried == Held({NoEntry}) = {}
BY NoEntryType DEF Held

LEMMA HeldUnion ==
  ASSUME NEW a, NEW b, NEW c
  PROVE  Held({a, b, c}) = Held({a}) \cup Held({b}) \cup Held({c})
BY DEF Held

(* The search thread's hands: what a step may put there.                   *)
LEMMA SearchHands ==
  ASSUME TypeOK, SearchStep
  PROVE  LET fresh == [search.new EXCEPT !.tag = nextTag]
             hands == Held({search'.new}) \cup Held({search'.victim})
                        \cup search'.todo \cup pending'
         IN  \/ nextTag' = nextTag /\ hands \subseteq Carriers
             \/ /\ nextTag \in Tags
                /\ nextTag' = nextTag + 1
                /\ hands \subseteq Carriers \cup {fresh}
<1> DEFINE fresh == [search.new EXCEPT !.tag = nextTag]
           hands == Held({search'.new}) \cup Held({search'.victim})
                      \cup search'.todo \cup pending'
<1>0. /\ Held({search.new}) \subseteq Carriers /\ Held({search.victim}) \subseteq Carriers
      /\ search.todo \subseteq Carriers /\ pending \subseteq Carriers
  BY Carried DEF Hands
<1>1. ASSUME search' = NextResult \/ search' = SearchIdle
      PROVE  Held({search'.new}) \cup Held({search'.victim}) \cup search'.todo = {}
  BY <1>1, NothingCarried DEF NextResult, SearchIdle
<1>2. ASSUME NEW todo \in SUBSET Carriers, search' = AfterQueued(todo), pending' = pending
      PROVE  hands \subseteq Carriers
  <2>1. CASE todo = {}
    BY <1>0, <1>1, <1>2, <2>1 DEF AfterQueued
  <2>2. CASE todo # {}
    BY <1>0, <1>2, <2>2, NothingCarried DEF AfterQueued, TypeOK, SearchState
  <2> QED  BY <2>1, <2>2
<1>3. CASE BeginSearch
  BY <1>0, <1>3 DEF BeginSearch, TypeOK, SearchState
<1>4. ASSUME NEW t \in Titles, TakeResult(t)
      PROVE  nextTag' = nextTag /\ hands \subseteq Carriers
  <2>1. Held({[title |-> t, tag |-> NoTag]}) = {}
    BY DEF Held
  <2> QED  BY <1>0, <1>4, <2>1 DEF TakeResult, TypeOK, SearchState
<1>5. CASE RejectResult
  BY <1>0, <1>1, <1>5 DEF RejectResult, FailResult
<1>6. CASE Supersede
  <2> DEFINE M == IF SupersedeEnabled THEN Matches(search.new.title) ELSE {}
  <2>1. {EntryOf(x) : x \in M} \subseteq Carriers
    BY ListedCarried DEF Matches
  <2>2. CASE FailResult
    BY <1>0, <1>1, <1>6, <2>2 DEF Supersede, FailResult
  <2>3. CASE search' = [search EXCEPT !.pc = "queue", !.todo = {EntryOf(x) : x \in M}]
    BY <1>0, <1>6, <2>1, <2>3 DEF Supersede, TypeOK, SearchState
  <2>4. CASE search' = [search EXCEPT !.pc = "queue"]
    BY <1>0, <1>6, <2>4 DEF Supersede, TypeOK, SearchState
  <2> QED  BY <1>6, <2>2, <2>3, <2>4 DEF Supersede
<1>7. CASE AddTorrent
  <2>1. fresh \in Entry
    BY <1>7 DEF AddTorrent, TypeOK, SearchState, Slot, Entry
  <2>2. Held({fresh}) = {fresh}
    BY <2>1, EntryCarried
  <2> QED  BY <1>0, <1>7, <2>2 DEF AddTorrent, TagAfter, TypeOK, SearchState
<1>8. CASE AddRefused
  BY <1>0, <1>1, <1>8 DEF AddRefused, FailResult, TagAfter
<1>9. CASE PersistResult
  BY <1>0, <1>2, <1>9 DEF PersistResult
<1>10. ASSUME NEW e \in search.todo, MarkSuperseded(e)
       PROVE  nextTag' = nextTag /\ hands \subseteq Carriers
  <2>1. Held({e}) = {e}
    BY EntryCarried DEF TypeOK, SearchState
  <2> QED  BY <1>0, <1>10, <2>1 DEF MarkSuperseded, TypeOK, SearchState
<1>11. CASE DeleteSuperseded
  BY <1>0, <1>2, <1>11 DEF DeleteSuperseded
<1>12. CASE EndSearch
  BY <1>0, <1>1, <1>12 DEF EndSearch
<1> QED
  BY <1>3, <1>4, <1>5, <1>6, <1>7, <1>8, <1>9, <1>10, <1>11, <1>12 DEF SearchStep

LEMMA QueueHands ==
  ASSUME TypeOK, QueueStep
  PROVE  qm'.todo \cup qm'.gone \subseteq Carriers
<1>0. qm.todo \cup qm.gone \subseteq Carriers
  BY DEF Carriers
<1>1. CASE BeginQueueRun
  BY <1>0, <1>1 DEF BeginQueueRun, TypeOK, QueueState
<1>2. CASE ListStuck
  <2>1. PICK S \in SUBSET Stuck(qm.pass) :
          qm' = [qm EXCEPT !.pc = "work", !.todo = {EntryOf(x) : x \in S}, !.gone = {}]
    BY <1>2 DEF ListStuck
  <2>2. {EntryOf(x) : x \in S} \subseteq Carriers
    BY ListedCarried DEF Stuck
  <2> QED  BY <2>1, <2>2 DEF TypeOK, QueueState
<1>3. ASSUME NEW e \in qm.todo, DeleteStuck(e)
      PROVE  qm'.todo \cup qm'.gone \subseteq Carriers
  <2>1. PICK gone \in {qm.gone, qm.gone \cup {e}} :
          qm' = [qm EXCEPT !.todo = @ \ {e}, !.gone = gone]
    BY <1>3 DEF DeleteStuck
  <2> QED  BY <1>0, <2>1 DEF TypeOK, QueueState
<1>4. ASSUME NEW e \in qm.gone, MarkStuck(e)
      PROVE  qm'.todo \cup qm'.gone \subseteq Carriers
  BY <1>0, <1>4 DEF MarkStuck, TypeOK, QueueState
<1>5. CASE EndPass
  BY <1>0, <1>5 DEF EndPass, QueueIdle, TypeOK, QueueState
<1> QED  BY <1>1, <1>2, <1>3, <1>4, <1>5 DEF QueueStep

LEMMA PostHands ==
  ASSUME TypeOK, PostStep
  PROVE  Held({pp'.cur}) \cup pp'.todo \subseteq Carriers
<1>0. Held({pp.cur}) \cup pp.todo \subseteq Carriers
  BY Carried DEF Hands
<1>1. CASE BeginPostProcessing
  <2>1. PICK S \in SUBSET Finished :
          pp' = [pp EXCEPT !.pc = "loop", !.todo = {EntryOf(x) : x \in S}]
    BY <1>1 DEF BeginPostProcessing
  <2>2. {EntryOf(x) : x \in S} \subseteq Carriers
    BY ListedCarried DEF Finished
  <2> QED  BY <1>0, <2>1, <2>2 DEF TypeOK, PostState
<1>2. ASSUME NEW e \in pp.todo, ProcessFinished(e)
      PROVE  Held({pp'.cur}) \cup pp'.todo \subseteq Carriers
  <2>1. Held({e}) = {e}
    BY EntryCarried DEF TypeOK, PostState
  <2>2. PICK ok : pp' = AfterCopy(e, ok)
    BY <1>2 DEF ProcessFinished
  <2>3. CASE pp' = [pc |-> "mark", todo |-> pp.todo \ {e}, cur |-> e]
    BY <1>0, <2>1, <2>3
  <2>4. CASE pp' = [pp EXCEPT !.todo = @ \ {e}]
    BY <1>0, <2>4 DEF TypeOK, PostState
  <2> QED  BY <2>2, <2>3, <2>4 DEF AfterCopy
<1>3. CASE MarkFinished
  BY <1>0, <1>3, NothingCarried DEF MarkFinished, TypeOK, PostState
<1>4. CASE RemoveFinished
  BY <1>0, <1>4, NothingCarried DEF RemoveFinished, TypeOK, PostState
<1>5. CASE EndPostProcessing
  BY <1>5, NothingCarried DEF EndPostProcessing, PostIdle
<1> QED  BY <1>1, <1>2, <1>3, <1>4, <1>5 DEF PostStep

(* No step makes a carrier but add_torrent, and it makes one, with a tag   *)
(* that nothing carries.                                                   *)
LEMMA CarriersStep ==
  ASSUME TypeOK, [Next]_vars
  PROVE  \/ nextTag' = nextTag /\ Carriers' \subseteq Carriers
         \/ /\ nextTag \in Tags
            /\ nextTag' = nextTag + 1
            /\ Carriers' \subseteq Carriers \cup {[search.new EXCEPT !.tag = nextTag]}
<1> DEFINE kept  == nextTag' = nextTag /\ Hands' \subseteq Carriers
           fresh == [search.new EXCEPT !.tag = nextTag]
           added == /\ nextTag \in Tags
                    /\ nextTag' = nextTag + 1
                    /\ Hands' \subseteq Carriers \cup {fresh}
<1>1. Held({search.new, search.victim, pp.cur})
        = Held({search.new}) \cup Held({search.victim}) \cup Held({pp.cur})
  BY DEF Held
<1>2. Held({search'.new, search'.victim, pp'.cur})
        = Held({search'.new}) \cup Held({search'.victim}) \cup Held({pp'.cur})
  BY DEF Held
<1>3. Hands \subseteq Carriers
  BY Carried
<1>4. ASSUME SearchStep  PROVE kept \/ added
  <2>1. qm' = qm /\ pp' = pp
    BY <1>4 DEF SearchStep, BeginSearch, TakeResult, RejectResult, Supersede, AddTorrent,
                AddRefused, PersistResult, MarkSuperseded, DeleteSuperseded, EndSearch
  <2> DEFINE hands == Held({search'.new}) \cup Held({search'.victim})
                        \cup search'.todo \cup pending'
             rest  == Held({pp.cur}) \cup qm.todo \cup qm.gone \cup pp.todo
  <2>2. Hands' = hands \cup rest
    BY <1>2, <2>1 DEF Hands
  <2>3. rest \subseteq Carriers
    BY <1>1, <1>3 DEF Hands
  <2>4. \/ nextTag' = nextTag /\ hands \subseteq Carriers
        \/ /\ nextTag \in Tags
           /\ nextTag' = nextTag + 1
           /\ hands \subseteq Carriers \cup {fresh}
    BY <1>4, SearchHands
  <2> HIDE DEF hands, rest, fresh
  <2> QED  BY <2>2, <2>3, <2>4
<1>5. ASSUME QueueStep  PROVE kept \/ added
  <2>1. UNCHANGED <<search, pp, pending, nextTag>>
    BY <1>5 DEF QueueStep, BeginQueueRun, ListStuck, DeleteStuck, MarkStuck, EndPass
  <2> QED  BY <1>3, <1>5, <2>1, QueueHands DEF Hands
<1>6. ASSUME PostStep  PROVE kept \/ added
  <2>1. UNCHANGED <<search, qm, pending, nextTag>>
    BY <1>6 DEF PostStep, BeginPostProcessing, ProcessFinished, MarkFinished, RemoveFinished,
                EndPostProcessing
  <2> QED  BY <1>1, <1>2, <1>3, <1>6, <2>1, PostHands DEF Hands
<1>7. ASSUME ClientStep  PROVE kept \/ added
  <2>1. UNCHANGED <<search, qm, pp, nextTag>> /\ pending' \subseteq pending
    BY <1>7 DEF ClientStep, FetchTorrent, DropTorrent, AdvanceTorrent, UserAdds, UserRemoves
  <2> QED  BY <1>3, <2>1 DEF Hands
<1>8. ASSUME Interrupt  PROVE kept \/ added
  <2>1. /\ search' \in {search, SearchIdle} /\ qm' \in {qm, QueueIdle}
        /\ pp' \in {pp, PostIdle}
        /\ UNCHANGED <<pending, nextTag>>
    BY <1>8 DEF Interrupt, Interrupted
  <2>2. Held({search'.new}) \cup Held({search'.victim}) \cup search'.todo \subseteq Carriers
    <3>1. CASE search' = search
      BY <1>1, <1>3, <3>1 DEF Hands
    <3>2. CASE search' = SearchIdle
      BY <3>2, NothingCarried DEF SearchIdle
    <3> QED  BY <2>1, <3>1, <3>2
  <2>3. qm'.todo \cup qm'.gone \subseteq Carriers
    BY <1>3, <2>1 DEF Hands, QueueIdle
  <2>4. Held({pp'.cur}) \cup pp'.todo \subseteq Carriers
    <3>1. CASE pp' = pp
      BY <1>1, <1>3, <3>1 DEF Hands
    <3>2. CASE pp' = PostIdle
      BY <3>2, NothingCarried DEF PostIdle
    <3> QED  BY <2>1, <3>1, <3>2
  <2> QED  BY <1>2, <1>3, <2>1, <2>2, <2>3, <2>4 DEF Hands
<1>9. ASSUME NEW t \in Titles, RowAges(t)
      PROVE  kept
  BY <1>3, <1>9 DEF RowAges, Hands
<1>10. ASSUME UNCHANGED vars  PROVE kept \/ added
  BY <1>3, <1>10 DEF vars, Hands
<1>11. kept \/ added
  BY <1>4, <1>5, <1>6, <1>7, <1>8, <1>9, <1>10 DEF Next
<1>12. Carriers' = Held(history') \cup Held(client') \cup Hands'
  BY DEF Carriers, Hands, Held, EntryOf
<1> QED  BY <1>11, <1>12, RowsCarried, TorrentsCarried

LEMMA CarrierType ==
  ASSUME TypeOK
  PROVE  Carriers \subseteq Entry
<1>1. \A S : S \subseteq Row \/ S \subseteq Torrent \/ S \subseteq Slot
               => Held(S) \subseteq Entry
  BY DEF Held, EntryOf, Row, Torrent, Slot, Entry
<1>2. search.new \in Slot /\ search.victim \in Slot /\ pp.cur \in Slot
  BY DEF TypeOK, SearchState, PostState
<1> QED  BY <1>1, <1>2 DEF Carriers, TypeOK, SearchState, QueueState, PostState

LEMMA TagStep ==
  ASSUME TypeOK, TagInv, [Next]_vars
  PROVE  TagInv'
<1>1. CASE nextTag' = nextTag /\ Carriers' \subseteq Carriers
  BY <1>1 DEF TagInv, TagMeansTitle
<1>2. CASE /\ nextTag \in Tags
           /\ nextTag' = nextTag + 1
           /\ Carriers' \subseteq Carriers \cup {[search.new EXCEPT !.tag = nextTag]}
  <2> DEFINE fresh == [search.new EXCEPT !.tag = nextTag]
  <2>1. fresh.tag = nextTag
    BY DEF TypeOK, SearchState, Slot
  <2> HIDE DEF fresh
  <2>2. \A e \in Carriers : e.tag \in Nat /\ e.tag < nextTag
    BY CarrierType, TagFacts DEF TagInv, Entry
  <2>3. nextTag \in Nat
    BY <1>2, TagFacts
  <2>4. \A a, b \in Carriers \cup {fresh} : a.tag = b.tag => a.title = b.title
    BY <2>1, <2>2, <2>3 DEF TagInv, TagMeansTitle
  <2>5. \A e \in Carriers \cup {fresh} : e.tag < nextTag + 1
    BY <2>1, <2>2, <2>3
  <2> USE DEF fresh
  <2> QED  BY <1>2, <2>4, <2>5 DEF TagInv, TagMeansTitle
<1> QED  BY <1>1, <1>2, CarriersStep

LEMMA TagInit ==
  ASSUME Init
  PROVE  TagInv
<1>1. Held({}) = {}
  BY DEF Held
<1>2. Held({NoEntry, NoEntry, NoEntry}) = {}
  BY NoEntryType DEF Held
<1>3. Carriers = {}
  BY <1>1, <1>2 DEF Init, Carriers, SearchIdle, QueueIdle, PostIdle
<1> QED  BY <1>3 DEF TagInv, TagMeansTitle

(* A tag means one title in the table, in the client and in the hands of   *)
(* every thread: an update by tag, whatever the age of the listing it was  *)
(* taken from, changes the row of the torrent that was listed.             *)
THEOREM OneTitlePerTag == Spec => []TagMeansTitle
<1>1. Init => TagInv
  BY TagInit
<1>2. TypeOK /\ TagInv /\ [Next]_vars => TagInv'
  BY TagStep
<1>3. TagInv => TagMeansTitle
  BY DEF TagInv
<1> QED  BY <1>1, <1>2, <1>3, TypeCorrect, PTL DEF Spec

-----------------------------------------------------------------------------
(* Supersession.  The torrents to delete are chosen before the new one is  *)
(* queued and deleted after its row is written; the choice stays justified *)
(* and the row stays, because no other thread expires rows.                *)

(* The new result is for the movie of entry e and beats e's name.          *)
Beats(new, e) ==
  /\ MovieOf[e.title] = MovieOf[new.title]
  /\ Score[new.title] > NameScore[e.title]

OnRecord(new) == \E r \in history : r.title = new.title /\ r.tag = new.tag

SupersedeInv ==
  /\ search.pc \in {"idle", "scan", "filter"} => search.todo = {}
  /\ \A e \in search.todo : Beats(search.new, e)
  /\ search.pc = "mark" => search.victim = NoEntry
  /\ search.pc = "delete" => Beats(search.new, search.victim)
  /\ search.pc \in {"mark", "delete"} => OnRecord(search.new)

LEMMA RowKept ==
  ASSUME TypeOK, [Next]_vars, search.pc # "idle", NEW new, OnRecord(new)
  PROVE  OnRecord(new)'
<1>1. PICK s \in history : s.title = new.title /\ s.tag = new.tag
  BY DEF OnRecord
<1>2. ASSUME NEW tag, NEW result \in Results,
             history' = UpdateByTag(history, tag, result)
      PROVE  OnRecord(new)'
  BY <1>1, <1>2, UpdateByTagKeeps DEF OnRecord, TypeOK
<1>3. CASE history' = history
  BY <1>1, <1>3 DEF OnRecord
<1>4. ASSUME NEW t \in Titles, RowAges(t)
      PROVE  OnRecord(new)'
  BY <1>1, <1>4, AgedRows DEF RowAges, OnRecord, TypeOK
<1>5. ASSUME NEW e \in search.todo, MarkSuperseded(e)
      PROVE  OnRecord(new)'
  BY <1>2, <1>3, <1>5 DEF MarkSuperseded, MarkStalled, Results
<1>6. ASSUME NEW e \in qm.gone, MarkStuck(e)
      PROVE  OnRecord(new)'
  BY <1>2, <1>6 DEF MarkStuck, MarkStalled, Results
<1>7. CASE MarkFinished
  BY <1>2, <1>7 DEF MarkFinished, MarkCompleted, Results
<1>8. CASE FailResult \/ PersistResult
  BY <1>1, <1>8 DEF FailResult, PersistResult, Write, OnRecord
<1> QED  BY HistoryStep, <1>3, <1>4, <1>5, <1>6, <1>7, <1>8

LEMMA SupersedeStep ==
  ASSUME TypeOK, SupersedeInv, SearchStep
  PROVE  SupersedeInv'
<1> USE DEF SupersedeInv
<1>0. [Next]_vars
  BY DEF Next
<1>1. ASSUME search' = NextResult \/ search' = SearchIdle
      PROVE  SupersedeInv'
  BY <1>1 DEF NextResult, SearchIdle
<1>2. CASE BeginSearch
  BY <1>2 DEF BeginSearch, TypeOK, SearchState
<1>3. ASSUME NEW t \in Titles, TakeResult(t)
      PROVE  SupersedeInv'
  BY <1>3 DEF TakeResult, TypeOK, SearchState
<1>4. CASE RejectResult
  BY <1>1, <1>4 DEF RejectResult, FailResult
<1>5. CASE Supersede
  <2> DEFINE t == search.new.title
             M == IF SupersedeEnabled THEN Matches(t) ELSE {}
  <2>1. CASE FailResult
    BY <1>1, <2>1 DEF FailResult
  <2>2. CASE /\ \A x \in M : NewWins(t, x)
             /\ search' = [search EXCEPT !.pc = "queue", !.todo = {EntryOf(x) : x \in M}]
    <3>1. ASSUME NEW x \in M
          PROVE  Beats(search.new, EntryOf(x))
      BY <2>2, <3>1 DEF Matches, NewWins, Beats, EntryOf
    <3>2. search'.pc = "queue" /\ search'.new = search.new
            /\ search'.todo = {EntryOf(x) : x \in M}
      BY <2>2 DEF TypeOK, SearchState
    <3> QED  BY <3>1, <3>2
  <2>3. CASE search' = [search EXCEPT !.pc = "queue"]
    BY <1>5, <2>3 DEF Supersede, TypeOK, SearchState
  <2> QED  BY <1>5, <2>1, <2>2, <2>3 DEF Supersede
<1>6. CASE AddTorrent
  <2> DEFINE e == [search.new EXCEPT !.tag = nextTag]
  <2>1. e.title = search.new.title
    BY DEF TypeOK, SearchState, Slot
  <2>2. search'.pc = "persist" /\ search'.new = e /\ search'.todo = search.todo
    BY <1>6 DEF AddTorrent, TypeOK, SearchState
  <2> QED  BY <2>1, <2>2 DEF Beats
<1>7. CASE AddRefused
  BY <1>1, <1>7 DEF AddRefused, FailResult
<1>8. ASSUME search' = AfterQueued(search.todo), search'.pc = "mark" => OnRecord(search.new)'
      PROVE  SupersedeInv'
  <2>1. CASE search.todo = {}
    BY <1>1, <1>8, <2>1 DEF AfterQueued
  <2>2. CASE search.todo # {}
    <3>1. search' = [search EXCEPT !.pc = "mark", !.todo = search.todo, !.victim = NoEntry]
      BY <1>8, <2>2 DEF AfterQueued
    <3>2. /\ search'.pc = "mark" /\ search'.new = search.new
          /\ search'.todo = search.todo /\ search'.victim = NoEntry
      BY <3>1 DEF TypeOK, SearchState
    <3> QED  BY <1>8, <3>2 DEF OnRecord
  <2> QED  BY <2>1, <2>2
<1>9. CASE PersistResult
  <2>1. ASSUME search'.pc = "mark"
        PROVE  OnRecord(search.new)'
    <3>1. search'.new = search.new
      BY <1>9, <2>1 DEF PersistResult, AfterQueued, NextResult, SearchIdle, TypeOK, SearchState
    <3> QED  BY <1>9, <3>1 DEF PersistResult, Write, OnRecord
  <2> QED  BY <1>8, <1>9, <2>1 DEF PersistResult
<1>10. ASSUME NEW e \in search.todo, MarkSuperseded(e)
       PROVE  SupersedeInv'
  <2>1. /\ search'.pc = "delete" /\ search'.new = search.new
        /\ search'.todo = search.todo \ {e} /\ search'.victim = e
    BY <1>10 DEF MarkSuperseded, TypeOK, SearchState
  <2>2. OnRecord(search.new) /\ search.pc = "mark"
    BY <1>10 DEF MarkSuperseded
  <2>3. \A new : OnRecord(new) => OnRecord(new)'
    BY <1>0, <2>2, RowKept
  <2> QED  BY <2>1, <2>2, <2>3 DEF OnRecord
<1>11. CASE DeleteSuperseded
  <2>1. ASSUME search'.pc = "mark"
        PROVE  OnRecord(search.new)'
    <3>1. search'.new = search.new
      BY <1>11, <2>1
      DEF DeleteSuperseded, AfterQueued, NextResult, SearchIdle, TypeOK, SearchState
    <3> QED  BY <1>11, <3>1 DEF DeleteSuperseded, OnRecord
  <2> QED  BY <1>8, <1>11, <2>1 DEF DeleteSuperseded
<1>12. CASE EndSearch
  BY <1>1, <1>12 DEF EndSearch
<1> QED
  BY <1>2, <1>3, <1>4, <1>5, <1>6, <1>7, <1>9, <1>10, <1>11, <1>12 DEF SearchStep

(* The steps of the other threads leave the search thread where it is.     *)
LEMMA OtherStep ==
  ASSUME [Next]_vars, ~SearchStep
  PROVE  search' = search \/ search' = SearchIdle
BY DEF Next, ClientStep, FetchTorrent, DropTorrent, AdvanceTorrent, UserAdds, UserRemoves,
       RowAges, QueueStep, BeginQueueRun, ListStuck, DeleteStuck, MarkStuck, EndPass,
       PostStep, BeginPostProcessing, ProcessFinished, MarkFinished, RemoveFinished,
       EndPostProcessing, Interrupt, Interrupted, vars

LEMMA SupersedeKept ==
  ASSUME TypeOK, SupersedeInv, [Next]_vars
  PROVE  SupersedeInv'
<1>1. CASE SearchStep
  BY <1>1, SupersedeStep
<1>2. CASE search' = search
  <2>1. search.pc \in {"mark", "delete"} => OnRecord(search.new)'
    <3>1. ASSUME search.pc \in {"mark", "delete"}
          PROVE  \A new : OnRecord(new) => OnRecord(new)'
      BY <3>1, RowKept
    <3>2. search.pc \in {"mark", "delete"} =>
            (OnRecord(search.new) => \E r \in history' : /\ r.title = search.new.title
                                                         /\ r.tag = search.new.tag)
      BY <3>1 DEF OnRecord
    <3> QED  BY <1>2, <3>2 DEF SupersedeInv, OnRecord
  <2> QED  BY <1>2, <2>1 DEF SupersedeInv
<1>3. CASE search' = SearchIdle
  BY <1>3 DEF SupersedeInv, SearchIdle
<1> QED  BY <1>1, <1>2, <1>3, OtherStep

(* Nothing is deleted for a result that is not on record, and nothing that *)
(* is for another movie or has a name that scores as high: for every       *)
(* scoring, interleaving, failed call and interrupted run.                 *)
THEOREM SupersessionJustified == Spec => []SupersedeJustified
<1>1. Init => SupersedeInv
  BY DEF Init, SupersedeInv, SearchIdle
<1>2. TypeOK /\ SupersedeInv /\ [Next]_vars => SupersedeInv'
  BY SupersedeKept
<1>3. SupersedeInv => SupersedeJustified
  BY DEF SupersedeInv, SupersedeJustified, Beats, OnRecord
<1> QED  BY <1>1, <1>2, <1>3, TypeCorrect, PTL DEF Spec

-----------------------------------------------------------------------------
(* Completed rows.  mark_completed goes by the tag of the listing; that it *)
(* marks the row of the title that was copied rests on OneTitlePerTag.     *)

CopiedInv ==
  CopyCompleted =>
    /\ CompletedWasCopied
    /\ pp.pc = "mark" => pp.cur \in library

LEMMA LibraryGrows ==
  ASSUME [Next]_vars
  PROVE  library \subseteq library'
<1>1. CASE PostStep
  BY <1>1 DEF PostStep, BeginPostProcessing, ProcessFinished, MarkFinished, RemoveFinished,
              EndPostProcessing
<1>2. CASE SearchStep
  BY <1>2 DEF SearchStep, BeginSearch, TakeResult, RejectResult, Supersede, AddTorrent,
              AddRefused, PersistResult, MarkSuperseded, DeleteSuperseded, EndSearch
<1>3. CASE QueueStep
  BY <1>3 DEF QueueStep, BeginQueueRun, ListStuck, DeleteStuck, MarkStuck, EndPass
<1> QED
  BY <1>1, <1>2, <1>3 DEF Next, ClientStep, FetchTorrent, DropTorrent, AdvanceTorrent,
     UserAdds, UserRemoves, RowAges, Interrupt, Interrupted, vars

(* The row mark_completed changes is the row of the torrent that was copied.*)
LEMMA MarkedIsCopied ==
  ASSUME TypeOK, TagMeansTitle, MarkFinished, pp.cur \in library,
         NEW s \in history, s.tag = pp.cur.tag
  PROVE  s.title = pp.cur.title
<1>1. pp.cur \in Entry /\ pp.cur.tag # NoTag
  BY TagFacts DEF TypeOK, Entry
<1>2. EntryOf(s) \in Carriers
  BY <1>1 DEF Carriers, Held
<1>3. pp.cur \in Carriers
  BY <1>1, EntryCarried, Carried
<1> QED  BY <1>2, <1>3 DEF TagMeansTitle, EntryOf

LEMMA CopiedRows ==
  ASSUME TypeOK, TagMeansTitle, CopiedInv, CopyCompleted, [Next]_vars,
         NEW r \in history', r.result = "Completed"
  PROVE  [title |-> r.title, tag |-> r.tag] \in library
<1>0. \A s \in history :
        s.result = "Completed" => [title |-> s.title, tag |-> s.tag] \in library
  BY DEF CopiedInv, CompletedWasCopied
<1>1. CASE history' = history \/ BeginSearch
  BY <1>0, <1>1, ExpireShrinks DEF BeginSearch
<1>2. ASSUME NEW t \in Titles, RowAges(t)
      PROVE  [title |-> r.title, tag |-> r.tag] \in library
  BY <1>0, <1>2, AgedRows DEF RowAges, TypeOK
<1>3. ASSUME NEW tag, history' = MarkStalled(history, tag)
      PROVE  [title |-> r.title, tag |-> r.tag] \in library
  <2>1. PICK s \in history : /\ r.title = s.title /\ r.tag = s.tag
                             /\ s.tag = tag => r = Marked(s, "Stalled")
                             /\ s.tag # tag => r = s
    BY <1>3, UpdateByTagOrigin DEF MarkStalled, Results, TypeOK
  <2>2. Marked(s, "Stalled").result = "Stalled"
    BY DEF Marked, TypeOK, Row
  <2> QED  BY <1>0, <2>1, <2>2
<1>4. CASE MarkFinished
  <2>1. history' = UpdateByTag(history, pp.cur.tag, "Completed") /\ pp.cur \in library
    BY <1>4 DEF MarkFinished, MarkCompleted, CopiedInv
  <2>2. PICK s \in history : /\ r.title = s.title /\ r.tag = s.tag
                             /\ s.tag # pp.cur.tag => r = s
    BY <2>1, UpdateByTagOrigin DEF Results, TypeOK
  <2>3. CASE s.tag = pp.cur.tag
    <3>1. s.title = pp.cur.title
      BY <1>4, <2>1, <2>3, MarkedIsCopied
    <3>2. pp.cur = [title |-> r.title, tag |-> r.tag]
      BY <2>2, <2>3, <3>1 DEF TypeOK, PostState, Slot
    <3> QED  BY <2>1, <3>2
  <2> QED  BY <1>0, <2>2, <2>3
<1>5. CASE FailResult \/ PersistResult
  BY <1>0, <1>5 DEF FailResult, PersistResult, Write
<1>6. ASSUME NEW e \in search.todo, MarkSuperseded(e)
      PROVE  [title |-> r.title, tag |-> r.tag] \in library
  BY <1>1, <1>3, <1>6 DEF MarkSuperseded
<1>7. ASSUME NEW e \in qm.gone, MarkStuck(e)
      PROVE  [title |-> r.title, tag |-> r.tag] \in library
  BY <1>3, <1>7 DEF MarkStuck
<1> QED  BY HistoryStep, <1>1, <1>2, <1>4, <1>5, <1>6, <1>7

(* Only _process_one leads to mark_completed.                              *)
LEMMA MarkedLoop ==
  ASSUME TypeOK,
         BeginPostProcessing \/ MarkFinished \/ RemoveFinished \/ EndPostProcessing
  PROVE  pp'.pc # "mark"
<1>1. CASE BeginPostProcessing
  BY <1>1 DEF BeginPostProcessing, TypeOK, PostState
<1>2. CASE MarkFinished
  BY <1>2 DEF MarkFinished, TypeOK, PostState
<1>3. CASE RemoveFinished
  BY <1>3 DEF RemoveFinished, TypeOK, PostState
<1>4. CASE EndPostProcessing
  BY <1>4 DEF EndPostProcessing, PostIdle
<1> QED  BY <1>1, <1>2, <1>3, <1>4

(* The other threads leave the post-processing thread where it is.         *)
LEMMA PostOnly ==
  ASSUME [Next]_vars, ~PostStep
  PROVE  pp' = pp \/ pp'.pc # "mark"
<1>1. CASE SearchStep
  BY <1>1 DEF SearchStep, BeginSearch, TakeResult, RejectResult, Supersede, AddTorrent,
              AddRefused, PersistResult, MarkSuperseded, DeleteSuperseded, EndSearch
<1>2. CASE QueueStep
  BY <1>2 DEF QueueStep, BeginQueueRun, ListStuck, DeleteStuck, MarkStuck, EndPass
<1>3. CASE Interrupt
  BY <1>3 DEF Interrupt, Interrupted, PostIdle
<1>4. CASE ClientStep
  BY <1>4 DEF ClientStep, FetchTorrent, DropTorrent, AdvanceTorrent, UserAdds, UserRemoves
<1>5. ASSUME NEW t \in Titles, RowAges(t)
      PROVE  pp' = pp
  BY <1>5 DEF RowAges
<1>6. CASE UNCHANGED vars
  BY <1>6 DEF vars
<1> QED  BY <1>1, <1>2, <1>3, <1>4, <1>5, <1>6 DEF Next

LEMMA CopyingStep ==
  ASSUME TypeOK, CopiedInv, CopyCompleted, [Next]_vars, pp'.pc = "mark"
  PROVE  pp'.cur \in library'
<1>1. ASSUME NEW e \in pp.todo, ProcessFinished(e)
      PROVE  pp'.cur \in library'
  <2>1. PICK ok : /\ library' = IF ok THEN library \cup {e} ELSE library
                  /\ pp' = AfterCopy(e, ok)
    BY <1>1 DEF ProcessFinished
  <2>2. CASE ok
    BY <2>1, <2>2 DEF AfterCopy
  <2>3. CASE ~ok
    BY <1>1, <2>1, <2>3 DEF AfterCopy, ProcessFinished, TypeOK, PostState
  <2> QED  BY <2>2, <2>3
<1>2. CASE pp' = pp
  BY <1>2, LibraryGrows DEF CopiedInv
<1>3. CASE PostStep
  BY <1>1, <1>3, MarkedLoop DEF PostStep
<1> QED  BY <1>2, <1>3, PostOnly

LEMMA CopiedStep ==
  ASSUME TypeOK, TagMeansTitle, CopiedInv, [Next]_vars
  PROVE  CopiedInv'
<1> SUFFICES ASSUME CopyCompleted
             PROVE  CompletedWasCopied' /\ (pp'.pc = "mark" => pp'.cur \in library')
  BY DEF CopiedInv
<1> QED  BY CopiedRows, CopyingStep, LibraryGrows DEF CompletedWasCopied

(* With copy_completed, a row is Completed only when the files of its own  *)
(* torrent were copied and verified before.                                *)
THEOREM CompletedCopied == Spec => []CompletedWasCopied
<1>1. Init => CopiedInv
  BY DEF Init, CopiedInv, CompletedWasCopied, PostIdle
<1>2. TypeOK /\ TagMeansTitle /\ CopiedInv /\ [Next]_vars => CopiedInv'
  BY CopiedStep
<1>3. CopiedInv => CompletedWasCopied
  BY DEF CopiedInv, CompletedWasCopied
<1> QED  BY <1>1, <1>2, <1>3, TypeCorrect, OneTitlePerTag, PTL DEF Spec

-----------------------------------------------------------------------------
(* The history table implements the lifecycle of a title.                  *)

Unique(rows) == \A r, s \in rows : r.title = s.title => r = s

LEMMA StatusOfRow ==
  ASSUME NEW rows, Unique(rows), NEW r \in rows
  PROVE  StatusOf(rows, r.title) = r.result
<1>1. IsDuplicateExact(rows, r.title)
  BY DEF IsDuplicateExact
<1>2. (CHOOSE s \in rows : s.title = r.title) = r
  BY DEF Unique
<1> QED  BY <1>1, <1>2 DEF StatusOf

LEMMA StatusOfNone ==
  ASSUME NEW rows, NEW t, ~IsDuplicateExact(rows, t)
  PROVE  StatusOf(rows, t) = "None"
BY DEF StatusOf

(* A title keeps its status when its row keeps its result.                 *)
LEMMA SameStatus ==
  ASSUME NEW rows, NEW rows2, Unique(rows), Unique(rows2), NEW t,
         \A r \in rows2 : r.title = t =>
           \E s \in rows : s.title = t /\ s.result = r.result,
         \A s \in rows : s.title = t => \E r \in rows2 : r.title = t
  PROVE  StatusOf(rows2, t) = StatusOf(rows, t)
<1>1. CASE IsDuplicateExact(rows2, t)
  <2>1. PICK r \in rows2 : r.title = t
    BY <1>1 DEF IsDuplicateExact
  <2>2. PICK s \in rows : s.title = t /\ s.result = r.result
    BY <2>1
  <2> QED  BY <2>1, <2>2, StatusOfRow
<1>2. CASE ~IsDuplicateExact(rows2, t)
  <2>1. ~IsDuplicateExact(rows, t)
    BY <1>2 DEF IsDuplicateExact
  <2> QED  BY <1>2, <2>1, StatusOfNone
<1> QED  BY <1>1, <1>2

(* A row with a tag was queued, and mark_completed is called with a tag.   *)
QueuedInv ==
  /\ \A r \in history : r.tag # NoTag => r.result # "Failed"
  /\ pp.pc = "mark" => pp.cur.tag # NoTag

LEMMA QueuedStep ==
  ASSUME TypeOK, QueuedInv, [Next]_vars
  PROVE  QueuedInv'
<1>1. ASSUME NEW r \in history', r.tag # NoTag
      PROVE  r.result # "Failed"
  <2> USE <1>1 DEF QueuedInv
  <2>1. CASE history' = history \/ BeginSearch
    BY <2>1, ExpireShrinks DEF BeginSearch
  <2>2. ASSUME NEW t \in Titles, RowAges(t)
        PROVE  r.result # "Failed"
    BY <2>2, AgedRows DEF RowAges, TypeOK
  <2>3. ASSUME NEW tag, NEW result \in {"Stalled", "Completed"},
               history' = UpdateByTag(history, tag, result)
        PROVE  r.result # "Failed"
    <3>1. PICK s \in history : /\ r.tag = s.tag
                               /\ s.tag = tag => r = Marked(s, result)
                               /\ s.tag # tag => r = s
      <4>1. result \in Results /\ history \subseteq Row
        BY DEF Results, TypeOK
      <4> QED  BY <2>3, <4>1, UpdateByTagOrigin
    <3>2. Marked(s, result).result = result
      BY DEF Marked, TypeOK, Row
    <3> QED  BY <3>1, <3>2
  <2>4. CASE FailResult
    BY <2>4 DEF FailResult, Write
  <2>5. CASE PersistResult
    BY <2>5 DEF PersistResult, Write
  <2>6. ASSUME NEW e \in search.todo, MarkSuperseded(e)
        PROVE  r.result # "Failed"
    BY <2>1, <2>3, <2>6 DEF MarkSuperseded, MarkStalled
  <2>7. ASSUME NEW e \in qm.gone, MarkStuck(e)
        PROVE  r.result # "Failed"
    BY <2>3, <2>7 DEF MarkStuck, MarkStalled
  <2>8. CASE MarkFinished
    BY <2>3, <2>8 DEF MarkFinished, MarkCompleted
  <2> QED  BY HistoryStep, <2>1, <2>2, <2>4, <2>5, <2>6, <2>7, <2>8
<1>2. ASSUME pp'.pc = "mark"
      PROVE  pp'.cur.tag # NoTag
  <2>1. pp' = pp \/ \E e \in pp.todo : ProcessFinished(e)
    <3>1. CASE PostStep
      <4>1. pp'.pc # "mark" \/ \E e \in pp.todo : ProcessFinished(e)
        BY <3>1, MarkedLoop DEF PostStep
      <4> QED  BY <1>2, <4>1
    <3> QED  BY <1>2, <3>1, PostOnly
  <2>2. ASSUME NEW e \in pp.todo, ProcessFinished(e)
        PROVE  pp'.cur.tag # NoTag
    <3>1. pp' = [pc |-> "mark", todo |-> pp.todo \ {e}, cur |-> e]
            \/ (pp' = [pp EXCEPT !.todo = @ \ {e}] /\ pp.pc = "loop")
      BY <2>2 DEF ProcessFinished, AfterCopy
    <3>2. e.tag # NoTag
      BY TagFacts DEF TypeOK, PostState, Entry
    <3> QED  BY <1>2, <3>1, <3>2 DEF TypeOK, PostState
  <2> QED  BY <1>2, <2>1, <2>2 DEF QueuedInv
<1> QED  BY <1>1, <1>2 DEF QueuedInv

(* The steps that change no verdict.                                       *)
LEMMA NoVerdictStep ==
  ASSUME Unique(history), Unique(history'),
         \A r \in history' : \E s \in history : s.title = r.title /\ s.result = r.result,
         \A s \in history : \E r \in history' : r.title = s.title
  PROVE  status' = status
<1>1. ASSUME NEW t \in Titles
      PROVE  StatusOf(history', t) = StatusOf(history, t)
  <2>1. \A r \in history' : r.title = t =>
          \E s \in history : s.title = t /\ s.result = r.result
    OBVIOUS
  <2>2. \A s \in history : s.title = t => \E r \in history' : r.title = t
    OBVIOUS
  <2> QED  BY <2>1, <2>2, SameStatus
<1> QED  BY <1>1 DEF status

LEMMA ForgetStep ==
  ASSUME TypeOK, Unique(history), BeginSearch
  PROVE  \E S \in SUBSET Titles : TitleLife!Forget(S)
<1> DEFINE kept == ExpireAll(history)
           S == {t \in Titles : \E r \in history \ kept : r.title = t}
<1>1. history' = kept /\ kept \subseteq history
  BY ExpireShrinks DEF BeginSearch
<1>2. \A r \in history \ kept : r.result \in {"Stalled", "Failed", "Passed"}
  BY DEF ExpireAll, ExpireByResult
<1>3. Unique(kept)
  BY <1>1 DEF Unique
<1>4. ASSUME NEW t \in S
      PROVE  /\ StatusOf(history, t) \in {"Failed", "Passed", "Stalled"}
             /\ StatusOf(kept, t) = "None"
  <2>1. PICK r \in history \ kept : r.title = t
    OBVIOUS
  <2>2. ~IsDuplicateExact(kept, t)
    BY <1>1, <2>1 DEF IsDuplicateExact, Unique
  <2> QED  BY <1>2, <2>1, <2>2, StatusOfRow, StatusOfNone
<1>5. ASSUME NEW t \in Titles, t \notin S
      PROVE  StatusOf(kept, t) = StatusOf(history, t)
  <2>1. \A s \in history : s.title = t => s \in kept
    BY <1>5
  <2>2. \A r \in kept : r.title = t => \E s \in history : s.title = t /\ s.result = r.result
    BY <1>1
  <2>3. \A s \in history : s.title = t => \E r \in kept : r.title = t
    BY <2>1
  <2> HIDE DEF kept, S
  <2> QED  BY <1>3, <2>2, <2>3, SameStatus
<1>6. \A t \in S : status[t] \in {"Failed", "Passed", "Stalled"}
  BY <1>4 DEF status
<1>7. status' = [t \in Titles |-> IF t \in S THEN "None" ELSE status[t]]
  <2>1. status' = [t \in Titles |-> StatusOf(kept, t)]
    BY <1>1 DEF status
  <2>2. \A t \in Titles : StatusOf(kept, t) = IF t \in S THEN "None" ELSE status[t]
    BY <1>4, <1>5 DEF status
  <2> HIDE DEF kept, S
  <2> QED  BY <2>1, <2>2
<1>8. TitleLife!Forget(S)
  BY <1>6, <1>7 DEF TitleLife!Forget
<1> QED  BY <1>8

LEMMA DecideStep ==
  ASSUME TypeOK, Unique(history), ~IsDuplicateExact(history, search.new.title),
         NEW tag, NEW result \in {"Failed", "Passed"}, Unique(history'),
         history' = Write(history, search.new.title, tag, result)
  PROVE  TitleLife!Decide(search.new.title) /\ search.new.title \in Titles
<1> DEFINE t == search.new.title
           row == [title |-> t, tag |-> tag, result |-> result, age |-> "recent"]
<1>0. t \in Titles
  BY DEF TypeOK, SearchState, Slot
<1>1. status[t] = "None"
  BY <1>0, StatusOfNone DEF status
<1>2. row \in history' /\ history' = history \cup {row}
  BY DEF Write
<1>3. StatusOf(history', t) = result
  <2>1. row.title = t /\ row.result = result
    OBVIOUS
  <2> HIDE DEF row
  <2> QED  BY <1>2, <2>1, StatusOfRow
<1>4. ASSUME NEW u \in Titles, u # t
      PROVE  StatusOf(history', u) = StatusOf(history, u)
  <2>1. \A r \in history' : r.title = u =>
          \E s \in history : s.title = u /\ s.result = r.result
    BY <1>2, <1>4
  <2>2. \A s \in history : s.title = u => \E r \in history' : r.title = u
    BY <1>2
  <2> QED  BY <2>1, <2>2, SameStatus
<1>5. status' = [status EXCEPT ![t] = result]
  BY <1>0, <1>3, <1>4 DEF status
<1> QED  BY <1>0, <1>1, <1>5 DEF TitleLife!Decide

(* The one step of the table that is not one of the lifecycle: a Completed *)
(* title is recorded as Stalled.  MarkStalled alone takes it.              *)
Demoted(t) == status[t] = "Completed" /\ status' = [status EXCEPT ![t] = "Stalled"]

TableStep == TitleLife!Next \/ \E t \in Titles : Demoted(t)

(* An update by the tag of a queued torrent settles its title or demotes   *)
(* it, or finds no row, or one that says so already, and changes nothing.  *)
LEMMA SettleStep ==
  ASSUME TypeOK, TagMeansTitle, QueuedInv, Unique(history), Unique(history'),
         NEW tag, tag # NoTag, NEW result \in {"Stalled", "Completed"},
         history' = UpdateByTag(history, tag, result)
  PROVE  status' = status \/ \E t \in Titles : TitleLife!Settle(t) \/ Demoted(t)
<1>0. result \in Results /\ history \subseteq Row
  BY DEF Results, TypeOK
<1>1. \A r \in history' : \E s \in history :
        /\ r.title = s.title /\ r.tag = s.tag
        /\ s.tag = tag => r = Marked(s, result)
        /\ s.tag # tag => r = s
  BY <1>0, UpdateByTagOrigin
<1>2. \A s \in history : \E r \in history' : r.title = s.title /\ r.tag = s.tag
  BY <1>0, UpdateByTagKeeps
<1>3. CASE \A s \in history : s.tag # tag
  BY <1>1, <1>2, <1>3, NoVerdictStep
<1>4. ASSUME NEW q \in history, q.tag = tag
      PROVE  /\ status' = status \/ TitleLife!Settle(q.title) \/ Demoted(q.title)
             /\ q.title \in Titles
  <2> DEFINE t == q.title
  <2>0. t \in Titles
    BY <1>0 DEF Row
  <2>1. \A s \in history : s.tag = tag => s.title = t
    <3>1. ASSUME NEW s \in history, s.tag = tag
          PROVE  s.title = t
      <4>1. EntryOf(s) \in Carriers /\ EntryOf(q) \in Carriers
        BY <1>4, <3>1 DEF Carriers, Held
      <4> QED  BY <1>4, <3>1, <4>1 DEF TagMeansTitle, EntryOf
    <3> QED  BY <3>1
  <2>2. status[t] = q.result /\ q.result \in {"Passed", "Stalled", "Completed"}
    BY <1>0, <1>4, <2>0, StatusOfRow DEF status, QueuedInv, Row, Results
  <2>3. StatusOf(history', t) = result
    <3>1. PICK r \in history' : r.title = t
      BY <1>2
    <3>2. PICK s \in history : r.title = s.title /\ (s.tag = tag => r = Marked(s, result))
      BY <1>1
    <3>3. s = q
      BY <3>1, <3>2 DEF Unique
    <3>4. r.result = result
      BY <1>0, <1>4, <3>2, <3>3 DEF Marked, Row
    <3> QED  BY <3>1, <3>4, StatusOfRow
  <2>4. ASSUME NEW u \in Titles, u # t
        PROVE  StatusOf(history', u) = StatusOf(history, u)
    <3>1. \A r \in history' : r.title = u =>
            \E s \in history : s.title = u /\ s.result = r.result
      BY <1>1, <2>1, <2>4
    <3>2. \A s \in history : s.title = u => \E r \in history' : r.title = u
      BY <1>2
    <3> QED  BY <3>1, <3>2, SameStatus
  <2>5. status' = [status EXCEPT ![t] = result]
    BY <2>0, <2>3, <2>4 DEF status
  <2>6. CASE status[t] \in {"Passed", "Stalled"}
    BY <2>0, <2>5, <2>6 DEF TitleLife!Settle
  <2>7. CASE status[t] = "Completed" /\ result = "Stalled"
    BY <2>0, <2>5, <2>7 DEF Demoted
  <2>8. CASE status[t] = "Completed" /\ result = "Completed"
    <3>1. status \in [Titles -> {StatusOf(history, u) : u \in Titles}]
      BY DEF status
    <3> QED  BY <2>0, <2>5, <2>8, <3>1
  <2> QED  BY <2>0, <2>2, <2>6, <2>7, <2>8
<1> QED  BY <1>3, <1>4

LEMMA VerdictStep ==
  ASSUME TypeOK, TagMeansTitle, OneRowInv, QueuedInv, OneRowPerTitle', [Next]_vars
  PROVE  TableStep \/ status' = status
<1> USE DEF TableStep
<1>0. Unique(history) /\ Unique(history')
  BY DEF OneRowInv, OneRowPerTitle, Unique
<1>1. CASE history' = history
  BY <1>1 DEF status
<1>2. CASE BeginSearch
  BY <1>0, <1>2, ForgetStep DEF TitleLife!Next
<1>3. ASSUME NEW t \in Titles, RowAges(t)
      PROVE  status' = status
  <2>1. PICK s \in MayAge(history) : history' = Aged(history, s)
    BY <1>3 DEF RowAges
  <2>2. history \subseteq Row
    BY DEF TypeOK
  <2> QED  BY <1>0, <2>1, <2>2, AgedRows, NoVerdictStep
<1>4. ASSUME NEW tag, tag # NoTag, NEW result \in {"Stalled", "Completed"},
             history' = UpdateByTag(history, tag, result)
      PROVE  TableStep \/ status' = status
  BY <1>0, <1>4, SettleStep DEF TitleLife!Next
<1>5. ASSUME NEW e \in search.todo, MarkSuperseded(e)
      PROVE  TableStep \/ status' = status
  <2>1. e.tag # NoTag
    BY TagFacts DEF TypeOK, SearchState, Entry
  <2> QED  BY <1>1, <1>4, <1>5, <2>1 DEF MarkSuperseded, MarkStalled
<1>6. ASSUME NEW e \in qm.gone, MarkStuck(e)
      PROVE  TableStep \/ status' = status
  <2>1. e.tag # NoTag
    BY TagFacts DEF TypeOK, QueueState, Entry
  <2> QED  BY <1>4, <1>6, <2>1 DEF MarkStuck, MarkStalled
<1>7. CASE MarkFinished
  BY <1>4, <1>7 DEF MarkFinished, MarkCompleted, QueuedInv
<1>8. CASE search.pc \in {"filter", "queue"} /\ FailResult
  <2>1. ~IsDuplicateExact(history, search.new.title)
    BY <1>8 DEF OneRowInv
  <2>2. history' = Write(history, search.new.title, NoTag, "Failed")
    BY <1>8 DEF FailResult
  <2> QED  BY <1>0, <2>1, <2>2, DecideStep DEF TitleLife!Next
<1>9. CASE PersistResult
  <2>1. ~IsDuplicateExact(history, search.new.title)
    BY <1>9 DEF OneRowInv, PersistResult
  <2>2. history' = Write(history, search.new.title, search.new.tag, "Passed")
    BY <1>9 DEF PersistResult
  <2> QED  BY <1>0, <2>1, <2>2, DecideStep DEF TitleLife!Next
<1> QED  BY HistoryStep, <1>1, <1>2, <1>3, <1>5, <1>6, <1>7, <1>8, <1>9

(* The history table, whatever the interleaving of the three tasks, their  *)
(* failed calls and interrupted runs, keeps to the lifecycle of a title in *)
(* every step but one: a verdict is given once, settled only after the     *)
(* title was queued and forgotten only by expiry.  The one exception is    *)
(* the step that CompletedIsPermanent is violated by.                      *)
THEOREM FollowsLifecycleButForDemotion ==
  Spec => TitleLife!Init /\ [][TitleLife!Next \/ \E t \in Titles : Demoted(t)]_status
<1>1. Init => OneRowInv /\ QueuedInv
  BY DEF Init, OneRowInv, OneRowPerTitle, QueuedInv, SearchIdle, PostIdle
<1>2. TypeOK /\ OneRowInv /\ [Next]_vars => OneRowInv'
  BY OneRowStep
<1>3. TypeOK /\ QueuedInv /\ [Next]_vars => QueuedInv'
  BY QueuedStep
<1>4. Init => TitleLife!Init
  BY StatusOfNone DEF Init, TitleLife!Init, status, IsDuplicateExact
<1>5. TypeOK /\ TagMeansTitle /\ OneRowInv /\ QueuedInv /\ OneRowPerTitle' /\ [Next]_vars
        => [TableStep]_status
  BY VerdictStep
<1>6. Spec => TitleLife!Init /\ [][TableStep]_status
  BY <1>1, <1>2, <1>3, <1>4, <1>5, TypeCorrect, OneTitlePerTag, OneRow, PTL DEF Spec
<1> QED  BY <1>6 DEF TableStep
=============================================================================
