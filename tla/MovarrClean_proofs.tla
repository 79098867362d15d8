-------------------------- MODULE MovarrClean_proofs --------------------------
(***************************************************************************)
(* Proofs about Movarr: a torrent that is recorded as Stalled is gone, or  *)
(* has lost to a better release, whatever fails; and when nothing fails,   *)
(* every torrent of movarr's has its row.  The three tasks interleave at   *)
(* every step, work from stale listings, and share the client with the     *)
(* user.                                                                   *)
(***************************************************************************)
EXTENDS Movarr_proofs

(* What a task has seen in the client, its own lists included. *)
Listed == Held(client) \cup search.todo \cup qm.todo \cup qm.gone

(* An add that was not carried out yet has not been seen. *)
ApartInv == \A e \in pending, a \in Listed : a.tag # e.tag

(* What queue management deleted does not come back. *)
GoneInv == \A e \in qm.gone, x \in client : x.tag # e.tag

(* A better release of the movie of t has superseded it. *)
Outranked(t) ==
  /\ SupersedeEnabled
  /\ \E u \in Titles : MovieOf[u] = MovieOf[t] /\ Score[u] > NameScore[t]

StalledInv ==
  \A r \in history : r.result = "Stalled" =>
    /\ r.tag # NoTag
    /\ \A e \in pending : e.tag # r.tag
    /\ \A x \in client : x.tag = r.tag => Outranked(r.title)

(* When no call fails, only the torrent that is deleted next is still there.*)
DyingInv ==
  ~Faults => \A r \in history, x \in client : r.result = "Stalled" /\ x.tag = r.tag =>
               search.pc = "delete" /\ search.victim = EntryOf(x)

(* A Failed row names no torrent, and only what expires gets old. *)
RowInv ==
  \A r \in history : /\ r.result = "Failed" => r.tag = NoTag
                     /\ r.age = "due" => r.result \in Expiring

OrphanInv ==
  ~Faults /\ "Passed" \notin Expiring =>
    \A e \in Held(client) \cup pending :
      (\E r \in history : r.tag = e.tag) \/ (search.pc = "persist" /\ search.new = e)

Clean == ApartInv /\ GoneInv /\ StalledInv /\ DyingInv /\ RowInv /\ OrphanInv

(* Torrents are superseded only when that is switched on. *)
EnabledInv == search.todo # {} => SupersedeEnabled

Base == TypeOK /\ TagInv /\ Clean /\ SupersedeInv /\ EnabledInv

-----------------------------------------------------------------------------
(* The client. *)

LEMMA TagsOf ==
  ASSUME Base
  PROVE  /\ \A x \in client : x.tag # NoTag => EntryOf(x) \in Held(client)
         /\ \A e \in Listed \cup pending : e \in Entry /\ e.tag # NoTag /\ e \in Carriers
         /\ \A r \in history : r.tag # NoTag => r.tag < nextTag
<1>1. \A x \in client : x.tag # NoTag => EntryOf(x) \in Held(client)
  BY DEF Held
<1>2. Listed \cup pending \subseteq Carriers
  BY Carried DEF Hands, Listed
<1>3. \A e \in Listed \cup pending : e \in Entry /\ e.tag # NoTag /\ e \in Carriers
  BY <1>2, CarrierType, TagFacts DEF Base, Entry
<1>4. ASSUME NEW r \in history, r.tag # NoTag
      PROVE  r.tag < nextTag
  <2>1. EntryOf(r) \in Held(history)
    BY <1>4 DEF Held
  <2> QED  BY <2>1, Carried DEF Base, TagInv, EntryOf
<1> QED  BY <1>1, <1>3, <1>4

(* A torrent with the tag of an entry is that entry's. *)
LEMMA SameTag ==
  ASSUME Base, NEW e \in Listed \cup pending, NEW a \in Held(client) \cup pending, a.tag = e.tag
  PROVE  a = e
<1>1. e \in Carriers /\ a \in Carriers /\ e \in Entry /\ a \in Entry
  BY TagsOf DEF Listed
<1>2. a.title = e.title
  BY <1>1 DEF Base, TagInv, TagMeansTitle
<1> QED  BY <1>1, <1>2 DEF Entry

(* Torrents and adds go, and nothing else changes that matters. *)
LEMMA Fewer ==
  ASSUME Base, history' = history, pending' \subseteq pending,
         Held(client') \subseteq Held(client),
         \A x \in client' : x.tag # NoTag => \E y \in client : EntryOf(y) = EntryOf(x),
         Listed' \subseteq Listed, qm'.gone \subseteq qm.gone \/ GoneInv',
         \/ Faults
         \/ search.pc = "persist" => search'.pc = "persist" /\ search'.new = search.new,
         \/ Faults
         \/ search'.pc = search.pc /\ search'.victim = search.victim
         \/ search.pc # "delete"
  PROVE  Clean'
<1>1. ApartInv'
  BY DEF Base, Clean, ApartInv
<1>2. GoneInv'
  <2> SUFFICES ASSUME qm'.gone \subseteq qm.gone,
                      NEW e \in qm'.gone, NEW x \in client', x.tag = e.tag
               PROVE  FALSE
    BY DEF GoneInv
  <2>1. e.tag # NoTag
    BY TagsOf DEF Listed
  <2>2. PICK y \in client : EntryOf(y) = EntryOf(x)
    BY <2>1
  <2> QED  BY <2>2 DEF Base, Clean, GoneInv, EntryOf
<1>3. ASSUME NEW r \in history, r.result = "Stalled", NEW x \in client', x.tag = r.tag
      PROVE  \E y \in client : y.tag = r.tag /\ EntryOf(y) = EntryOf(x)
  <2>1. r.tag # NoTag
    BY <1>3 DEF Base, Clean, StalledInv
  <2>2. PICK y \in client : EntryOf(y) = EntryOf(x)
    BY <1>3, <2>1
  <2> QED  BY <1>3, <2>2 DEF EntryOf
<1>4. StalledInv'
  BY <1>3 DEF Base, Clean, StalledInv
<1>5. DyingInv'
  <2> SUFFICES ASSUME ~Faults, NEW r \in history, r.result = "Stalled",
                      NEW x \in client', x.tag = r.tag
               PROVE  search'.pc = "delete" /\ search'.victim = EntryOf(x)
    BY DEF DyingInv, EntryOf
  <2> QED  BY <1>3 DEF Base, Clean, DyingInv
<1>6. RowInv'
  BY DEF Base, Clean, RowInv
<1>7. OrphanInv'
  <2>1. Held(client)' = Held(client')
    BY DEF Held, EntryOf
  <2> QED  BY <2>1 DEF Base, Clean, OrphanInv
<1> QED  BY <1>1, <1>2, <1>4, <1>5, <1>6, <1>7 DEF Clean

LEMMA DeletedFewer ==
  ASSUME NEW title, NEW ok, client' = Deleted(title, ok)
  PROVE  /\ Held(client') \subseteq Held(client)
         /\ \A x \in client' : \E y \in client : EntryOf(y) = EntryOf(x)
BY DEF Deleted, Held

LEMMA ClientClean ==
  ASSUME Base, ClientStep
  PROVE  Clean'
<1>1. UNCHANGED <<history, search, qm, nextTag>>
  BY DEF ClientStep, FetchTorrent, DropTorrent, AdvanceTorrent, UserAdds, UserRemoves
<1>2. Listed' = Held(client') \cup search.todo \cup qm.todo \cup qm.gone
  BY <1>1 DEF Listed, Held, EntryOf
<1>3. ASSUME pending' \subseteq pending, Held(client') \subseteq Held(client),
             \A x \in client' : x.tag # NoTag => \E y \in client : EntryOf(y) = EntryOf(x)
      PROVE  Clean'
  <2>1. Listed' \subseteq Listed
    BY <1>2, <1>3 DEF Listed
  <2> QED  BY <1>1, <1>3, <2>1, Fewer
<1>4. ASSUME NEW e \in pending, FetchTorrent(e)
      PROVE  Clean'
  <2> DEFINE x == [title |-> e.title, tag |-> e.tag, state |-> "metaDL"]
  <2>1. CASE client' = client
    BY <1>3, <1>4, <2>1 DEF FetchTorrent
  <2>2. CASE client' = client \cup {x}
    <3>1. EntryOf(x) = e /\ x.tag = e.tag /\ e.tag # NoTag
      BY TagsOf DEF EntryOf, Entry
    <3> HIDE DEF x
    <3>2. Held(client') = Held(client) \cup {e} /\ pending' = pending \ {e}
      BY <1>4, <2>2, <3>1 DEF Held, FetchTorrent
    <3>3. ApartInv'
      <4>1. \A d \in pending' : d.tag # e.tag
        BY <3>2, SameTag
      <4>2. \A d \in pending' : \A a \in Listed' : a.tag # d.tag
        BY <1>2, <3>2, <4>1 DEF Base, Clean, ApartInv, Listed
      <4> QED  BY <4>2 DEF ApartInv
    <3>4. GoneInv'
      <4>1. \A d \in qm.gone : d.tag # e.tag
        BY DEF Base, Clean, ApartInv, Listed
      <4> QED  BY <1>1, <2>2, <3>1, <4>1 DEF Base, Clean, GoneInv
    <3>5. \A r \in history : r.result = "Stalled" => r.tag # e.tag
      BY DEF Base, Clean, StalledInv
    <3>8. StalledInv' /\ DyingInv'
      BY <1>1, <2>2, <3>1, <3>2, <3>5 DEF Base, Clean, StalledInv, DyingInv, EntryOf
    <3>6. RowInv'
      BY <1>1 DEF Base, Clean, RowInv
    <3>7. OrphanInv'
      <4>1. Held(client)' = Held(client) \cup {e}
        BY <3>2 DEF Held, EntryOf
      <4> QED  BY <1>1, <3>2, <4>1 DEF Base, Clean, OrphanInv
    <3> QED  BY <3>3, <3>4, <3>6, <3>7, <3>8 DEF Clean
  <2> QED  BY <1>4, <2>1, <2>2 DEF FetchTorrent
<1>5. ASSUME NEW e \in pending, DropTorrent(e)
      PROVE  Clean'
  BY <1>3, <1>5 DEF DropTorrent
<1>6. ASSUME NEW x \in client, NEW to \in States, AdvanceTorrent(x, to)
      PROVE  Clean'
  <2>1. [x EXCEPT !.state = to].tag = x.tag /\ EntryOf([x EXCEPT !.state = to]) = EntryOf(x)
    BY DEF Base, TypeOK, Torrent, EntryOf
  <2>2. \A z \in client' : \E y \in client : EntryOf(y) = EntryOf(z) /\ y.tag = z.tag
    BY <1>6, <2>1 DEF AdvanceTorrent
  <2>3. Held(client') \subseteq Held(client)
    BY <2>2 DEF Held
  <2> QED  BY <1>3, <1>6, <2>2, <2>3 DEF AdvanceTorrent
<1>7. ASSUME NEW t \in Manual, UserAdds(t)
      PROVE  Clean'
  <2>1. \A z \in client' : z.tag # NoTag => z \in client
    BY <1>7 DEF UserAdds
  <2>2. Held(client') \subseteq Held(client)
    BY <2>1 DEF Held
  <2> QED  BY <1>3, <1>7, <2>1, <2>2 DEF UserAdds
<1>8. ASSUME NEW t \in Manual, UserRemoves(t)
      PROVE  Clean'
  BY <1>3, <1>8, DeletedFewer DEF UserRemoves
<1> QED  BY <1>4, <1>5, <1>6, <1>7, <1>8 DEF ClientStep

-----------------------------------------------------------------------------
(* The table. *)

(* Rows may be added and may change, as long as no tag is lost and none    *)
(* that something unseen or a torrent carries becomes Stalled.             *)
LEMMA RowsClean ==
  ASSUME Base, UNCHANGED <<client, pending>>, Listed' \subseteq Listed,
         qm'.gone \subseteq qm.gone, RowInv',
         \A r \in history : r.tag # NoTag => \E q \in history' : q.tag = r.tag,
         search.pc = "persist" =>
           \/ search'.pc = "persist" /\ search'.new = search.new
           \/ \E q \in history' : q.tag = search.new.tag,
         \A r \in history' : r.result = "Stalled" =>
           \/ /\ r.tag # NoTag
              /\ \A e \in pending : e.tag # r.tag
              /\ \A x \in client : x.tag = r.tag =>
                   Outranked(r.title) /\ search'.pc = "delete" /\ search'.victim = EntryOf(x)
           \/ \E q \in history : q.result = "Stalled" /\ q.tag = r.tag /\ q.title = r.title,
         \/ search'.pc = search.pc /\ search'.victim = search.victim
         \/ search.pc # "delete"
  PROVE  Clean'
<1>1. ApartInv'
  BY DEF Base, Clean, ApartInv
<1>2. GoneInv'
  BY DEF Base, Clean, GoneInv
<1>3. ASSUME NEW r \in history', r.result = "Stalled"
      PROVE  /\ r.tag # NoTag
             /\ \A e \in pending : e.tag # r.tag
             /\ \A x \in client : x.tag = r.tag =>
                  /\ Outranked(r.title)
                  /\ Faults \/ (search'.pc = "delete" /\ search'.victim = EntryOf(x))
  <2>1. CASE \E q \in history : q.result = "Stalled" /\ q.tag = r.tag /\ q.title = r.title
    <3>1. PICK q \in history : q.result = "Stalled" /\ q.tag = r.tag /\ q.title = r.title
      BY <2>1
    <3> QED  BY <3>1 DEF Base, Clean, StalledInv, DyingInv
  <2>2. CASE /\ r.tag # NoTag /\ \A e \in pending : e.tag # r.tag
             /\ \A x \in client : x.tag = r.tag =>
                  Outranked(r.title) /\ search'.pc = "delete" /\ search'.victim = EntryOf(x)
    BY <2>2
  <2> QED  BY <1>3, <2>1, <2>2
<1>5. StalledInv' /\ DyingInv'
  BY <1>3 DEF StalledInv, DyingInv, Outranked, EntryOf
<1>4. OrphanInv'
  <2>1. Held(client)' = Held(client)
    BY DEF Held, EntryOf
  <2>2. ASSUME ~Faults, NEW e \in Held(client) \cup pending, "Passed" \notin Expiring
        PROVE  (\E q \in history' : q.tag = e.tag) \/ (search'.pc = "persist" /\ search'.new = e)
    <3>1. e.tag # NoTag
      BY TagsOf DEF Listed
    <3>2. CASE search.pc = "persist" /\ search.new = e
      BY <3>2
    <3>3. CASE \E r \in history : r.tag = e.tag
      BY <3>1, <3>3
    <3> QED  BY <2>2, <3>2, <3>3 DEF Base, Clean, OrphanInv
  <2> QED  BY <2>1, <2>2 DEF OrphanInv
<1> QED  BY <1>1, <1>2, <1>4, <1>5 DEF Clean

(* What an update by tag makes of the rows.                                *)
LEMMA UpdatedRows ==
  ASSUME Base, NEW tag, tag # NoTag, NEW result \in {"Stalled", "Completed"},
         history' = UpdateByTag(history, tag, result)
  PROVE  /\ RowInv'
         /\ \A r \in history : \E q \in history' : q.tag = r.tag
         /\ \A r \in history' : r.result = "Stalled" =>
              \/ /\ result = "Stalled" /\ r.tag = tag
                 /\ \E q \in history : q.tag = tag /\ q.title = r.title
              \/ \E q \in history : q.result = "Stalled" /\ q.tag = r.tag /\ q.title = r.title
<1>1. \A r \in history' : r \in Row /\ \E q \in history :
        /\ r.tag = q.tag /\ r.title = q.title
        /\ q.tag = tag => r = Marked(q, result)
        /\ q.tag # tag => r = q
  <2>1. history \subseteq Row /\ result \in Results
    BY DEF Base, TypeOK, Results
  <2> QED  BY <2>1, UpdateByTagOrigin
<1>2. \A q \in history : Marked(q, result).result = result /\ Marked(q, result).age = "recent"
  BY DEF Base, TypeOK, Row, Marked
<1>3. RowInv'
  <2> SUFFICES ASSUME NEW r \in history'
               PROVE  /\ r.result = "Failed" => r.tag = NoTag
                      /\ r.age = "due" => r.result \in Expiring
    BY DEF RowInv
  <2>1. PICK q \in history :
          /\ r.tag = q.tag
          /\ q.tag = tag => r = Marked(q, result)
          /\ q.tag # tag => r = q
    BY <1>1
  <2>2. CASE q.tag = tag
    <3>1. r.result = result /\ r.age = "recent"
      BY <1>2, <2>1, <2>2
    <3> QED  BY <3>1
  <2>3. CASE q.tag # tag
    BY <2>1, <2>3 DEF Base, Clean, RowInv
  <2> QED  BY <2>2, <2>3
<1>4. ASSUME NEW r \in history
      PROVE  \E q \in history' : q.tag = r.tag
  <2>1. history \subseteq Row /\ result \in Results
    BY DEF Base, TypeOK, Results
  <2> QED  BY <2>1, UpdateByTagKeeps
<1> QED  BY <1>1, <1>2, <1>3, <1>4

(* The task that marks, marks what no torrent carries; or is about to      *)
(* delete it.                                                              *)
LEMMA MarkSupersededClean ==
  ASSUME Base, NEW e \in search.todo, MarkSuperseded(e)
  PROVE  Clean'
<1>1. /\ search.pc = "mark" /\ search'.pc = "delete" /\ search'.victim = e
      /\ search'.todo = search.todo \ {e}
      /\ UNCHANGED <<client, pending, qm>>
      /\ history' = UpdateByTag(history, e.tag, "Stalled") \/ history' = history
  BY DEF MarkSuperseded, MarkStalled, Base, TypeOK, SearchState
<1>2. Listed' \subseteq Listed
  BY <1>1 DEF Listed, Held, EntryOf
<1>3. /\ e.tag # NoTag /\ \A d \in pending : e.tag # d.tag
      /\ \A x \in client : x.tag = e.tag => EntryOf(x) = e
  <2>1. e \in Listed /\ e.tag # NoTag
    BY TagsOf DEF Listed
  <2>2. ASSUME NEW x \in client, x.tag = e.tag
        PROVE  EntryOf(x) = e
    <3>1. EntryOf(x) \in Held(client) /\ EntryOf(x).tag = e.tag
      BY <2>1, <2>2, TagsOf DEF EntryOf
    <3> QED  BY <2>1, <3>1, SameTag
  <2> QED  BY <2>1, <2>2 DEF Base, Clean, ApartInv
<1>4. Outranked(e.title)
  <2>1. Beats(search.new, e) /\ search.new.title \in Titles /\ SupersedeEnabled
    BY DEF Base, SupersedeInv, EnabledInv, TypeOK, SearchState, Slot
  <2> QED  BY <2>1 DEF Beats, Outranked
<1>5. \A q \in history : q.tag = e.tag => q.title = e.title
  <2> SUFFICES ASSUME NEW q \in history, q.tag = e.tag
               PROVE  q.title = e.title
    OBVIOUS
  <2>1. EntryOf(q) \in Carriers
    BY <1>3 DEF Carriers, Held
  <2>2. e \in Carriers
    BY TagsOf DEF Listed
  <2> QED  BY <2>1, <2>2 DEF Base, TagInv, TagMeansTitle, EntryOf
<1>6. CASE history' = UpdateByTag(history, e.tag, "Stalled")
  <2>1. /\ RowInv' /\ \A r \in history : \E q \in history' : q.tag = r.tag
        /\ \A r \in history' : r.result = "Stalled" =>
             \/ r.tag = e.tag /\ \E q \in history : q.tag = e.tag /\ q.title = r.title
             \/ \E q \in history : q.result = "Stalled" /\ q.tag = r.tag /\ q.title = r.title
    BY <1>3, <1>6, UpdatedRows
  <2>2. \A r \in history' : r.result = "Stalled" =>
          \/ r.tag = e.tag /\ Outranked(r.title)
          \/ \E q \in history : q.result = "Stalled" /\ q.tag = r.tag /\ q.title = r.title
    BY <1>4, <1>5, <2>1
  <2> QED  BY <1>1, <1>2, <1>3, <2>1, <2>2, RowsClean
<1>7. CASE history' = history
  BY <1>1, <1>2, <1>7, Fewer DEF Held
<1> QED  BY <1>1, <1>6, <1>7

LEMMA MarkStuckClean ==
  ASSUME Base, NEW e \in qm.gone, MarkStuck(e)
  PROVE  Clean'
<1>1. /\ UNCHANGED <<client, pending, search>> /\ qm'.gone \subseteq qm.gone /\ qm'.todo = qm.todo
      /\ history' = UpdateByTag(history, e.tag, "Stalled")
  BY DEF MarkStuck, MarkStalled, Base, TypeOK, QueueState
<1>2. Listed' \subseteq Listed
  BY <1>1 DEF Listed, Held, EntryOf
<1>3. /\ e.tag # NoTag /\ \A d \in pending : d.tag # e.tag
      /\ \A x \in client : x.tag # e.tag
  BY TagsOf DEF Base, Clean, ApartInv, GoneInv, Listed
<1>4. /\ RowInv' /\ \A r \in history : \E q \in history' : q.tag = r.tag
      /\ \A r \in history' : r.result = "Stalled" =>
           \/ r.tag = e.tag
           \/ \E q \in history : q.result = "Stalled" /\ q.tag = r.tag /\ q.title = r.title
  BY <1>1, <1>3, UpdatedRows
<1> QED  BY <1>1, <1>2, <1>3, <1>4, RowsClean

LEMMA MarkFinishedClean ==
  ASSUME Base, QueuedInv, MarkFinished
  PROVE  Clean'
<1>1. /\ UNCHANGED <<client, pending, search, qm>>
      /\ history' = UpdateByTag(history, pp.cur.tag, "Completed")
  BY DEF MarkFinished, MarkCompleted
<1>2. Listed' \subseteq Listed
  BY <1>1 DEF Listed, Held, EntryOf
<1>3. pp.cur.tag # NoTag
  BY DEF QueuedInv, MarkFinished
<1>4. /\ RowInv' /\ \A r \in history : \E q \in history' : q.tag = r.tag
      /\ \A r \in history' : r.result = "Stalled" =>
           \E q \in history : q.result = "Stalled" /\ q.tag = r.tag /\ q.title = r.title
  BY <1>1, <1>3, UpdatedRows
<1> QED  BY <1>1, <1>2, <1>4, RowsClean

(* A verdict: the row of a result that was queued names its torrent.       *)
LEMMA WrittenClean ==
  ASSUME Base, UNCHANGED <<client, pending, qm>>, search.pc \in {"filter", "queue", "persist"},
         search'.todo \subseteq search.todo,
         NEW tag, NEW result,
         \/ result = "Failed" /\ tag = NoTag /\ search.pc # "persist"
         \/ result = "Passed" /\ tag = search.new.tag,
         history' = Write(history, search.new.title, tag, result)
  PROVE  Clean'
<1>1. \A r \in history' :
        r \in history \/ (r.result = result /\ r.age = "recent" /\ r.tag = tag)
  BY DEF Write
<1>2. \E q \in history' : q.tag = tag
  <2> DEFINE q == [title |-> search.new.title, tag |-> tag, result |-> result, age |-> "recent"]
  <2>1. q \in history' /\ q.tag = tag
    BY DEF Write
  <2> QED  BY <2>1
<1>3. RowInv' /\ history \subseteq history'
  <2>1. \A r \in history' : \/ r \in history
                            \/ (r.result = "Failed" => r.tag = NoTag) /\ r.age = "recent"
    <3>1. result = "Failed" => tag = NoTag
      OBVIOUS
    <3> QED  BY <1>1, <3>1
  <2>2. RowInv'
    BY <2>1 DEF RowInv, Base, Clean
  <2> QED  BY <2>2 DEF Write
<1>4. Listed' \subseteq Listed
  BY DEF Listed, Held, EntryOf
<1> QED  BY <1>1, <1>2, <1>3, <1>4, RowsClean

(* Without faults expiry spares the row of every torrent: it is Passed or  *)
(* Completed.                                                              *)
LEMMA BeginClean ==
  ASSUME Base, BeginSearch
  PROVE  Clean'
<1>1. /\ search.pc = "idle" /\ UNCHANGED <<client, pending, qm>> /\ history' = ExpireAll(history)
      /\ search'.pc \in {"idle", "scan"} /\ search'.todo = search.todo
      /\ history' \subseteq history
  BY ExpireShrinks DEF BeginSearch, Base, TypeOK, SearchState
<1>2. Held(client)' = Held(client) /\ Listed' \subseteq Listed
  BY <1>1 DEF Listed, Held, EntryOf
<1>3. ASSUME ~Faults, NEW e \in Held(client) \cup pending, "Passed" \notin Expiring
      PROVE  \E r \in history' : r.tag = e.tag
  <2>1. PICK r \in history : r.tag = e.tag
    BY <1>1, <1>3 DEF Base, Clean, OrphanInv
  <2>2. e.tag # NoTag
    BY TagsOf DEF Listed
  <2>3. r.result # "Stalled"
    <3>1. CASE e \in pending
      BY <2>1, <3>1 DEF Base, Clean, StalledInv
    <3>2. CASE e \in Held(client)
      <4>1. PICK x \in client : e = EntryOf(x)
        BY <3>2 DEF Held
      <4>2. x.tag = r.tag
        BY <2>1, <4>1 DEF EntryOf
      <4> QED  BY <1>1, <1>3, <4>2 DEF Base, Clean, DyingInv
    <3> QED  BY <3>1, <3>2
  <2>4. r.result # "Failed" /\ ~(r.result = "Passed" /\ r.age = "due")
    BY <1>3, <2>1, <2>2 DEF Base, Clean, RowInv
  <2>5. r \in history'
    BY <1>1, <2>3, <2>4 DEF ExpireAll, ExpireByResult
  <2> QED  BY <2>1, <2>5
<1>4. ApartInv' /\ GoneInv'
  BY <1>1, <1>2 DEF Base, Clean, ApartInv, GoneInv
<1>5. StalledInv' /\ DyingInv'
  BY <1>1 DEF Base, Clean, StalledInv, DyingInv
<1>6. RowInv'
  BY <1>1 DEF Base, Clean, RowInv
<1>7. OrphanInv'
  BY <1>1, <1>2, <1>3 DEF OrphanInv
<1> QED  BY <1>4, <1>5, <1>6, <1>7 DEF Clean

-----------------------------------------------------------------------------
(* The steps of the search thread. *)

LEMMA TakeResultClean ==
  ASSUME Base, NEW t \in Titles, TakeResult(t)
  PROVE  Clean'
<1>1. search.pc = "scan" /\ search'.todo = search.todo
  BY DEF TakeResult, Base, TypeOK, SearchState
<1>2. UNCHANGED <<history, client, pending, qm>>
  BY DEF TakeResult
<1>3. Listed' \subseteq Listed
  BY <1>1, <1>2 DEF Listed, Held, EntryOf
<1> QED  BY <1>1, <1>2, <1>3, Fewer DEF Held

(* A result that is refused, in the filters or by the client.              *)
LEMMA FailClean ==
  ASSUME Base, FailResult, search.pc \in {"filter", "queue"},
         UNCHANGED <<client, pending, qm>>
  PROVE  Clean'
<1>1. search'.todo = {}
  BY DEF FailResult, NextResult, SearchIdle
<1>2. history' = Write(history, search.new.title, NoTag, "Failed")
  BY DEF FailResult
<1> QED  BY <1>1, <1>2, WrittenClean

LEMMA SupersedeClean ==
  ASSUME Base, Supersede
  PROVE  Clean'
<1> DEFINE t == search.new.title
           M == IF SupersedeEnabled THEN Matches(t) ELSE {}
<1>1. search.pc = "filter" /\ UNCHANGED <<client, pending, qm>>
  BY DEF Supersede
<1>2. CASE FailResult
  BY <1>1, <1>2, FailClean
<1>3. CASE /\ search' = [search EXCEPT !.pc = "queue", !.todo = {EntryOf(x) : x \in M}]
           /\ UNCHANGED history
  <2>1. {EntryOf(x) : x \in M} \subseteq Held(client)
    BY DEF Matches, Tagged, Held
  <2> HIDE DEF M
  <2>2. search'.todo = {EntryOf(x) : x \in M}
    BY <1>3 DEF Base, TypeOK, SearchState
  <2>3. Listed' \subseteq Listed
    BY <1>1, <2>1, <2>2 DEF Listed, Held, EntryOf
  <2> QED  BY <1>1, <1>3, <2>3, Fewer DEF Held
<1>4. CASE search' = [search EXCEPT !.pc = "queue"] /\ UNCHANGED history
  <2>1. search'.todo = search.todo
    BY <1>4 DEF Base, TypeOK, SearchState
  <2>2. Listed' \subseteq Listed
    BY <1>1, <2>1 DEF Listed, Held, EntryOf
  <2> QED  BY <1>1, <1>4, <2>2, Fewer DEF Held
<1> QED  BY <1>2, <1>3, <1>4 DEF Supersede

(* The next tag has not been seen yet. *)
LEMMA FreshTag ==
  ASSUME Base, nextTag \in Tags
  PROVE  /\ \A a \in Listed : a.tag # nextTag
         /\ \A r \in history : r.tag # nextTag
<1>1. nextTag \in Nat /\ nextTag # NoTag
  BY TagFacts
<1>2. \A a \in Listed : a.tag # nextTag
  <2>1. \A a \in Listed : a \in Carriers /\ a.tag \in Nat
    <3>1. \A a \in Listed : a \in Carriers /\ a \in Entry
      BY TagsOf
    <3> QED  BY <3>1, TagFacts DEF Entry
  <2>2. \A a \in Carriers : a.tag < nextTag
    BY DEF Base, TagInv
  <2> QED  BY <1>1, <2>1, <2>2
<1>3. \A r \in history : r.tag # nextTag
  <2>1. \A r \in history : r.tag \in Nat /\ (r.tag = NoTag \/ r.tag < nextTag)
    <3>1. \A r \in history : r.tag \in Tags \cup {NoTag}
      BY DEF Base, TypeOK, Row
    <3>2. Tags \cup {NoTag} \subseteq Nat
      BY TagFacts DEF NoTag
    <3> QED  BY <3>1, <3>2, TagsOf
  <2> QED  BY <1>1, <2>1
<1> QED  BY <1>2, <1>3

(* An add that was refused, and is carried out all the same.               *)
LEMMA RefusedClean ==
  ASSUME Base, AddRefused
  PROVE  Clean'
<1>1. /\ FailResult /\ search.pc = "queue" /\ UNCHANGED <<client, qm>>
      /\ history' = Write(history, search.new.title, NoTag, "Failed") /\ search' = NextResult
  BY DEF AddRefused, FailResult
<1>2. CASE pending' = pending
  BY <1>1, <1>2, FailClean
<1>3. CASE /\ Faults /\ nextTag \in Tags
           /\ pending' = pending \cup {[search.new EXCEPT !.tag = nextTag]}
  <2> DEFINE e == [search.new EXCEPT !.tag = nextTag]
  <2>1. e.tag = nextTag
    BY DEF Base, TypeOK, SearchState, Slot
  <2>2. pending' = pending \cup {e}
    BY <1>3
  <2> HIDE DEF e
  <2>3. Listed' \subseteq Listed
    BY <1>1 DEF Listed, Held, EntryOf, NextResult, SearchIdle
  <2>4. \A r \in history' : \/ r \in history
                            \/ r.result = "Failed" /\ r.tag = NoTag /\ r.age = "recent"
    BY <1>1 DEF Write
  <2>5. ApartInv'
    BY <1>3, <2>1, <2>2, <2>3, FreshTag DEF Base, Clean, ApartInv
  <2>6. GoneInv'
    BY <1>1 DEF Base, Clean, GoneInv
  <2>7. StalledInv'
    <3> SUFFICES ASSUME NEW r \in history', r.result = "Stalled"
                 PROVE  /\ r.tag # NoTag
                        /\ \A d \in pending' : d.tag # r.tag
                        /\ \A x \in client : x.tag = r.tag => Outranked(r.title)
      BY <1>1 DEF StalledInv, Outranked
    <3> QED  BY <1>3, <2>1, <2>2, <2>4, FreshTag DEF Base, Clean, StalledInv
  <2>8. RowInv'
    BY <2>4 DEF Base, Clean, RowInv
  <2> QED  BY <1>3, <2>5, <2>6, <2>7, <2>8 DEF Clean, DyingInv, OrphanInv
<1> QED  BY <1>2, <1>3 DEF AddRefused

LEMMA AddClean ==
  ASSUME Base, AddTorrent
  PROVE  Clean'
<1> DEFINE e == [search.new EXCEPT !.tag = nextTag]
<1>1. /\ search.pc = "queue" /\ search'.pc = "persist" /\ search'.new = e
      /\ search'.todo = search.todo
      /\ pending' = pending \cup {e} /\ UNCHANGED <<history, client, qm>>
  BY DEF AddTorrent, Base, TypeOK, SearchState
<1>2. e.tag = nextTag /\ nextTag \in Nat
  BY TagFacts DEF AddTorrent, Base, TypeOK, SearchState, Slot
<1> HIDE DEF e
<1>3. Listed' = Listed /\ Held(client)' = Held(client)
  BY <1>1 DEF Listed, Held, EntryOf
<1>4. \A a \in Listed : a.tag # nextTag
  BY FreshTag DEF AddTorrent
<1>5. \A r \in history : r.tag # nextTag
  BY FreshTag DEF AddTorrent
<1>6. ApartInv'
  BY <1>1, <1>2, <1>3, <1>4 DEF Base, Clean, ApartInv
<1>7. GoneInv' /\ RowInv'
  BY <1>1 DEF Base, Clean, GoneInv, RowInv
<1>8. StalledInv' /\ DyingInv'
  <2>1. ASSUME NEW r \in history, r.result = "Stalled"
        PROVE  \A d \in pending' : d.tag # r.tag
    BY <1>1, <1>2, <1>5, <2>1 DEF Base, Clean, StalledInv
  <2> QED  BY <1>1, <2>1 DEF Base, Clean, StalledInv, DyingInv, Outranked
<1>9. OrphanInv'
  <2> SUFFICES ASSUME ~Faults, "Passed" \notin Expiring, NEW d \in Held(client) \cup pending, d # e
               PROVE  \E r \in history : r.tag = d.tag
    BY <1>1, <1>3 DEF OrphanInv
  <2> QED  BY <1>1 DEF Base, Clean, OrphanInv
<1> QED  BY <1>6, <1>7, <1>8, <1>9 DEF Clean

LEMMA AfterTodo ==
  ASSUME Base, NEW todo \in SUBSET Entry
  PROVE  AfterQueued(todo).todo = todo
BY DEF AfterQueued, NextResult, SearchIdle, Base, TypeOK, SearchState

LEMMA PersistClean ==
  ASSUME Base, PersistResult
  PROVE  Clean'
<1>1. search'.todo = search.todo
  BY AfterTodo DEF PersistResult, Base, TypeOK, SearchState
<1>2. /\ search.pc = "persist" /\ UNCHANGED <<client, pending, qm>>
      /\ history' = Write(history, search.new.title, search.new.tag, "Passed")
  BY DEF PersistResult
<1> QED  BY <1>1, <1>2, WrittenClean

(* Whatever the stale listing says, what is deleted here is the torrent of *)
(* the row that was marked, if it can be deleted.                          *)
LEMMA DeleteSupersededClean ==
  ASSUME Base, DeleteSuperseded
  PROVE  Clean'
<1>1. /\ search.pc = "delete" /\ UNCHANGED <<history, pending, qm>>
      /\ \E ok \in Outcomes : client' = Deleted(search.victim.title, ok)
  BY DEF DeleteSuperseded
<1>2. search'.todo = search.todo
  BY AfterTodo DEF DeleteSuperseded, Base, TypeOK, SearchState
<1>3. Held(client') \subseteq Held(client) /\ client' \subseteq client
  BY <1>1 DEF Deleted, Held
<1>4. Held(client)' = Held(client') /\ Listed' \subseteq Listed
  BY <1>1, <1>2, <1>3 DEF Listed, Held, EntryOf
<1>5. ApartInv' /\ GoneInv' /\ RowInv'
  BY <1>1, <1>3, <1>4 DEF Base, Clean, ApartInv, GoneInv, RowInv
<1>6. StalledInv'
  BY <1>1, <1>3 DEF Base, Clean, StalledInv, Outranked
<1>7. DyingInv'
  <2> SUFFICES ASSUME ~Faults, NEW r \in history, r.result = "Stalled",
                      NEW x \in client', x.tag = r.tag
               PROVE  FALSE
    BY <1>1 DEF DyingInv
  <2>1. search.victim = EntryOf(x)
    BY <1>3 DEF Base, Clean, DyingInv
  <2>2. client' = {y \in client : y.title # search.victim.title}
    BY <1>1 DEF Outcomes, Deleted
  <2> QED  BY <2>1, <2>2 DEF EntryOf
<1>8. OrphanInv'
  BY <1>1, <1>3, <1>4 DEF Base, Clean, OrphanInv
<1> QED  BY <1>5, <1>6, <1>7, <1>8 DEF Clean

LEMMA EndSearchClean ==
  ASSUME Base, EndSearch
  PROVE  Clean'
<1>1. search.pc = "scan" /\ search'.todo = {} /\ UNCHANGED <<history, client, pending, qm>>
  BY DEF EndSearch, SearchIdle
<1>2. Listed' \subseteq Listed
  BY <1>1 DEF Listed, Held, EntryOf
<1> QED  BY <1>1, <1>2, Fewer DEF Held

LEMMA SearchClean ==
  ASSUME Base, SearchStep
  PROVE  Clean'
<1>1. CASE RejectResult
  BY <1>1, FailClean DEF RejectResult
<1> QED
  BY <1>1, BeginClean, TakeResultClean, SupersedeClean, AddClean, RefusedClean, PersistClean,
     MarkSupersededClean, DeleteSupersededClean, EndSearchClean DEF SearchStep

-----------------------------------------------------------------------------
(* The steps of the other threads. *)

(* A deletion by hash removes the torrent that was listed, for its hash    *)
(* still has the tag that was listed, or the torrent is gone.              *)
LEMMA DeleteStuckClean ==
  ASSUME Base, NEW e \in qm.todo, DeleteStuck(e)
  PROVE  Clean'
<1>1. PICK ok \in Outcomes :
        /\ client' = Deleted(e.title, ok)
        /\ qm' = [qm EXCEPT !.todo = @ \ {e}, !.gone = IF ok THEN @ \cup {e} ELSE @]
  BY DEF DeleteStuck
<1>2. /\ qm'.todo = qm.todo \ {e} /\ qm'.gone = IF ok THEN qm.gone \cup {e} ELSE qm.gone
      /\ UNCHANGED <<history, pending, search>>
  BY <1>1 DEF DeleteStuck, Base, TypeOK, QueueState
<1>3. Held(client') \subseteq Held(client) /\ Held(client)' = Held(client') /\ client' \subseteq client
  BY <1>1 DEF Deleted, Held, EntryOf
<1>4. Listed' \subseteq Listed
  BY <1>2, <1>3 DEF Listed
<1>5. ASSUME ok
      PROVE  GoneInv'
  <2>1. ASSUME NEW x \in client', x.tag = e.tag
        PROVE  FALSE
    <3>1. EntryOf(x) \in Held(client) /\ EntryOf(x).tag = e.tag /\ e \in Listed
      BY <1>3, <2>1, TagsOf DEF EntryOf, Listed
    <3>2. EntryOf(x) = e
      BY <3>1, SameTag
    <3>3. x.title # e.title
      BY <1>1, <1>5, <2>1 DEF Deleted
    <3> QED  BY <3>2, <3>3 DEF EntryOf
  <2>2. \A x \in client', d \in qm.gone : x.tag # d.tag
    BY <1>3 DEF Base, Clean, GoneInv
  <2> QED  BY <1>2, <1>5, <2>1, <2>2 DEF GoneInv
<1> QED  BY <1>2, <1>3, <1>4, <1>5, Fewer

LEMMA QueueClean ==
  ASSUME Base, QueueStep
  PROVE  Clean'
<1>1. ASSUME UNCHANGED <<history, client, pending, search>>,
             qm'.todo \subseteq qm.todo \cup Held(client), qm'.gone \subseteq qm.gone
      PROVE  Clean'
  <2>1. Listed' \subseteq Listed
    BY <1>1 DEF Listed, Held, EntryOf
  <2> QED  BY <1>1, <2>1, Fewer DEF Held
<1>2. CASE BeginQueueRun
  BY <1>1, <1>2 DEF BeginQueueRun, Base, TypeOK, QueueState
<1>3. CASE ListStuck
  <2>1. PICK S \in SUBSET Stuck(qm.pass) :
          qm' = [qm EXCEPT !.pc = "work", !.todo = {EntryOf(x) : x \in S}, !.gone = {}]
    BY <1>3 DEF ListStuck
  <2>2. {EntryOf(x) : x \in S} \subseteq Held(client)
    BY DEF Stuck, Tagged, Held
  <2>3. qm'.todo = {EntryOf(x) : x \in S} /\ qm'.gone = {}
    BY <2>1 DEF Base, TypeOK, QueueState
  <2>4. UNCHANGED <<history, client, pending, search>>
    BY <1>3 DEF ListStuck
  <2> QED  BY <1>1, <2>2, <2>3, <2>4
<1>4. CASE EndPass
  <2>1. qm'.todo = {} /\ qm'.gone = {}
    BY <1>4 DEF EndPass, QueueIdle, Base, TypeOK, QueueState
  <2> QED  BY <1>1, <1>4, <2>1 DEF EndPass
<1> QED  BY <1>2, <1>3, <1>4, DeleteStuckClean, MarkStuckClean DEF QueueStep

LEMMA PostClean ==
  ASSUME Base, QueuedInv, PostStep
  PROVE  Clean'
<1>1. ASSUME UNCHANGED <<history, pending, search, qm>>,
             Held(client') \subseteq Held(client),
             \A x \in client' : \E y \in client : EntryOf(y) = EntryOf(x)
      PROVE  Clean'
  <2>1. Held(client)' = Held(client')
    BY DEF Held, EntryOf
  <2>2. Listed' \subseteq Listed
    BY <1>1, <2>1 DEF Listed
  <2> QED  BY <1>1, <2>2, Fewer
<1>2. CASE client' = client /\ UNCHANGED <<history, pending, search, qm>>
  BY <1>1, <1>2
<1>3. CASE RemoveFinished
  BY <1>1, <1>3, DeletedFewer DEF RemoveFinished
<1>4. BeginPostProcessing \/ EndPostProcessing \/ (\E e \in pp.todo : ProcessFinished(e))
        => client' = client /\ UNCHANGED <<history, pending, search, qm>>
  BY DEF BeginPostProcessing, EndPostProcessing, ProcessFinished
<1> QED  BY <1>2, <1>3, <1>4, MarkFinishedClean DEF PostStep

LEMMA AgesClean ==
  ASSUME Base, NEW t \in Titles, RowAges(t)
  PROVE  Clean'
<1>1. PICK s \in MayAge(history) : history' = Aged(history, s)
  BY DEF RowAges
<1>2. UNCHANGED <<client, pending, search, qm>>
  BY DEF RowAges
<1>3. history \subseteq Row /\ s.result \in Expiring
  BY DEF Base, TypeOK, MayAge
<1>4. /\ \A r \in history' : \E q \in history :
            /\ r.title = q.title /\ r.tag = q.tag /\ r.result = q.result
            /\ r = q \/ q = s
      /\ \A q \in history : \E r \in history' : r.tag = q.tag
  BY <1>1, <1>3, AgedRows
<1>5. RowInv'
  BY <1>3, <1>4 DEF RowInv, Base, Clean
<1>6. Listed' \subseteq Listed
  BY <1>2 DEF Listed, Held, EntryOf
<1> QED  BY <1>2, <1>4, <1>5, <1>6, RowsClean

-----------------------------------------------------------------------------
LEMMA InterruptClean ==
  ASSUME Base, Interrupt
  PROVE  Clean'
<1>1. /\ Faults /\ UNCHANGED <<history, client, pending>>
      /\ search' = search \/ search' = SearchIdle
      /\ qm' = qm \/ qm' = QueueIdle
  BY DEF Interrupt, Interrupted
<1>2. /\ search'.todo \subseteq search.todo
      /\ qm'.todo \subseteq qm.todo /\ qm'.gone \subseteq qm.gone
  BY <1>1 DEF SearchIdle, QueueIdle
<1>3. Listed' \subseteq Listed
  BY <1>1, <1>2 DEF Listed, Held, EntryOf
<1> QED  BY <1>1, <1>2, <1>3, Fewer DEF Held

LEMMA CleanStep ==
  ASSUME Base, QueuedInv, [Next]_vars
  PROVE  Clean'
<1>1. CASE UNCHANGED vars
  <2>1. UNCHANGED <<history, client, pending, search, qm>>
    BY <1>1 DEF vars
  <2> QED
    BY <2>1 DEF Base, Clean, ApartInv, GoneInv, StalledInv, DyingInv, RowInv, OrphanInv,
                Outranked, Listed, Held, EntryOf
<1> QED  BY <1>1, ClientClean, SearchClean, QueueClean, PostClean, AgesClean, InterruptClean DEF Next

LEMMA EnabledStep ==
  ASSUME TypeOK, EnabledInv, [Next]_vars
  PROVE  EnabledInv'
<1>1. CASE Supersede
  <2> DEFINE M == IF SupersedeEnabled THEN Matches(search.new.title) ELSE {}
  <2>1. CASE search' = [search EXCEPT !.pc = "queue", !.todo = {EntryOf(x) : x \in M}]
    <3>1. search'.todo = {EntryOf(x) : x \in M}
      BY <2>1 DEF TypeOK, SearchState
    <3> QED  BY <3>1 DEF EnabledInv
  <2>2. CASE FailResult
    BY <2>2 DEF FailResult, NextResult, SearchIdle, EnabledInv
  <2>3. CASE search' = [search EXCEPT !.pc = "queue"]
    BY <2>3 DEF EnabledInv, TypeOK, SearchState
  <2> QED  BY <1>1, <2>1, <2>2, <2>3 DEF Supersede
<1>2. ASSUME search'.todo \subseteq search.todo
      PROVE  EnabledInv'
  BY <1>2 DEF EnabledInv
<1>3. NextResult.todo = {} /\ SearchIdle.todo = {}
  BY DEF NextResult, SearchIdle
<1>4. \A todo : AfterQueued(todo).todo = todo
  BY <1>3 DEF AfterQueued, TypeOK, SearchState
<1>5. CASE BeginSearch \/ EndSearch \/ \E t \in Titles : TakeResult(t)
  BY <1>2, <1>3, <1>5 DEF BeginSearch, EndSearch, TakeResult, TypeOK, SearchState
<1>6. CASE RejectResult \/ AddRefused
  BY <1>2, <1>3, <1>6 DEF RejectResult, AddRefused, FailResult
<1>7. CASE AddTorrent
  BY <1>2, <1>7 DEF AddTorrent, TypeOK, SearchState
<1>8. CASE PersistResult \/ DeleteSuperseded
  <2>1. search' = AfterQueued(search.todo)
    BY <1>8 DEF PersistResult, DeleteSuperseded
  <2> QED  BY <1>2, <1>4, <2>1
<1>9. ASSUME NEW e \in search.todo, MarkSuperseded(e)
      PROVE  EnabledInv'
  BY <1>2, <1>9 DEF MarkSuperseded, TypeOK, SearchState
<1>10. CASE search' = search \/ search' = SearchIdle
  BY <1>2, <1>3, <1>10
<1> QED  BY <1>1, <1>5, <1>6, <1>7, <1>8, <1>9, <1>10, OtherStep DEF SearchStep

LEMMA CleanInit ==
  ASSUME Init
  PROVE  Clean /\ SupersedeInv /\ EnabledInv
<1>1. /\ history = {} /\ client = {} /\ pending = {}
      /\ search.todo = {} /\ qm.todo = {} /\ qm.gone = {} /\ search.pc = "idle"
  BY DEF Init, SearchIdle, QueueIdle
<1>2. Held(client) = {}
  BY <1>1 DEF Held
<1> QED
  BY <1>1, <1>2 DEF Clean, ApartInv, GoneInv, StalledInv, DyingInv, RowInv, OrphanInv, Listed,
                    SupersedeInv, EnabledInv

LEMMA CleanRuns == Spec => []Clean
<1>1. Init => Clean /\ TagInv /\ QueuedInv /\ SupersedeInv /\ EnabledInv
  BY CleanInit, TagInit DEF Init, QueuedInv, PostIdle
<1>2. TypeOK /\ TagInv /\ [Next]_vars => TagInv'
  BY TagStep
<1>3. TypeOK /\ QueuedInv /\ [Next]_vars => QueuedInv'
  BY QueuedStep
<1>4. TypeOK /\ SupersedeInv /\ [Next]_vars => SupersedeInv'
  BY SupersedeKept
<1>5. TypeOK /\ EnabledInv /\ [Next]_vars => EnabledInv'
  BY EnabledStep
<1>6. TypeOK /\ TagInv /\ QueuedInv /\ SupersedeInv /\ EnabledInv /\ Clean /\ [Next]_vars => Clean'
  BY CleanStep DEF Base
<1> QED  BY <1>1, <1>2, <1>3, <1>4, <1>5, <1>6, TypeCorrect, PTL DEF Spec

(* A torrent whose row says Stalled is gone from the client, or a better   *)
(* release of its movie has superseded it and its deletion failed: for     *)
(* every interleaving, lost or late call and interrupted run, queue        *)
(* management never stalls the row of a torrent that stays or comes back.  *)
THEOREM StalledAreGone == Spec => []StalledIsGone
<1>1. Clean => StalledIsGone
  BY DEF Clean, StalledInv, StalledIsGone, Outranked
<1> QED  BY <1>1, CleanRuns, PTL

(* In a run without faults and without expiry of Passed rows, a torrent    *)
(* movarr added has its row, or the row is about to be written.            *)
NoOrphan ==
  ~Faults /\ "Passed" \notin Expiring =>
    \A e \in {EntryOf(x) : x \in Tagged} \cup pending :
      \/ \E r \in history : r.tag = e.tag
      \/ search.pc = "persist" /\ search.new = e

(* Without faults, and when Passed rows do not expire, every torrent that  *)
(* movarr added has its row or is about to get it: post-processing will    *)
(* find it.  A crash between the add and the write leaves one without.     *)
THEOREM EveryTorrentHasRow == Spec => []NoOrphan
<1>1. Clean => NoOrphan
  BY DEF Clean, OrphanInv, NoOrphan, Tagged, Held
<1> QED  BY <1>1, CleanRuns, PTL
=============================================================================
