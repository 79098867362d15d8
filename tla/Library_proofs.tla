---------------------------- MODULE Library_proofs ----------------------------
(***************************************************************************)
(* Proofs about Library, for every set of releases with any file lists,    *)
(* and every setting of the switches, with and without faults.             *)
(***************************************************************************)
EXTENDS Library, TLAPS

-----------------------------------------------------------------------------
(* File lists, and the cursor in them. *)

LEMMA FilesFacts ==
  ASSUME NEW r \in Releases
  PROVE  /\ Files[r] \in Seq(Names) /\ Len(Files[r]) \in Nat
         /\ DOMAIN Files[r] = 1..Len(Files[r])
         /\ \A i \in DOMAIN Files[r] : Files[r][i] \in Names
         /\ Copied(r) \subseteq Names
<1>1. Files[r] \in Seq(Names)
  BY FilesAssumption
<1> QED  BY <1>1 DEF Copied

LEMMA IdleFacts ==
  /\ Idle \in PostState
  /\ Idle.pc = "idle" /\ Idle.todo = {}
BY ReleasesAssumption DEF Idle, PostState

LEMMA NextFileFacts ==
  ASSUME pp \in PostState, pp.i \in DOMAIN Files[pp.cur]
  PROVE  /\ NextFile \in PostState
         /\ NextFile.cur = pp.cur /\ NextFile.todo = pp.todo
         /\ \/ /\ NextFile.pc = "check" /\ NextFile.i = pp.i + 1
               /\ NextFile.i \in DOMAIN Files[pp.cur]
            \/ NextFile.pc = "mark" /\ pp.i = Len(Files[pp.cur])
<1>1. pp.cur \in Releases /\ pp.i \in Nat
  BY DEF PostState
<1>2. /\ Len(Files[pp.cur]) \in Nat
      /\ DOMAIN Files[pp.cur] = 1..Len(Files[pp.cur])
  BY <1>1, FilesFacts
<1>3. CASE pp.i < Len(Files[pp.cur])
  <2> DEFINE next == [pp EXCEPT !.pc = "check", !.i = pp.i + 1]
  <2>1. NextFile = next
    BY <1>3 DEF NextFile
  <2>2. pp.i + 1 \in Nat /\ pp.i + 1 \in DOMAIN Files[pp.cur]
    BY <1>1, <1>2, <1>3
  <2>3. /\ next \in PostState /\ next.cur = pp.cur /\ next.todo = pp.todo
        /\ next.pc = "check" /\ next.i = pp.i + 1
    BY <2>2 DEF PostState
  <2> QED  BY <2>1, <2>2, <2>3
<1>4. CASE ~(pp.i < Len(Files[pp.cur]))
  <2>1. NextFile = [pp EXCEPT !.pc = "mark"]
    BY <1>4 DEF NextFile
  <2>2. pp.i = Len(Files[pp.cur])
    BY <1>1, <1>2, <1>4
  <2> QED  BY <1>1, <2>1, <2>2 DEF PostState
<1> QED  BY <1>3, <1>4

(* The listing of the directory before the deletions.                      *)
LEMMA ListFacts ==
  ASSUME pp \in PostState, shelf \subseteq [name : Names, of : Releases, part : Nat],
         ListSuperseded
  PROVE  /\ pp' \in PostState /\ pp'.cur = pp.cur /\ pp'.todo = pp.todo
         /\ \/ pp'.pc = "delete" /\ pp'.victims = Superseded(pp.cur)
            \/ pp'.pc = "remove"
<1> DEFINE victims == Superseded(pp.cur)
<1>1. victims \subseteq Names
  BY DEF Superseded, OnShelf
<1>2. \/ pp' = [pp EXCEPT !.pc = "delete", !.victims = victims]
      \/ pp' = [pp EXCEPT !.pc = "remove"]
  BY DEF ListSuperseded
<1> HIDE DEF victims
<1>3. CASE pp' = [pp EXCEPT !.pc = "delete", !.victims = victims]
  <2>1. pp' \in PostState /\ pp'.cur = pp.cur /\ pp'.todo = pp.todo
        /\ pp'.pc = "delete" /\ pp'.victims = victims
    BY <1>1, <1>3 DEF PostState
  <2> QED  BY <2>1 DEF victims
<1>4. CASE pp' = [pp EXCEPT !.pc = "remove"]
  BY <1>4 DEF PostState
<1> QED  BY <1>2, <1>3, <1>4

(* A file of a release as it lies on the shelf.                            *)
LEMMA FileFacts ==
  ASSUME NEW r \in Releases, NEW i \in DOMAIN Files[r]
  PROVE  /\ i \in Nat /\ i > 0
         /\ Files[r][i] \in Names /\ Files[r][i] \in Copied(r)
         /\ File(r, i) = [name |-> Files[r][i], of |-> r, part |-> i]
         /\ Half(r, i) = [name |-> Files[r][i], of |-> r, part |-> 0]
         /\ File(r, i) \in [name : Names, of : Releases, part : Nat]
         /\ Half(r, i) \in [name : Names, of : Releases, part : Nat]
<1>1. i \in Nat /\ i > 0 /\ Files[r][i] \in Names
  BY FilesFacts
<1> QED  BY <1>1 DEF File, Half, Copied

-----------------------------------------------------------------------------
(* Type correctness. *)

LEMMA TypeStep ==
  ASSUME TypeOK, [Next]_vars
  PROVE  TypeOK'
<1> USE DEF TypeOK
<1>1. CASE WalkLibrary
  BY <1>1 DEF WalkLibrary, BetterThanLibrary
<1>2. ASSUME NEW r \in Releases, Queue(r)
      PROVE  TypeOK'
  BY <1>2 DEF Queue
<1>3. ASSUME NEW r \in Releases, Finish(r)
      PROVE  TypeOK'
  BY <1>3 DEF Finish
<1>4. ASSUME NEW n \in Names, Lock(n)
      PROVE  TypeOK'
  BY <1>4 DEF Lock
<1>5. CASE BeginPostProcessing
  <2>1. pp' \in PostState /\ pp'.pc = "loop"
    BY <1>5, IdleFacts DEF BeginPostProcessing, PostState
  <2> QED  BY <1>5, <2>1 DEF BeginPostProcessing
<1>6. CASE EndPostProcessing
  BY <1>6, IdleFacts DEF EndPostProcessing
<1>7. ASSUME NEW r \in pp.todo, BeginCopy(r)
      PROVE  TypeOK'
  <2>1. r \in Releases /\ pp.pc = "loop"
    BY <1>7 DEF BeginCopy, PostState
  <2>2. Files[r] # <<>> => 1 \in DOMAIN Files[r]
    BY <2>1, FilesFacts
  <2>3. /\ pp' \in PostState
        /\ pp'.pc \in {"check", "loop"}
        /\ pp'.pc = "check" => pp'.i \in DOMAIN Files[pp'.cur]
    <3>1. CASE Files[r] # <<>> /\ pp' = [pp EXCEPT !.pc = "check", !.todo = @ \ {r}, !.cur = r, !.i = 1]
      BY <2>1, <2>2, <3>1 DEF PostState
    <3>2. CASE pp' = [pp EXCEPT !.todo = @ \ {r}]
      BY <2>1, <3>2 DEF PostState
    <3> QED  BY <1>7, <3>1, <3>2 DEF BeginCopy
  <2> QED  BY <1>7, <2>3 DEF BeginCopy
<1>8. CASE VerifyExisting
  <2>1. /\ pp' \in PostState /\ pp'.cur = pp.cur
        /\ pp'.pc \in {"check", "copy"} => pp'.i \in DOMAIN Files[pp.cur]
        /\ pp'.pc \in {"check", "copy", "mark"}
    BY <1>8, NextFileFacts DEF VerifyExisting, PostState
  <2>2. pp.cur \in Releases /\ pp.i \in DOMAIN Files[pp.cur]
    BY <1>8 DEF VerifyExisting, PostState
  <2>3. Files[pp.cur][pp.i] \in Names
    BY <2>2, FilesFacts
  <2>4. accepted' \subseteq Names /\ locked' \subseteq Names
    BY <1>8, <2>3 DEF VerifyExisting
  <2> QED  BY <1>8, <2>1, <2>4 DEF VerifyExisting
<1>9. CASE StartFile
  <2>1. pp.cur \in Releases /\ pp.i \in DOMAIN Files[pp.cur]
    BY <1>9 DEF StartFile, PostState
  <2>2. /\ Half(pp.cur, pp.i) \in [name : Names, of : Releases, part : Nat]
        /\ ~(Half(pp.cur, pp.i).part > 0)
    BY <2>1, FileFacts
  <2>3. pp' \in PostState /\ pp'.i = pp.i /\ pp'.cur = pp.cur
    BY <1>9 DEF StartFile, PostState
  <2> QED  BY <1>9, <2>1, <2>2, <2>3 DEF StartFile
<1>10. CASE FinishFile
  <2>1. pp.cur \in Releases /\ pp.i \in DOMAIN Files[pp.cur]
    BY <1>10 DEF FinishFile, PostState
  <2> DEFINE f == File(pp.cur, pp.i)
  <2>2. /\ f \in [name : Names, of : Releases, part : Nat]
        /\ f.of = pp.cur /\ f.part = pp.i
    BY <2>1, FileFacts
  <2>3. /\ pp' \in PostState /\ pp'.cur = pp.cur
        /\ pp'.pc \in {"check", "mark"}
        /\ pp'.pc = "check" => pp'.i \in DOMAIN Files[pp.cur]
    BY <1>10, <2>1, NextFileFacts DEF FinishFile
  <2>4. /\ shelf' \subseteq shelf \cup {f}
        /\ UNCHANGED <<torrent, completed, locked, accepted, walk>>
    BY <1>10 DEF FinishFile
  <2>5. \A g \in shelf' : g.part > 0 => g.part \in DOMAIN Files[g.of] /\ g = File(g.of, g.part)
    BY <2>1, <2>2, <2>4
  <2> HIDE DEF f
  <2>6. shelf' \subseteq [name : Names, of : Releases, part : Nat]
    BY <2>2, <2>4
  <2> QED  BY <2>3, <2>4, <2>5, <2>6
<1>11. CASE CopyFails
  BY <1>11 DEF CopyFails, PostState
<1>12. CASE MarkCompleted
  BY <1>12 DEF MarkCompleted, PostState
<1>13. CASE ListSuperseded
  <2>1. pp' \in PostState /\ pp'.pc \in {"delete", "remove"}
    BY <1>13, ListFacts
  <2> QED  BY <1>13, <2>1 DEF ListSuperseded
<1>14. CASE EndDelete
  BY <1>14 DEF EndDelete, PostState
<1>15. CASE RemoveTorrent
  BY <1>15 DEF RemoveTorrent, PostState
<1>16. ASSUME NEW n \in pp.victims, DeleteSupersededFile(n)
       PROVE  TypeOK'
  BY <1>16 DEF DeleteSupersededFile, PostState
<1>17. CASE Crash
  BY <1>17, IdleFacts DEF Crash
<1>18. CASE UNCHANGED vars
  BY <1>18 DEF vars
<1> QED
  BY <1>1, <1>2, <1>3, <1>4, <1>5, <1>6, <1>7, <1>8, <1>9, <1>10, <1>11, <1>12, <1>13,
     <1>14, <1>15, <1>16, <1>17, <1>18 DEF Next, PostStep

(* The files on the shelf are files of the releases and the thread stays   *)
(* inside the file list of the release it copies.                          *)
THEOREM TypeCorrect == Spec => []TypeOK
<1>1. Init => TypeOK
  BY IdleFacts DEF Init, TypeOK
<1> QED  BY <1>1, TypeStep, PTL DEF Spec

-----------------------------------------------------------------------------
(* Where the thread is in a torrent, and what it has established there.    *)

(* A file of this name is whole, or was accepted as it is.                 *)
Whole(n) == \E f \in shelf : f.name = n /\ (f.part > 0 \/ n \in accepted)
Copying  == pp.pc \in {"check", "copy", "verify"}
Placed   == pp.pc \in {"mark", "list", "delete", "remove"}

(* A torrent the thread has listed or works on is not removed under it.    *)
SourceInv ==
  /\ \A r \in pp.todo : torrent[r] = "done"
  /\ Copying \/ Placed => torrent[pp.cur] = "done" /\ pp.cur \notin pp.todo
  /\ pp.pc = "idle" => pp.todo = {}

(* A name is on the shelf once, and nothing else is where the thread is    *)
(* about to write.                                                         *)
ShelfInv ==
  /\ \A f \in shelf : f.name \in Copied(f.of)
  /\ \A f, g \in shelf : f.name = g.name => f = g
  /\ pp.pc = "copy" => On(Files[pp.cur][pp.i]) = {}
  /\ pp.pc = "verify" => Half(pp.cur, pp.i) \in shelf

(* The files before the cursor are whole, except where the one at the      *)
(* cursor has the same name; in the end all names of the list are.         *)
PlacedInv ==
  /\ Copying => \A j \in 1..(pp.i - 1) :
       Whole(Files[pp.cur][j]) \/ (pp.pc # "check" /\ Files[pp.cur][j] = Files[pp.cur][pp.i])
  /\ Placed => \A n \in Copied(pp.cur) : Whole(n)
  /\ pp.pc = "delete" =>
       /\ Primary[pp.cur] \in Copied(pp.cur) \ Extras
       /\ \A n \in pp.victims : n \notin Copied(pp.cur) /\ Edition[n] = Edition[Primary[pp.cur]]
  /\ pp.pc = "list" => Primary[pp.cur] \in Copied(pp.cur) \ Extras

LibraryInv == TypeOK /\ SourceInv /\ ShelfInv /\ PlacedInv

LEMMA SourceStep ==
  ASSUME TypeOK, SourceInv, [Next]_vars
  PROVE  SourceInv'
<1> USE DEF TypeOK, SourceInv, Copying, Placed
<1>0. /\ pp \in PostState /\ pp.cur \in Releases /\ pp.todo \subseteq Releases
      /\ torrent \in [Releases -> {"none", "loading", "done", "gone"}]
  BY DEF PostState
<1>1. CASE WalkLibrary
  BY <1>1 DEF WalkLibrary
<1>2. ASSUME NEW r \in Releases, Queue(r)
      PROVE  SourceInv'
  BY <1>0, <1>2 DEF Queue
<1>3. ASSUME NEW r \in Releases, Finish(r)
      PROVE  SourceInv'
  BY <1>0, <1>3 DEF Finish
<1>4. ASSUME NEW n \in Names, Lock(n)
      PROVE  SourceInv'
  BY <1>4 DEF Lock
<1>5. CASE BeginPostProcessing
  <2>1. pp'.pc = "loop" /\ pp'.todo = {r \in Releases : torrent[r] = "done"}
    BY <1>5, IdleFacts DEF BeginPostProcessing, PostState
  <2> QED  BY <1>5, <2>1 DEF BeginPostProcessing
<1>6. CASE EndPostProcessing
  BY <1>6, IdleFacts DEF EndPostProcessing
<1>7. ASSUME NEW r \in pp.todo, BeginCopy(r)
      PROVE  SourceInv'
  <2>1. CASE pp' = [pp EXCEPT !.pc = "check", !.todo = @ \ {r}, !.cur = r, !.i = 1]
    <3>1. pp'.pc = "check" /\ pp'.todo = pp.todo \ {r} /\ pp'.cur = r
      BY <1>0, <2>1 DEF PostState
    <3> QED  BY <1>7, <3>1 DEF BeginCopy
  <2>2. CASE pp' = [pp EXCEPT !.todo = @ \ {r}]
    <3>1. pp'.pc = "loop" /\ pp'.todo = pp.todo \ {r} /\ pp'.cur = pp.cur
      BY <1>0, <1>7, <2>2 DEF PostState, BeginCopy
    <3> QED  BY <1>7, <3>1 DEF BeginCopy
  <2> QED  BY <1>7, <2>1, <2>2 DEF BeginCopy
<1>8. CASE VerifyExisting
  <2>1. pp'.pc \in {"check", "copy", "mark"} /\ pp'.cur = pp.cur /\ pp'.todo = pp.todo
    BY <1>0, <1>8, NextFileFacts DEF VerifyExisting, PostState
  <2> QED  BY <1>8, <2>1 DEF VerifyExisting
<1>9. CASE StartFile
  BY <1>0, <1>9 DEF StartFile, PostState
<1>10. CASE FinishFile
  <2>1. pp'.pc \in {"check", "mark"} /\ pp'.cur = pp.cur /\ pp'.todo = pp.todo
    BY <1>0, <1>10, NextFileFacts DEF FinishFile
  <2> QED  BY <1>10, <2>1 DEF FinishFile
<1>11. CASE CopyFails
  BY <1>0, <1>11 DEF CopyFails, PostState
<1>12. CASE MarkCompleted
  <2>1. pp'.pc \in {"list", "remove"} /\ pp'.cur = pp.cur /\ pp'.todo = pp.todo
    BY <1>0, <1>12 DEF MarkCompleted, PostState
  <2> QED  BY <1>12, <2>1 DEF MarkCompleted
<1>13. CASE ListSuperseded
  <2>1. pp'.pc \in {"delete", "remove"} /\ pp'.cur = pp.cur /\ pp'.todo = pp.todo
    BY <1>0, <1>13, ListFacts
  <2> QED  BY <1>13, <2>1 DEF ListSuperseded
<1>14. CASE EndDelete
  BY <1>0, <1>14 DEF EndDelete, PostState
<1>15. CASE RemoveTorrent
  <2>1. pp'.pc = "loop" /\ pp'.cur = pp.cur /\ pp'.todo = pp.todo
    BY <1>0, <1>15 DEF RemoveTorrent, PostState
  <2>2. \A r \in Releases : r # pp.cur => torrent'[r] = torrent[r]
    BY <1>0, <1>15 DEF RemoveTorrent
  <2>3. pp.cur \notin pp.todo
    BY <1>15 DEF RemoveTorrent
  <2> QED  BY <1>0, <2>1, <2>2, <2>3
<1>16. ASSUME NEW n \in pp.victims, DeleteSupersededFile(n)
       PROVE  SourceInv'
  BY <1>0, <1>16 DEF DeleteSupersededFile, PostState
<1>17. CASE Crash
  BY <1>17, IdleFacts DEF Crash
<1>18. CASE UNCHANGED vars
  BY <1>18 DEF vars
<1> QED
  BY <1>1, <1>2, <1>3, <1>4, <1>5, <1>6, <1>7, <1>8, <1>9, <1>10, <1>11, <1>12, <1>13,
     <1>14, <1>15, <1>16, <1>17, <1>18 DEF Next, PostStep

(* Steps that leave the shelf alone keep what is whole.                    *)
LEMMA SameShelf ==
  ASSUME UNCHANGED shelf, accepted \subseteq accepted'
  PROVE  \A n : Whole(n) => Whole(n)'
BY DEF Whole

(* A step that neither adds to the shelf nor leads to a copy.              *)
LEMMA ShelfShrinks ==
  ASSUME TypeOK, ShelfInv, shelf' \subseteq shelf, pp'.pc \notin {"copy", "verify"}
  PROVE  ShelfInv'
BY DEF ShelfInv

LEMMA ShelfStep ==
  ASSUME TypeOK, ShelfInv, [Next]_vars
  PROVE  ShelfInv'
<1>0. /\ pp \in PostState /\ pp.cur \in Releases
      /\ shelf \subseteq [name : Names, of : Releases, part : Nat]
  BY DEF TypeOK, PostState
<1> DEFINE Still == UNCHANGED shelf /\ pp'.pc \notin {"copy", "verify"}
<1>a. Still => ShelfInv'
  BY ShelfShrinks
<1>b. UNCHANGED <<shelf, pp>> => ShelfInv'
  BY DEF ShelfInv, On
<1>1. CASE WalkLibrary
  BY <1>1, <1>b DEF WalkLibrary
<1>2. ASSUME NEW r \in Releases, Queue(r) \/ Finish(r)
      PROVE  ShelfInv'
  BY <1>2, <1>b DEF Queue, Finish
<1>4. ASSUME NEW n \in Names, Lock(n)
      PROVE  ShelfInv'
  BY <1>4, <1>b DEF Lock
<1>5. CASE BeginPostProcessing \/ EndPostProcessing \/ Crash
  <2>1. pp'.pc \in {"idle", "loop"}
    BY <1>5, IdleFacts DEF BeginPostProcessing, EndPostProcessing, Crash, PostState
  <2> QED  BY <1>5, <1>a, <2>1 DEF BeginPostProcessing, EndPostProcessing, Crash
<1>7. ASSUME NEW r \in pp.todo, BeginCopy(r)
      PROVE  ShelfInv'
  <2>1. pp'.pc \in {"check", "loop"}
    BY <1>0, <1>7 DEF BeginCopy, PostState
  <2> QED  BY <1>7, <1>a, <2>1 DEF BeginCopy
<1>8. CASE VerifyExisting
  <2>0. pp.pc = "check" /\ pp.i \in DOMAIN Files[pp.cur]
    BY <1>8 DEF VerifyExisting, TypeOK
  <2> DEFINE n == Files[pp.cur][pp.i]
  <2>1. CASE pp' = NextFile /\ UNCHANGED shelf
    <3>1. pp'.pc \in {"check", "mark"}
      BY <1>0, <2>0, <2>1, NextFileFacts
    <3> QED  BY <1>a, <2>0, <2>1, <3>1
  <2>2. CASE shelf' = shelf \ On(n) /\ pp' = [pp EXCEPT !.pc = "copy"]
    <3>1. pp'.pc = "copy" /\ pp'.cur = pp.cur /\ pp'.i = pp.i
      BY <1>0, <2>2 DEF PostState
    <3>2. On(Files[pp.cur][pp.i])' = {}
      BY <2>2, <3>1 DEF On
    <3> QED  BY <2>0, <2>2, <3>1, <3>2 DEF ShelfInv, On
  <2> QED  BY <1>8, <2>1, <2>2 DEF VerifyExisting
<1>9. CASE StartFile
  <2>0. pp.pc = "copy" /\ pp.i \in DOMAIN Files[pp.cur]
    BY <1>9 DEF StartFile, TypeOK
  <2> DEFINE h == Half(pp.cur, pp.i)
  <2>1. h.name = Files[pp.cur][pp.i] /\ h.of = pp.cur /\ h.name \in Copied(pp.cur)
    BY <1>0, <2>0, FileFacts
  <2>2. shelf' = shelf \cup {h} /\ \A f \in shelf : f.name # h.name
    BY <1>9, <2>0, <2>1 DEF StartFile, ShelfInv, On
  <2>3. pp'.pc = "verify" /\ pp'.cur = pp.cur /\ pp'.i = pp.i
    BY <1>0, <1>9 DEF StartFile, PostState
  <2>4. h \in shelf' /\ Half(pp'.cur, pp'.i) = h
    BY <2>2, <2>3
  <2> HIDE DEF h
  <2>6. /\ \A f \in shelf' : f.name \in Copied(f.of)
        /\ \A f, g \in shelf' : f.name = g.name => f = g
    BY <2>1, <2>2 DEF ShelfInv
  <2>7. pp'.pc = "verify" => (Half(pp.cur, pp.i) \in shelf)'
    BY <2>4 DEF Half, File
  <2> QED  BY <2>3, <2>6, <2>7 DEF ShelfInv
<1>10. CASE FinishFile
  <2>0. pp.pc = "verify" /\ pp.i \in DOMAIN Files[pp.cur]
    BY <1>10 DEF FinishFile, TypeOK
  <2> DEFINE h == Half(pp.cur, pp.i)
             f == File(pp.cur, pp.i)
  <2>1. /\ h.name = f.name /\ h.part = 0 /\ f.part > 0
        /\ f.of = pp.cur /\ f.name \in Copied(pp.cur)
    BY <1>0, <2>0, FileFacts
  <2>2. shelf' = (shelf \ {h}) \cup {f} /\ h \in shelf
    BY <1>10, <2>0 DEF FinishFile, ShelfInv
  <2>3. pp'.pc \in {"check", "mark"}
    BY <1>0, <1>10, <2>0, NextFileFacts DEF FinishFile
  <2> HIDE DEF h, f
  <2>6. /\ \A g \in shelf' : g.name \in Copied(g.of)
        /\ \A g, k \in shelf' : g.name = k.name => g = k
    BY <2>1, <2>2 DEF ShelfInv
  <2> QED  BY <2>3, <2>6 DEF ShelfInv
<1>11. CASE CopyFails \/ MarkCompleted \/ EndDelete \/ RemoveTorrent
  <2>1. pp'.pc \in {"loop", "list", "remove"}
    BY <1>0, <1>11 DEF CopyFails, MarkCompleted, EndDelete, RemoveTorrent, PostState
  <2> QED  BY <1>11, <1>a, <2>1 DEF CopyFails, MarkCompleted, EndDelete, RemoveTorrent
<1>13. CASE ListSuperseded
  BY <1>0, <1>13, <1>a, ListFacts DEF ListSuperseded
<1>16. ASSUME NEW n \in pp.victims, DeleteSupersededFile(n)
       PROVE  ShelfInv'
  <2>1. pp'.pc = "delete" /\ shelf' \subseteq shelf
    BY <1>0, <1>16 DEF DeleteSupersededFile, PostState
  <2> QED  BY <2>1, ShelfShrinks
<1>18. CASE UNCHANGED vars
  BY <1>18, <1>b DEF vars
<1> QED
  BY <1>1, <1>2, <1>4, <1>5, <1>7, <1>8, <1>9, <1>10, <1>11, <1>13, <1>16, <1>18
     DEF Next, PostStep

LEMMA PlacedStep ==
  ASSUME TypeOK, ShelfInv, PlacedInv, [Next]_vars
  PROVE  PlacedInv'
<1>0. /\ pp \in PostState /\ pp.cur \in Releases /\ pp.i \in Nat
      /\ shelf \subseteq [name : Names, of : Releases, part : Nat]
      /\ DOMAIN Files[pp.cur] = 1..Len(Files[pp.cur]) /\ Len(Files[pp.cur]) \in Nat
  BY FilesFacts DEF TypeOK, PostState
<1>a. pp'.pc \in {"idle", "loop"} => PlacedInv'
  BY DEF PlacedInv, Copying, Placed
<1>b. UNCHANGED <<shelf, accepted, pp>> => PlacedInv'
  BY DEF PlacedInv, Copying, Placed, Whole
<1>1. CASE WalkLibrary
  BY <1>1, <1>b DEF WalkLibrary
<1>2. ASSUME NEW r \in Releases, Queue(r) \/ Finish(r)
      PROVE  PlacedInv'
  BY <1>2, <1>b DEF Queue, Finish
<1>4. ASSUME NEW n \in Names, Lock(n)
      PROVE  PlacedInv'
  BY <1>4, <1>b DEF Lock
<1>5. CASE BeginPostProcessing \/ EndPostProcessing \/ Crash \/ CopyFails \/ RemoveTorrent
  <2>1. pp'.pc \in {"idle", "loop"}
    BY <1>0, <1>5, IdleFacts
       DEF BeginPostProcessing, EndPostProcessing, Crash, CopyFails, RemoveTorrent, PostState
  <2> QED  BY <1>a, <2>1
<1>7. ASSUME NEW r \in pp.todo, BeginCopy(r)
      PROVE  PlacedInv'
  <2>1. \/ pp'.pc = "check" /\ pp'.i = 1
        \/ pp'.pc = "loop"
    BY <1>0, <1>7 DEF BeginCopy, PostState
  <2> QED  BY <2>1 DEF PlacedInv, Copying, Placed
<1>c. ASSUME pp' = NextFile, pp.i \in DOMAIN Files[pp.cur],
             \A j \in 1..pp.i : \A m : m = Files[pp.cur][j] => Whole(m)'
      PROVE  PlacedInv'
  <2>1. /\ pp'.cur = pp.cur
        /\ \/ pp'.pc = "check" /\ pp'.i = pp.i + 1
           \/ pp'.pc = "mark" /\ pp.i = Len(Files[pp.cur])
    BY <1>0, <1>c, NextFileFacts
  <2>2. CASE pp'.pc = "check" /\ pp'.i = pp.i + 1
    <3>1. \A j \in 1..(pp'.i - 1) : j \in 1..pp.i
      BY <1>0, <2>2
    <3> QED  BY <1>c, <2>1, <2>2, <3>1 DEF PlacedInv, Copying, Placed
  <2>3. CASE pp'.pc = "mark" /\ pp.i = Len(Files[pp.cur])
    <3>1. \A n \in Copied(pp.cur) : Whole(n)'
      BY <1>0, <1>c, <2>3 DEF Copied
    <3> QED  BY <2>1, <2>3, <3>1 DEF PlacedInv, Copying, Placed
  <2> QED  BY <2>1, <2>2, <2>3
<1>8. CASE VerifyExisting
  <2>0. pp.pc = "check" /\ pp.i \in DOMAIN Files[pp.cur]
    BY <1>8 DEF VerifyExisting, TypeOK
  <2>1. \A j \in 1..(pp.i - 1) : Whole(Files[pp.cur][j])
    BY <2>0 DEF PlacedInv, Copying
  <2> DEFINE n == Files[pp.cur][pp.i]
  <2>2. CASE /\ File(pp.cur, pp.i) \in shelf \/ (n \in OnShelf /\ n \in accepted')
             /\ accepted \subseteq accepted'
             /\ pp' = NextFile /\ UNCHANGED shelf
    <3>1. \A m : m = n => Whole(m)'
      BY <1>0, <2>0, <2>2, FileFacts DEF OnShelf, Whole
    <3>2. \A j \in 1..pp.i : j = pp.i \/ j \in 1..(pp.i - 1)
      BY <1>0
    <3>3. \A j \in 1..pp.i : \A m : m = Files[pp.cur][j] => Whole(m)'
      <4>1. \A m : Whole(m) => Whole(m)'
        BY <2>2, SameShelf
      <4> QED  BY <2>1, <3>1, <3>2, <4>1
    <3> QED  BY <1>c, <2>0, <2>2, <3>3
  <2>3. CASE /\ shelf' = shelf \ On(n) /\ accepted' = accepted \ {n}
             /\ pp' = [pp EXCEPT !.pc = "copy"]
    <3>1. pp'.pc = "copy" /\ pp'.cur = pp.cur /\ pp'.i = pp.i
      BY <1>0, <2>3 DEF PostState
    <3>2. \A m : Whole(m) /\ m # n => Whole(m)'
      BY <2>3 DEF Whole, On
    <3> QED  BY <2>1, <3>1, <3>2 DEF PlacedInv, Copying, Placed
  <2> QED  BY <1>8, <2>2, <2>3 DEF VerifyExisting
<1>9. CASE StartFile
  <2>1. pp.pc = "copy" /\ pp'.pc = "verify" /\ pp'.cur = pp.cur /\ pp'.i = pp.i
    BY <1>0, <1>9 DEF StartFile, PostState
  <2>2. \A m : Whole(m) => Whole(m)'
    BY <1>9 DEF StartFile, Whole
  <2> QED  BY <2>1, <2>2 DEF PlacedInv, Copying, Placed
<1>10. CASE FinishFile
  <2>0. pp.pc = "verify" /\ pp.i \in DOMAIN Files[pp.cur] /\ pp' = NextFile
    BY <1>10 DEF FinishFile, TypeOK
  <2> DEFINE h == Half(pp.cur, pp.i)
             f == File(pp.cur, pp.i)
  <2>1. h.part = 0 /\ f.part > 0 /\ f.name = Files[pp.cur][pp.i]
    BY <1>0, <2>0, FileFacts
  <2>a. h.name = f.name
    BY <1>0, <2>0, FileFacts
  <2>2. shelf' = (shelf \ {h}) \cup {f} /\ UNCHANGED accepted
    BY <1>10 DEF FinishFile
  <2> HIDE DEF h, f
  <2>3. \A m : Whole(m) \/ m = Files[pp.cur][pp.i] => Whole(m)'
    BY <2>0, <2>1, <2>2, <2>a DEF Whole
  <2>4. \A j \in 1..pp.i : j = pp.i \/ j \in 1..(pp.i - 1)
    BY <1>0
  <2>5. \A j \in 1..(pp.i - 1) :
          Whole(Files[pp.cur][j]) \/ Files[pp.cur][j] = Files[pp.cur][pp.i]
    BY <2>0 DEF PlacedInv, Copying
  <2>6. \A j \in 1..pp.i : \A m : m = Files[pp.cur][j] => Whole(m)'
    BY <2>3, <2>4, <2>5
  <2> QED  BY <1>c, <2>0, <2>6
<1>12. CASE MarkCompleted
  <2>1. /\ pp.pc = "mark" /\ pp'.cur = pp.cur /\ UNCHANGED <<shelf, accepted>>
        /\ \/ pp'.pc = "list" /\ Primary[pp.cur] \in Copied(pp.cur) \ Extras
           \/ pp'.pc = "remove"
    BY <1>0, <1>12 DEF MarkCompleted, PostState
  <2> QED  BY <2>1, SameShelf DEF PlacedInv, Copying, Placed
<1>13. CASE ListSuperseded
  <2>1. /\ pp.pc = "list" /\ pp'.cur = pp.cur /\ UNCHANGED <<shelf, accepted>>
        /\ \/ pp'.pc = "delete" /\ pp'.victims = Superseded(pp.cur)
           \/ pp'.pc = "remove"
    BY <1>0, <1>13, ListFacts DEF ListSuperseded
  <2> QED  BY <2>1, SameShelf DEF PlacedInv, Copying, Placed, Superseded
<1>14. CASE EndDelete
  <2>1. pp.pc = "delete" /\ pp'.pc = "remove" /\ pp'.cur = pp.cur /\ UNCHANGED <<shelf, accepted>>
    BY <1>0, <1>14 DEF EndDelete, PostState
  <2> QED  BY <2>1, SameShelf DEF PlacedInv, Copying, Placed
<1>16. ASSUME NEW n \in pp.victims, DeleteSupersededFile(n)
       PROVE  PlacedInv'
  <2>1. /\ pp.pc = "delete" /\ pp'.pc = "delete" /\ pp'.cur = pp.cur
        /\ pp'.victims \subseteq pp.victims
    BY <1>0, <1>16 DEF DeleteSupersededFile, PostState
  <2>2. \A m : Whole(m) /\ m # n => Whole(m)'
    BY <1>16 DEF DeleteSupersededFile, Whole, On
  <2> QED  BY <1>16, <2>1, <2>2 DEF PlacedInv, Copying, Placed
<1>18. CASE UNCHANGED vars
  BY <1>18, <1>b DEF vars
<1> QED
  BY <1>1, <1>2, <1>4, <1>5, <1>7, <1>8, <1>9, <1>10, <1>12, <1>13, <1>14, <1>16, <1>18
     DEF Next, PostStep

LEMMA LibraryInvariant == Spec => []LibraryInv
<1>1. Init => LibraryInv
  BY IdleFacts DEF Init, LibraryInv, TypeOK, SourceInv, ShelfInv, PlacedInv, Copying, Placed
<1>2. LibraryInv /\ [Next]_vars => LibraryInv'
  BY TypeStep, SourceStep, ShelfStep, PlacedStep DEF LibraryInv
<1> QED  BY <1>1, <1>2, PTL DEF Spec

-----------------------------------------------------------------------------
(* What the shelf and the torrent client hold between them. *)

(* What a step does to the shelf, whichever it is.                         *)
LEMMA ShelfChange ==
  ASSUME LibraryInv, [Next]_vars
  PROVE  \/ shelf' \subseteq shelf /\ UNCHANGED torrent
         \/ UNCHANGED shelf
         \/ pp.pc = "copy" /\ UNCHANGED torrent /\ shelf' = shelf \cup {Half(pp.cur, pp.i)}
         \/ /\ pp.pc = "verify" /\ UNCHANGED torrent
            /\ shelf' = (shelf \ {Half(pp.cur, pp.i)}) \cup {File(pp.cur, pp.i)}
BY DEF Next, PostStep, WalkLibrary, Queue, Finish, Lock, BeginPostProcessing, BeginCopy,
       VerifyExisting, StartFile, FinishFile, CopyFails, MarkCompleted, ListSuperseded,
       DeleteSupersededFile, EndDelete, RemoveTorrent, EndPostProcessing, Crash, vars

(* A finished torrent stays, until the thread removes the one it placed.   *)
LEMMA DoneStays ==
  ASSUME LibraryInv, [Next]_vars, NEW r \in Releases, torrent[r] = "done"
  PROVE  \/ torrent'[r] = "done"
         \/ r = pp.cur /\ RemoveTorrent
<1>0. torrent \in [Releases -> {"none", "loading", "done", "gone"}]
  BY DEF LibraryInv, TypeOK
<1> QED
  BY <1>0 DEF Next, PostStep, WalkLibrary, Queue, Finish, Lock, BeginPostProcessing, BeginCopy,
       VerifyExisting, StartFile, FinishFile, CopyFails, MarkCompleted, ListSuperseded,
       DeleteSupersededFile, EndDelete, RemoveTorrent, EndPostProcessing, Crash, vars

LEMMA CursorFacts ==
  ASSUME LibraryInv
  PROVE  /\ pp.cur \in Releases
         /\ Copying => /\ pp.i \in DOMAIN Files[pp.cur]
                       /\ Half(pp.cur, pp.i).part = 0 /\ Half(pp.cur, pp.i).of = pp.cur
                       /\ Half(pp.cur, pp.i).name = Files[pp.cur][pp.i]
                       /\ File(pp.cur, pp.i).part > 0
                       /\ File(pp.cur, pp.i).name = Files[pp.cur][pp.i]
         /\ Copying \/ Placed => torrent[pp.cur] = "done"
<1>1. pp.cur \in Releases /\ (Copying => pp.i \in DOMAIN Files[pp.cur])
  BY DEF LibraryInv, TypeOK, PostState, Copying
<1>2. Copying \/ Placed => torrent[pp.cur] = "done"
  BY DEF LibraryInv, SourceInv
<1> QED  BY <1>1, <1>2, FileFacts

(* A file that was accepted stays so as long as it is there.               *)
LEMMA AcceptedStays ==
  ASSUME LibraryInv, [Next]_vars, NEW f \in shelf, f \in shelf', f.name \in accepted
  PROVE  f.name \in accepted'
BY DEF Next, PostStep, WalkLibrary, Queue, Finish, Lock, BeginPostProcessing, BeginCopy,
       VerifyExisting, StartFile, FinishFile, CopyFails, MarkCompleted, ListSuperseded,
       DeleteSupersededFile, EndDelete, RemoveTorrent, EndPostProcessing, Crash, vars, On

LEMMA HalfStep ==
  ASSUME LibraryInv, HalfHasSource, [Next]_vars
  PROVE  HalfHasSource'
<1> SUFFICES ASSUME NEW f \in shelf', f.part = 0
             PROVE  torrent'[f.of] = "done" \/ f.name \in accepted'
  BY DEF HalfHasSource
<1>a. CASE f \in shelf /\ f.name \in accepted
  BY <1>a, AcceptedStays
<1>1. ASSUME ~(f \in shelf /\ f.name \in accepted)
      PROVE  torrent[f.of] = "done" /\ f.of \in Releases /\ (f \in shelf \/ pp.pc = "copy")
  <2>1. CASE f \in shelf
    BY <1>1, <2>1 DEF HalfHasSource, LibraryInv, TypeOK
  <2>2. CASE f \notin shelf
    <3>1. pp.pc = "copy" /\ f = Half(pp.cur, pp.i)
      <4>1. Copying => File(pp.cur, pp.i).part > 0
        BY CursorFacts
      <4> QED  BY <2>2, <4>1, ShelfChange DEF Copying
    <3> QED  BY <3>1, CursorFacts DEF Copying
  <2> QED  BY <2>1, <2>2
<1>2. ASSUME ~(f \in shelf /\ f.name \in accepted), RemoveTorrent, f.of = pp.cur
      PROVE  FALSE
  <2>1. f \in shelf /\ pp.pc = "remove"
    BY <1>1, <1>2 DEF RemoveTorrent
  <2>2. f.name \in Copied(pp.cur)
    BY <1>2, <2>1 DEF LibraryInv, ShelfInv
  <2>3. Whole(f.name)
    BY <2>1, <2>2 DEF LibraryInv, PlacedInv, Placed
  <2> QED  BY <1>2, <2>1, <2>3 DEF Whole, LibraryInv, ShelfInv
<1> QED  BY <1>a, <1>1, <1>2, DoneStays

(* An unfinished file on the shelf has its torrent in the client, or was   *)
(* accepted because it could not be deleted, whatever fails:               *)
(* HalfHasSource, which MCLibrary checks.                                  *)
THEOREM HalfFilesAreRecoverable == Spec => []HalfHasSource
<1>1. Init => HalfHasSource
  BY DEF Init, HalfHasSource
<1> QED  BY <1>1, HalfStep, LibraryInvariant, PTL DEF Spec

(* The main videos of an edition.                                          *)
Same(e) == {n \in Names \ Extras : Edition[n] = e}

(* The edition can be watched, or copied again.                            *)
Held(e) ==
  \/ \E n \in Same(e) : Whole(n)
  \/ \E s \in Releases : torrent[s] = "done" /\ Copied(s) \cap Same(e) # {}

LEMMA KeepsMovieIsHeld ==
  KeepsMovie <=>
    \A r \in completed : Primary[r] \in Copied(r) \ Extras => Held(Edition[Primary[r]])
BY DEF KeepsMovie, Held, Same, Whole

LEMMA HeldStep ==
  ASSUME LibraryInv, [Next]_vars, NEW e, Held(e)
  PROVE  Held(e)'
<1>1. ASSUME NEW s \in Releases, torrent[s] = "done", Copied(s) \cap Same(e) # {}
      PROVE  Held(e)'
  <2>1. CASE torrent'[s] = "done"
    BY <1>1, <2>1 DEF Held
  <2>2. CASE s = pp.cur /\ RemoveTorrent
    <3>1. PICK n \in Copied(pp.cur) : n \in Same(e)
      BY <1>1, <2>2
    <3>2. Whole(n) /\ UNCHANGED <<shelf, accepted>>
      BY <2>2 DEF LibraryInv, PlacedInv, Placed, RemoveTorrent
    <3> QED  BY <3>1, <3>2, SameShelf DEF Held
  <2> QED  BY <1>1, <2>1, <2>2, DoneStays
<1>2. ASSUME NEW n \in Same(e), Whole(n)
      PROVE  Held(e)'
  <2>1. CASE Whole(n)'
    BY <1>2, <2>1 DEF Held
  <2>2. CASE ~Whole(n)'
    <3>1. \/ VerifyExisting /\ n = Files[pp.cur][pp.i]
          \/ pp.pc = "delete" /\ DeleteSupersededFile(n) /\ n \in pp.victims
      <4>1. Copying => Half(pp.cur, pp.i).part = 0
        BY CursorFacts
      <4>2. /\ ~(UNCHANGED shelf /\ accepted \subseteq accepted')
            /\ ~StartFile /\ ~FinishFile
        <5>1. ~(UNCHANGED shelf /\ accepted \subseteq accepted')
          BY <1>2, <2>2, SameShelf
        <5>2. StartFile => Whole(n)'
          BY <1>2 DEF StartFile, Whole
        <5>3. FinishFile => Whole(n)'
          <6>1. Copying => Half(pp.cur, pp.i).name = File(pp.cur, pp.i).name
            BY CursorFacts
          <6> QED  BY <1>2, <4>1, <6>1, CursorFacts DEF FinishFile, Whole, Copying
        <5> QED  BY <2>2, <5>1, <5>2, <5>3
      <4>3. VerifyExisting \/ \E m \in pp.victims : DeleteSupersededFile(m)
        BY <4>2 DEF Next, PostStep, WalkLibrary, Queue, Finish, Lock, BeginPostProcessing,
             BeginCopy, CopyFails, MarkCompleted, ListSuperseded, EndDelete, RemoveTorrent,
             EndPostProcessing, Crash, vars
      <4>4. CASE VerifyExisting
        BY <1>2, <2>2, <4>2, <4>4 DEF VerifyExisting, Whole, On
      <4>5. ASSUME NEW m \in pp.victims, DeleteSupersededFile(m)
            PROVE  m = n /\ pp.pc = "delete"
        BY <1>2, <2>2, <4>5 DEF DeleteSupersededFile, Whole, On
      <4> QED  BY <4>3, <4>4, <4>5
    <3>2. torrent[pp.cur] = "done" /\ pp.cur \in Releases /\ UNCHANGED torrent
      BY <3>1, CursorFacts DEF Copying, Placed, VerifyExisting, DeleteSupersededFile
    <3>3. Copied(pp.cur) \cap Same(e) # {}
      <4>1. CASE VerifyExisting /\ n = Files[pp.cur][pp.i]
        <5>1. n \in Copied(pp.cur)
          BY <4>1, CursorFacts, FileFacts DEF VerifyExisting, Copying
        <5> QED  BY <1>2, <5>1
      <4>2. CASE pp.pc = "delete" /\ n \in pp.victims
        <5>1. /\ Primary[pp.cur] \in Copied(pp.cur) \ Extras
              /\ Edition[n] = Edition[Primary[pp.cur]]
          BY <4>2 DEF LibraryInv, PlacedInv
        <5>2. Primary[pp.cur] \in Names
          BY <3>2, FilesAssumption
        <5> QED  BY <1>2, <5>1, <5>2 DEF Same
      <4> QED  BY <3>1, <4>1, <4>2
    <3> QED  BY <3>2, <3>3 DEF Held
  <2> QED  BY <2>1, <2>2
<1> QED  BY <1>1, <1>2 DEF Held

LEMMA KeepsStep ==
  ASSUME LibraryInv, KeepsMovie, [Next]_vars
  PROVE  KeepsMovie'
<1> SUFFICES ASSUME NEW r \in completed', Primary[r] \in Copied(r) \ Extras
             PROVE  Held(Edition[Primary[r]])'
  BY DEF KeepsMovie, Held, Same, Whole
<1>1. CASE r \in completed
  BY <1>1, HeldStep, KeepsMovieIsHeld
<1>2. CASE r \notin completed
  <2>1. MarkCompleted /\ r = pp.cur
    BY <1>2 DEF Next, PostStep, WalkLibrary, Queue, Finish, Lock, BeginPostProcessing, BeginCopy,
       VerifyExisting, StartFile, FinishFile, CopyFails, MarkCompleted, ListSuperseded,
       DeleteSupersededFile, EndDelete, RemoveTorrent, EndPostProcessing, Crash, vars
  <2>2. Whole(Primary[r]) /\ r \in Releases
    BY <2>1, CursorFacts DEF MarkCompleted, LibraryInv, PlacedInv, Placed
  <2>3. Primary[r] \in Same(Edition[Primary[r]])
    BY <2>2, FilesAssumption DEF Same
  <2>4. Held(Edition[Primary[r]])
    BY <2>2, <2>3 DEF Held
  <2> QED  BY <2>4, HeldStep
<1> QED  BY <1>1, <1>2

(* Nothing is lost but to a file that was accepted: KeepsMovie, which      *)
(* MCLibrary checks, with any failures and however the names of the        *)
(* releases' files coincide.                                               *)
THEOREM NothingIsLost == Spec => []KeepsMovie
<1>1. Init => KeepsMovie
  BY DEF Init, KeepsMovie
<1> QED  BY <1>1, KeepsStep, LibraryInvariant, PTL DEF Spec
-----------------------------------------------------------------------------
(* What is completed is whole, if no two files of a release have the same  *)
(* library name: copying is flat, and the later of two would replace the   *)
(* earlier one.                                                            *)
DistinctNames ==
  \A r \in Releases : \A i, j \in DOMAIN Files[r] : Files[r][i] = Files[r][j] => i = j

There(r, j) == File(r, j) \in shelf \/ Files[r][j] \in accepted

(* Every file before the cursor is there, in the end every one.            *)
ThereInv ==
  /\ Copying => \A j \in DOMAIN Files[pp.cur] : j < pp.i => There(pp.cur, j)
  /\ pp.pc = "mark" => \A j \in DOMAIN Files[pp.cur] : There(pp.cur, j)

LEMMA ThereNext ==
  ASSUME LibraryInv, Copying, pp' = NextFile,
         \A j \in DOMAIN Files[pp.cur] : j <= pp.i =>
           File(pp.cur, j) \in shelf' \/ Files[pp.cur][j] \in accepted'
  PROVE  ThereInv'
<1>0. /\ pp \in PostState /\ pp.cur \in Releases /\ pp.i \in DOMAIN Files[pp.cur]
      /\ Len(Files[pp.cur]) \in Nat /\ DOMAIN Files[pp.cur] = 1..Len(Files[pp.cur])
  BY FilesFacts DEF LibraryInv, TypeOK, Copying, PostState
<1>1. /\ pp'.cur = pp.cur
      /\ \/ pp'.pc = "check" /\ pp'.i = pp.i + 1
         \/ pp'.pc = "mark" /\ pp.i = Len(Files[pp.cur])
  BY <1>0, NextFileFacts
<1>3. CASE pp'.pc = "check" /\ pp'.i = pp.i + 1
  <2>1. \A j \in DOMAIN Files[pp.cur] : j < pp'.i => j <= pp.i
    BY <1>0, <1>3
  <2> QED  BY <1>1, <1>3, <2>1 DEF ThereInv, Copying, There, File
<1>4. CASE pp'.pc = "mark" /\ pp.i = Len(Files[pp.cur])
  <2>1. \A j \in DOMAIN Files[pp.cur] : j <= pp.i
    BY <1>0, <1>4
  <2> QED  BY <1>1, <1>4, <2>1 DEF ThereInv, Copying, There, File
<1> QED  BY <1>1, <1>3, <1>4

LEMMA ThereStep ==
  ASSUME DistinctNames, LibraryInv, ThereInv, [Next]_vars
  PROVE  ThereInv'
<1>0. /\ pp \in PostState /\ pp.cur \in Releases /\ pp'.cur \in Releases
      /\ Len(Files[pp.cur]) \in Nat /\ DOMAIN Files[pp.cur] = 1..Len(Files[pp.cur])
      /\ Copying => pp.i \in DOMAIN Files[pp.cur]
  <2>1. TypeOK /\ TypeOK'
    BY TypeStep DEF LibraryInv
  <2> QED  BY <2>1, FilesFacts DEF TypeOK, PostState, Copying
<1>a. ~Copying' /\ pp'.pc # "mark" => ThereInv'
  BY DEF ThereInv, Copying
<1>b. UNCHANGED <<shelf, accepted, pp>> => ThereInv'
  BY DEF ThereInv, Copying, There, File
<1>1. CASE WalkLibrary
  BY <1>1, <1>b DEF WalkLibrary
<1>2. ASSUME NEW r \in Releases, Queue(r) \/ Finish(r)
      PROVE  ThereInv'
  BY <1>2, <1>b DEF Queue, Finish
<1>3. ASSUME NEW n \in Names, Lock(n)
      PROVE  ThereInv'
  BY <1>3, <1>b DEF Lock
<1>4. CASE BeginPostProcessing \/ EndPostProcessing \/ Crash \/ CopyFails \/ RemoveTorrent
           \/ MarkCompleted \/ ListSuperseded \/ EndDelete
           \/ \E n \in pp.victims : DeleteSupersededFile(n)
  <2>1. pp'.pc \in {"idle", "loop", "list", "remove", "delete"}
    BY <1>0, <1>4, IdleFacts
       DEF BeginPostProcessing, EndPostProcessing, Crash, CopyFails, RemoveTorrent,
           MarkCompleted, ListSuperseded, EndDelete, DeleteSupersededFile, PostState
  <2> QED  BY <1>a, <2>1 DEF Copying
<1>5. ASSUME NEW r \in pp.todo, BeginCopy(r)
      PROVE  ThereInv'
  <2>1. \/ pp'.pc = "check" /\ pp'.i = 1
        \/ pp'.pc = "loop"
    BY <1>0, <1>5 DEF BeginCopy, PostState
  <2>2. \A j \in DOMAIN Files[pp'.cur] : ~(j < 1)
    BY <1>0, FilesFacts
  <2> QED  BY <2>1, <2>2 DEF ThereInv, Copying
<1>6. CASE VerifyExisting
  <2>0. Copying /\ pp.pc = "check"
    BY <1>6 DEF VerifyExisting, Copying
  <2> DEFINE n == Files[pp.cur][pp.i]
  <2>1. CASE /\ File(pp.cur, pp.i) \in shelf \/ n \in accepted'
             /\ accepted \subseteq accepted'
             /\ pp' = NextFile /\ UNCHANGED shelf
    <3>1. File(pp.cur, pp.i) \in shelf' \/ n \in accepted'
      BY <2>1
    <3>2. \A j \in DOMAIN Files[pp.cur] : j <= pp.i => j = pp.i \/ j < pp.i
      BY <1>0, <2>0
    <3>3. \A j \in DOMAIN Files[pp.cur] : j <= pp.i =>
            File(pp.cur, j) \in shelf' \/ Files[pp.cur][j] \in accepted'
      BY <2>0, <2>1, <3>1, <3>2 DEF ThereInv, There
    <3> QED  BY <2>0, <2>1, <3>3, ThereNext
  <2>2. CASE /\ shelf' = shelf \ On(n) /\ accepted' = accepted \ {n}
             /\ pp' = [pp EXCEPT !.pc = "copy"]
    <3>1. pp'.pc = "copy" /\ pp'.cur = pp.cur /\ pp'.i = pp.i
      BY <1>0, <2>2 DEF PostState
    <3>2. ASSUME NEW j \in DOMAIN Files[pp.cur], j < pp.i
          PROVE  File(pp.cur, j) \in shelf' \/ Files[pp.cur][j] \in accepted'
      <4>1. There(pp.cur, j)
        BY <2>0, <3>2 DEF ThereInv
      <4>2. File(pp.cur, j).name # n /\ Files[pp.cur][j] # n
        <5>1. j # pp.i
          BY <1>0, <2>0, <3>2
        <5> QED  BY <1>0, <2>0, <5>1, FileFacts DEF DistinctNames
      <4> QED  BY <2>0, <2>2, <4>1, <4>2 DEF There, On
    <3> QED  BY <3>1, <3>2 DEF ThereInv, Copying, There, File
  <2> QED  BY <1>6, <2>1, <2>2 DEF VerifyExisting
<1>7. CASE StartFile
  <2>1. /\ pp.pc = "copy" /\ pp'.pc = "verify" /\ pp'.cur = pp.cur /\ pp'.i = pp.i
        /\ shelf \subseteq shelf' /\ UNCHANGED accepted
    BY <1>0, <1>7 DEF StartFile, PostState
  <2> QED  BY <2>1 DEF ThereInv, Copying, There, File
<1>8. CASE FinishFile
  <2>0. /\ Copying /\ pp' = NextFile /\ UNCHANGED accepted
        /\ shelf' = (shelf \ {Half(pp.cur, pp.i)}) \cup {File(pp.cur, pp.i)}
    BY <1>8 DEF FinishFile, Copying
  <2>1. ASSUME NEW j \in DOMAIN Files[pp.cur], j <= pp.i
        PROVE  File(pp.cur, j) \in shelf' \/ Files[pp.cur][j] \in accepted'
    <3>1. CASE j = pp.i
      BY <2>0, <3>1
    <3>2. CASE j < pp.i
      <4>1. There(pp.cur, j)
        BY <2>0, <3>2 DEF ThereInv
      <4>2. File(pp.cur, j).part > 0 /\ Half(pp.cur, pp.i).part = 0
        BY <1>0, <2>0, FileFacts
      <4>3. File(pp.cur, j) # Half(pp.cur, pp.i)
        BY <4>2
      <4> QED  BY <2>0, <4>1, <4>3 DEF There
    <3> QED  BY <1>0, <2>0, <2>1, <3>1, <3>2
  <2> QED  BY <2>0, <2>1, ThereNext
<1>9. CASE UNCHANGED vars
  BY <1>9, <1>b DEF vars
<1> QED
  BY <1>1, <1>2, <1>3, <1>4, <1>5, <1>6, <1>7, <1>8, <1>9 DEF Next, PostStep

(* A release is recorded as Completed with every file of it on the shelf,  *)
(* or accepted under its name because what was there could not be deleted: *)
(* CompletedIsWhole, which MCLibrary checks.                               *)
THEOREM CompletedAreWhole ==
  ASSUME DistinctNames
  PROVE  Spec => CompletedIsWhole
<1>1. Init => ThereInv
  BY IdleFacts DEF Init, ThereInv, Copying
<1>2. LibraryInv /\ ThereInv /\ [Next]_vars => ThereInv'
  BY ThereStep
<1>3. ASSUME LibraryInv, ThereInv, [Next]_vars
      PROVE  [\A r \in completed' \ completed : \A i \in DOMAIN Files[r] :
                File(r, i) \in shelf \/ Files[r][i] \in accepted]_vars
  <2> SUFFICES ASSUME NEW r \in completed' \ completed
               PROVE  \A i \in DOMAIN Files[r] : There(r, i)
    BY DEF There
  <2>1. MarkCompleted /\ r = pp.cur
    BY <1>3 DEF Next, PostStep, WalkLibrary, Queue, Finish, Lock, BeginPostProcessing, BeginCopy,
       VerifyExisting, StartFile, FinishFile, CopyFails, MarkCompleted, ListSuperseded,
       DeleteSupersededFile, EndDelete, RemoveTorrent, EndPostProcessing, Crash, vars
  <2> QED  BY <1>3, <2>1 DEF MarkCompleted, ThereInv
<1> QED  BY <1>1, <1>2, <1>3, LibraryInvariant, PTL DEF Spec, CompletedIsWhole
=============================================================================
