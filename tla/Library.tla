------------------------------- MODULE Library -------------------------------
(***************************************************************************)
(* The library directory of one movie: the search lets a release through   *)
(* when it beats every video file found there (filters.py), and the        *)
(* post-processing thread copies each finished release into it file by     *)
(* file (file_utils.py), records it as Completed, deletes the files it     *)
(* supersedes and removes the torrent (post_processor.py).  Between the    *)
(* two lies a download of any length.                                      *)
(* A release is one torrent with its row of the history table; its files   *)
(* are given as the names they get in the library, after the exclusion     *)
(* rules and the renaming of the largest one.                              *)
(***************************************************************************)
EXTENDS Naturals, Sequences, FiniteSets

CONSTANTS
  Releases,     \* releases of the movie the indexer offers
  Names,        \* file names, all of them videos
  Files,        \* per release, the library names of the files it copies
  Primary,      \* per release, the library name of its largest file
  Edition,      \* per name, its special edition, as _edition_set reads it
  Extras,       \* names that look like bonus content
  TitleRank,    \* per release, resolution and dedup score of its index title
  FileRank,     \* per name, the same of a library file
  Lockable,     \* names the user may make immutable
  MaxVideos,    \* _MAX_VIDEO_FILES_IN_MOVIE_DIR
  DeleteLower,  \* post_process.delete_lower_quality
  RemoveDone,   \* post_process.remove_completed
  Faults        \* failed calls and copies, vetoing hooks, crashes

ASSUME ReleasesAssumption == Releases # {}
ASSUME FilesAssumption ==
  /\ Files \in [Releases -> Seq(Names)]
  /\ Primary \in [Releases -> Names]
ASSUME NamesAssumption  == Extras \cup Lockable \subseteq Names /\ DOMAIN Edition = Names
ASSUME RankAssumption   == TitleRank \in [Releases -> Nat] /\ FileRank \in [Names -> Nat]
ASSUME LimitAssumption  == MaxVideos \in Nat
ASSUME SwitchAssumption == DeleteLower \in BOOLEAN /\ RemoveDone \in BOOLEAN /\ Faults \in BOOLEAN

VARIABLES
  torrent,     \* per release, what the torrent client has of it
  completed,   \* releases whose row says Completed
  shelf,       \* the files in the movie's directory
  locked,      \* names the user made immutable
  accepted,    \* history: names taken for copied, for they could not be deleted
  walk,        \* releases that beat all the running search found in the library
  pp           \* the post-processing thread

vars == <<torrent, completed, shelf, locked, accepted, walk, pp>>

(* part is the index of the release's file, or 0 when it is unfinished.    *)
File(r, i) == [name |-> Files[r][i], of |-> r, part |-> i]
Half(r, i) == [File(r, i) EXCEPT !.part = 0]

On(n)     == {f \in shelf : f.name = n}
OnShelf   == {f.name : f \in shelf}
Copied(r) == {Files[r][i] : i \in DOMAIN Files[r]}

PostState == [pc : {"idle", "loop", "check", "copy", "verify", "mark", "list", "delete", "remove"},
              todo : SUBSET Releases, cur : Releases, i : Nat, victims : SUBSET Names]

Idle == [pc |-> "idle", todo |-> {}, cur |-> CHOOSE r \in Releases : TRUE, i |-> 0,
         victims |-> {}]

Init ==
  /\ torrent = [r \in Releases |-> "none"]
  /\ completed = {} /\ shelf = {} /\ locked = {} /\ accepted = {} /\ walk = Releases
  /\ pp = Idle

-----------------------------------------------------------------------------
(* The search and the torrent client. *)

BetterThanLibrary == {r \in Releases : \A n \in OnShelf : TitleRank[r] > FileRank[n]}

(* run_search walks the library once, and checks every result of the run   *)
(* against that walk.                                                      *)
WalkLibrary ==
  /\ walk' = BetterThanLibrary
  /\ UNCHANGED <<torrent, completed, shelf, locked, accepted, pp>>

(* The result passes the library check and is queued.  A title with a row  *)
(* is not looked at again.                                                 *)
Queue(r) ==
  /\ torrent[r] = "none"
  /\ r \in walk
  /\ torrent' = [torrent EXCEPT ![r] = "loading"]
  /\ UNCHANGED <<completed, shelf, locked, accepted, walk, pp>>

Finish(r) ==
  /\ torrent[r] = "loading"
  /\ torrent' = [torrent EXCEPT ![r] = "done"]
  /\ UNCHANGED <<completed, shelf, locked, accepted, walk, pp>>

(* The user sets the immutable attribute on a file of the library.         *)
Lock(n) ==
  /\ n \in (Lockable \cap OnShelf) \ locked
  /\ locked' = locked \cup {n}
  /\ UNCHANGED <<torrent, completed, shelf, accepted, walk, pp>>

-----------------------------------------------------------------------------
(* The post-processing thread. *)

BeginPostProcessing ==
  /\ pp.pc = "idle"
  /\ pp' = [Idle EXCEPT !.pc = "loop", !.todo = {r \in Releases : torrent[r] = "done"}]
  /\ UNCHANGED <<torrent, completed, shelf, locked, accepted, walk>>

(* The next torrent of the listing, if there is something to copy, a       *)
(* destination directory, and no pre_copy hook against it.                 *)
BeginCopy(r) ==
  /\ pp.pc = "loop"
  /\ r \in pp.todo
  /\ \/ /\ Files[r] # <<>>
        /\ pp' = [pp EXCEPT !.pc = "check", !.todo = @ \ {r}, !.cur = r, !.i = 1]
     \/ /\ Files[r] = <<>> \/ Faults
        /\ pp' = [pp EXCEPT !.todo = @ \ {r}]
  /\ UNCHANGED <<torrent, completed, shelf, locked, accepted, walk>>

OneTooFar ==                   \* mutant: off by one at the end of the file list
  IF pp.i <= Len(Files[pp.cur]) THEN [pp EXCEPT !.pc = "check", !.i = @ + 1]
                                ELSE [pp EXCEPT !.pc = "mark"]

(* The file is in the library: on to the next one.                         *)
NextFile ==
  IF pp.i < Len(Files[pp.cur]) THEN [pp EXCEPT !.pc = "check", !.i = @ + 1]
                               ELSE [pp EXCEPT !.pc = "mark"]

PresentIsEnough ==             \* mutant: an existing file is not checksummed
  /\ pp.pc = "check"
  /\ pp' = IF Files[pp.cur][pp.i] \in OnShelf THEN NextFile ELSE [pp EXCEPT !.pc = "copy"]
  /\ UNCHANGED <<torrent, completed, shelf, locked, accepted, walk>>

(* copy_with_verify up to the copy.  A file of this name that is the same  *)
(* is kept, any other is deleted, with the help of chattr -i when it is    *)
(* immutable.  One that cannot be deleted, for whatever reason and in      *)
(* whatever state, is accepted in its place.                               *)
VerifyExisting ==
  /\ pp.pc = "check"
  /\ LET n == Files[pp.cur][pp.i]
     IN  \/ /\ File(pp.cur, pp.i) \in shelf
            /\ pp' = NextFile
            /\ UNCHANGED <<shelf, locked, accepted>>
         \/ /\ File(pp.cur, pp.i) \notin shelf
            /\ n \in OnShelf /\ (n \in locked \/ Faults)
            /\ accepted' = accepted \cup {n}
            /\ locked' = locked \/ (Faults /\ locked' = locked \ {n})
            /\ pp' = NextFile
            /\ UNCHANGED shelf
         \/ /\ File(pp.cur, pp.i) \notin shelf
            /\ shelf' = shelf \ On(n)
            /\ locked' = locked \ {n}
            /\ accepted' = accepted \ {n}
            /\ pp' = [pp EXCEPT !.pc = "copy"]
  /\ UNCHANGED <<torrent, completed, walk>>

(* _do_copy has opened the destination.                                    *)
StartFile ==
  /\ pp.pc = "copy"
  /\ shelf' = shelf \cup {Half(pp.cur, pp.i)}
  /\ pp' = [pp EXCEPT !.pc = "verify"]
  /\ UNCHANGED <<torrent, completed, locked, accepted, walk>>

(* All bytes are written and the checksums agree.                          *)
FinishFile ==
  /\ pp.pc = "verify"
  /\ shelf' = (shelf \ {Half(pp.cur, pp.i)}) \cup {File(pp.cur, pp.i)}
  /\ pp' = NextFile
  /\ UNCHANGED <<torrent, completed, locked, accepted, walk>>

GiveUpMarked ==                \* mutant: a failed file does not fail the torrent
  /\ Faults /\ pp.pc \in {"check", "copy", "verify"}
  /\ pp' = NextFile
  /\ UNCHANGED <<torrent, completed, shelf, locked, accepted, walk>>

(* An OSError or a checksum that differs: what was written stays there.    *)
CopyFails ==
  /\ Faults /\ pp.pc \in {"check", "copy", "verify"}
  /\ pp' = [pp EXCEPT !.pc = "loop"]
  /\ UNCHANGED <<torrent, completed, shelf, locked, accepted, walk>>

(* mark_completed; then _maybe_delete_superseded.                          *)
MarkCompleted ==
  /\ pp.pc = "mark"
  /\ completed' = completed \cup {pp.cur}
  /\ pp' = [pp EXCEPT !.pc =
              IF DeleteLower /\ Primary[pp.cur] \in Copied(pp.cur) \ Extras
                THEN "list" ELSE "remove"]
  /\ UNCHANGED <<torrent, shelf, locked, accepted, walk>>

AnyEdition(r) == OnShelf \ (Copied(r) \cup Extras)   \* mutant: no edition check

(* The videos _delete_superseded_loop does not skip.                       *)
Superseded(r) ==
  {n \in OnShelf \ (Copied(r) \cup Extras) : Edition[n] = Edition[Primary[r]]}

(* _check_delete_preconditions and the pre_delete hook, which may veto.    *)
ListSuperseded ==
  /\ pp.pc = "list"
  /\ \/ /\ Primary[pp.cur] \in OnShelf /\ Cardinality(OnShelf) <= MaxVideos
        /\ pp' = [pp EXCEPT !.pc = "delete", !.victims = Superseded(pp.cur)]
     \/ /\ Primary[pp.cur] \notin OnShelf \/ Cardinality(OnShelf) > MaxVideos \/ Faults
        /\ pp' = [pp EXCEPT !.pc = "remove"]
  /\ UNCHANGED <<torrent, completed, shelf, locked, accepted, walk>>

(* delete_file, whose failure is only logged.                              *)
DeleteSupersededFile(n) ==
  /\ pp.pc = "delete"
  /\ n \in pp.victims
  /\ \/ n \notin locked /\ shelf' = shelf \ On(n) /\ accepted' = accepted \ {n}
     \/ (n \in locked \/ Faults) /\ UNCHANGED <<shelf, accepted>>
  /\ pp' = [pp EXCEPT !.victims = @ \ {n}]
  /\ UNCHANGED <<torrent, completed, locked, walk>>

EndDelete ==
  /\ pp.pc = "delete"
  /\ pp.victims = {}
  /\ pp' = [pp EXCEPT !.pc = "remove"]
  /\ UNCHANGED <<torrent, completed, shelf, locked, accepted, walk>>

(* The torrent goes with its data; a refused call is ignored.              *)
RemoveTorrent ==
  /\ pp.pc = "remove"
  /\ \/ RemoveDone /\ torrent' = [torrent EXCEPT ![pp.cur] = "gone"]
     \/ (~RemoveDone \/ Faults) /\ UNCHANGED torrent
  /\ pp' = [pp EXCEPT !.pc = "loop"]
  /\ UNCHANGED <<completed, shelf, locked, accepted, walk>>

EndPostProcessing ==
  /\ pp.pc = "loop"
  /\ pp.todo = {}
  /\ pp' = Idle
  /\ UNCHANGED <<torrent, completed, shelf, locked, accepted, walk>>

(* The run is aborted, or movarr is restarted.                             *)
Crash ==
  /\ Faults /\ pp.pc # "idle"
  /\ pp' = Idle
  /\ UNCHANGED <<torrent, completed, shelf, locked, accepted, walk>>

PostStep ==
  \/ BeginPostProcessing \/ EndPostProcessing
  \/ \E r \in pp.todo : BeginCopy(r)
  \/ VerifyExisting \/ StartFile \/ FinishFile \/ CopyFails \/ MarkCompleted
  \/ ListSuperseded \/ EndDelete \/ RemoveTorrent
  \/ \E n \in pp.victims : DeleteSupersededFile(n)

Next ==
  \/ WalkLibrary \/ (\E r \in Releases : Queue(r) \/ Finish(r)) \/ (\E n \in Names : Lock(n))
  \/ PostStep \/ Crash

Spec == Init /\ [][Next]_vars

(* Post-processing runs again and again.                                   *)
FairSpec == Spec /\ WF_vars(PostStep)

-----------------------------------------------------------------------------
(* The files are the releases', and the thread is inside its file list.    *)
TypeOK ==
  /\ torrent \in [Releases -> {"none", "loading", "done", "gone"}]
  /\ completed \subseteq Releases
  /\ shelf \subseteq [name : Names, of : Releases, part : Nat]
  /\ \A f \in shelf : f.part > 0 => f.part \in DOMAIN Files[f.of] /\ f = File(f.of, f.part)
  /\ locked \subseteq Names /\ accepted \subseteq Names /\ walk \subseteq Releases
  /\ pp \in PostState
  /\ pp.pc \in {"check", "copy", "verify"} => pp.i \in DOMAIN Files[pp.cur]

(* post_processor.py's header: the verified flag is set "only after all    *)
(* files copy successfully".  A release is recorded as Completed with      *)
(* every file of it whole on the shelf, except for names whose file could  *)
(* not be deleted: there "the mismatch is being accepted"                  *)
(* (file_utils.py:103-106), be that file unfinished or another release's.  *)
CompletedIsWhole ==
  [][\A r \in completed' \ completed : \A i \in DOMAIN Files[r] :
       File(r, i) \in shelf \/ Files[r][i] \in accepted]_vars

(* Nothing is lost: of each edition that was ever completed there is a     *)
(* whole video on the shelf, or one that was accepted for it, or a         *)
(* finished torrent to copy one from.                                      *)
KeepsMovie ==
  \A r \in completed : Primary[r] \in Copied(r) \ Extras =>
    LET Same == {n \in Names \ Extras : Edition[n] = Edition[Primary[r]]}
    IN  \/ \E f \in shelf : f.name \in Same /\ (f.part > 0 \/ f.name \in accepted)
        \/ \E s \in Releases : torrent[s] = "done" /\ Copied(s) \cap Same # {}

(* A file that a failed copy or a crash left unfinished still has its      *)
(* source in the client, so that a later run will replace it, unless it    *)
(* could not be deleted and was accepted as it is.                         *)
HalfHasSource ==
  \A f \in shelf : f.part = 0 => torrent[f.of] = "done" \/ f.name \in accepted

(* One upgrade after the other: a release is queued when every earlier one *)
(* is completed, against a walk that is up to date.                        *)
OneAtATime ==
  \A r \in Releases : torrent[r] = "loading" =>
    walk = BetterThanLibrary /\ \A s \in Releases \ {r} : torrent[s] = "none" \/ s \in completed

(* docs/specs/SIPHONATOR_SPEC.md:449: a torrent already copied is skipped. *)
(* However often post-processing runs, it leaves the directory alone in    *)
(* the end, at least when upgrades come one at a time and the user makes   *)
(* no file immutable.                                                      *)
LibrarySettles == [](OneAtATime /\ locked = {}) => <>[][shelf' = shelf]_vars
=============================================================================
