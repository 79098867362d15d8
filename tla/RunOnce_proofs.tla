----------------------------- MODULE RunOnce_proofs -----------------------------
(***************************************************************************)
(* Proofs about the comparisons of Quality, for all names, and about what  *)
(* supersession makes of them in RunOnce, for any set of releases.         *)
(***************************************************************************)
EXTENDS RunOnce, TLAPS

-----------------------------------------------------------------------------
(* The scores. *)

(* The first hit in a table of at most five entries exists.                *)
LEMMA FirstHit ==
  ASSUME NEW H \in SUBSET (1..5), H # {}
  PROVE  \E i \in H : \A j \in H : i <= j
<1>1. CASE 1 \in H  BY <1>1
<1>2. CASE 1 \notin H /\ 2 \in H  BY <1>2
<1>3. CASE 1 \notin H /\ 2 \notin H /\ 3 \in H  BY <1>3
<1>4. CASE 1 \notin H /\ 2 \notin H /\ 3 \notin H /\ 4 \in H  BY <1>4
<1>5. CASE 1 \notin H /\ 2 \notin H /\ 3 \notin H /\ 4 \notin H
  <2>1. \A i \in H : i = 5  BY <1>5
  <2>2. PICK i \in H : TRUE  OBVIOUS
  <2>3. i = 5 /\ \A j \in H : i <= j  BY <2>1
  <2>4. QED  BY <2>3
<1>6. QED  BY <1>1, <1>2, <1>3, <1>4, <1>5

(* The score that a table of at most five entries gives is a number.       *)
LEMMA TableScoreType ==
  ASSUME NEW table, DOMAIN table \in SUBSET (1..5),
         \A i \in DOMAIN table : table[i].score \in Nat, NEW tokens
  PROVE  TableScore(table, tokens) \in Nat
<1>1. CASE Hits(table, tokens) = {}  BY <1>1 DEF TableScore
<1>2. CASE Hits(table, tokens) # {}
  <2> DEFINE H == Hits(table, tokens)
             first == CHOOSE i \in H : \A j \in H : i <= j
  <2>1. H \in SUBSET (1..5) /\ H \subseteq DOMAIN table  BY DEF Hits
  <2>2. \E i \in H : \A j \in H : i <= j
    <3> HIDE DEF H
    <3>1. QED  BY <1>2, <2>1, FirstHit DEF H
  <2>3. first \in H  BY <2>2
  <2>4. TableScore(table, tokens) = table[first].score  BY <1>2 DEF TableScore
  <2>5. QED  BY <2>1, <2>3, <2>4
<1>3. QED  BY <1>1, <1>2

(* So are the scores of audio and HDR by themselves.                       *)
LEMMA RestTypes ==
  ASSUME NEW tokens
  PROVE  TableScore(AudioScores, tokens) \in Nat /\ TableScore(HdrScores, tokens) \in Nat
<1>1. TableScore(AudioScores, tokens) \in Nat
  <2>1. /\ DOMAIN AudioScores \in SUBSET (1..5)
        /\ \A i \in DOMAIN AudioScores : AudioScores[i].score \in Nat
    BY DEF AudioScores, Entry
  <2>2. QED  BY <2>1, TableScoreType
<1>2. TableScore(HdrScores, tokens) \in Nat
  <2>1. /\ DOMAIN HdrScores \in SUBSET (1..5)
        /\ \A i \in DOMAIN HdrScores : HdrScores[i].score \in Nat
    BY DEF HdrScores, Entry
  <2>2. QED  BY <2>1, TableScoreType
<1>3. QED  BY <1>1, <1>2

(* The two scores of a name are numbers.                                   *)
LEMMA ScoreTypes ==
  ASSUME NEW f
  PROVE  DedupScore(f) \in Nat /\ QualityScore(f) \in Nat
<1>1. TableScore(ResolutionScores, f.tokens) \in Nat
  <2>1. /\ DOMAIN ResolutionScores \in SUBSET (1..5)
        /\ \A i \in DOMAIN ResolutionScores : ResolutionScores[i].score \in Nat
    BY DEF ResolutionScores, Entry
  <2>2. QED  BY <2>1, TableScoreType
<1>2. TableScore(SourceScores, f.tokens) \in Nat
  <2>1. /\ DOMAIN SourceScores \in SUBSET (1..5)
        /\ \A i \in DOMAIN SourceScores : SourceScores[i].score \in Nat
    BY DEF SourceScores, Entry
  <2>2. QED  BY <2>1, TableScoreType
<1>3. TableScore(AudioScores, f.tokens) \in Nat /\ TableScore(HdrScores, f.tokens) \in Nat
  BY RestTypes
<1>4. DedupScore(f) \in Nat  BY <1>1, <1>2 DEF DedupScore
<1>5. QED  BY <1>3, <1>4 DEF QualityScore

(* The queue's comparison, which gives bonuses relative to the other name, *)
(* orders names by a worth of their own (filters.py, _group_bonus and      *)
(* supersession_quality_score): it is a strict order, and no two torrents  *)
(* supersede each other in turn.                                           *)
THEOREM SupersessionIsAnOrder ==
  ASSUME NEW a \in Feature, NEW b \in Feature
  PROVE  Supersedes(a, b) <=> QueueWorth(a) > QueueWorth(b)
<1>1. QualityScore(a) \in Nat /\ QualityScore(b) \in Nat  BY ScoreTypes
<1>2. a.preferred \in BOOLEAN /\ b.preferred \in BOOLEAN  BY DEF Feature
<1>3. QED  BY <1>1, <1>2 DEF Supersedes, SupersessionScore, GroupBonus, QueueWorth

(* So does the comparison with a library file, except that nothing is      *)
(* better than a file without a resolution (_evaluate_single_library_file).*)
THEOREM LibraryIsAnOrder ==
  ASSUME NEW a \in Feature, NEW b \in Feature
  PROVE  BetterThanFile(a, b) <=> b.resolution # 0 /\ Above(a, b)
<1>1. DedupScore(a) \in Nat /\ DedupScore(b) \in Nat  BY ScoreTypes
<1>2. /\ a.preferred \in BOOLEAN /\ b.preferred \in BOOLEAN
      /\ a.resolution \in Nat /\ b.resolution \in Nat
  BY DEF Feature
<1>3. LibraryScore(a, b) > LibraryScore(b, a) <=> LibraryWorth(a) > LibraryWorth(b)
  <2>1. CASE a.edition = {} /\ b.edition = {}
    BY <1>1, <1>2, <2>1 DEF LibraryScore, GroupBonus, EditionBonus, LibraryWorth, Bonus
  <2>2. CASE a.edition = {} /\ b.edition # {}
    BY <1>1, <1>2, <2>2 DEF LibraryScore, GroupBonus, EditionBonus, LibraryWorth, Bonus
  <2>3. CASE a.edition # {} /\ b.edition = {}
    BY <1>1, <1>2, <2>3 DEF LibraryScore, GroupBonus, EditionBonus, LibraryWorth, Bonus
  <2>4. CASE a.edition # {} /\ b.edition # {}
    BY <1>1, <1>2, <2>4 DEF LibraryScore, GroupBonus, EditionBonus, LibraryWorth, Bonus
  <2>5. QED  BY <2>1, <2>2, <2>3, <2>4
<1>4. QED  BY <1>3 DEF BetterThanFile, Above

(* Above is irreflexive and transitive.                                    *)
LEMMA AboveIsStrict ==
  ASSUME NEW a \in Feature, NEW b \in Feature, NEW c \in Feature
  PROVE  ~Above(a, a) /\ (Above(a, b) /\ Above(b, c) => Above(a, c))
<1>1. DedupScore(a) \in Nat /\ DedupScore(b) \in Nat /\ DedupScore(c) \in Nat  BY ScoreTypes
<1>2. a.resolution \in Nat /\ b.resolution \in Nat /\ c.resolution \in Nat  BY DEF Feature
<1>3. LibraryWorth(a) \in Nat /\ LibraryWorth(b) \in Nat /\ LibraryWorth(c) \in Nat
  BY <1>1 DEF LibraryWorth, Bonus
<1>4. QED  BY <1>2, <1>3 DEF Above

-----------------------------------------------------------------------------
(* What the scores do not promise. *)

(* A better entry of the one table makes a name better than any other,     *)
(* whatever it has of the other table; no more tables are involved.        *)
TokensOf(table) == {table[i].token : i \in DOMAIN table}

Dominates(major, minor) ==
  \A a, b \in Feature :
    /\ a.tokens \cup b.tokens \subseteq TokensOf(major) \cup TokensOf(minor)
    /\ a.preferred = b.preferred
    /\ TableScore(major, a.tokens) > TableScore(major, b.tokens)
    => Supersedes(a, b)

(* The score of a name is that of its first hit. *)
LEMMA FirstHitScores ==
  ASSUME NEW table, NEW tokens, NEW i \in Hits(table, tokens),
         \A j \in Hits(table, tokens) : i <= j, DOMAIN table \subseteq Nat
  PROVE  TableScore(table, tokens) = table[i].score
<1> DEFINE H == Hits(table, tokens)
           first == CHOOSE k \in H : \A j \in H : k <= j
<1>1. first \in H /\ \A j \in H : first <= j
  OBVIOUS
<1>2. H \subseteq Nat
  BY DEF Hits
<1>3. first <= i /\ i <= first
  BY <1>1
<1>4. first = i
  BY <1>1, <1>2, <1>3
<1>5. TableScore(table, tokens) = table[first].score
  BY DEF TableScore
<1> QED  BY <1>4, <1>5

LEMMA NoHitScores ==
  ASSUME NEW table, NEW tokens, Hits(table, tokens) = {}
  PROVE  TableScore(table, tokens) = 0
BY DEF TableScore

(* The names that the scores order against the better table. *)
LEMMA ScoresOf ==
  /\ TableScore(ResolutionScores, {"2160p", "bluray"}) = 40
  /\ TableScore(SourceScores, {"2160p", "bluray"}) = 40
  /\ TableScore(ResolutionScores, {"1080p", "remux"}) = 30
  /\ TableScore(SourceScores, {"1080p", "remux"}) = 80
  /\ TableScore(SourceScores, {"bluray"}) = 40
  /\ TableScore(SourceScores, {"webdl", "dtsx"}) = 30
  /\ TableScore(AudioScores, {"webdl", "dtsx"}) = 30
  /\ TableScore(AudioScores, {"dtshd"}) = 20
  /\ TableScore(AudioScores, {"dts", "dv"}) = 10
  /\ TableScore(HdrScores, {"dts", "dv"}) = 15
<1>1. Hits(ResolutionScores, {"2160p", "bluray"}) = {4} /\ Hits(ResolutionScores, {"1080p", "remux"}) = {3}
  BY DEF Hits, ResolutionScores, Entry
<1>2. /\ Hits(SourceScores, {"2160p", "bluray"}) = {2} /\ Hits(SourceScores, {"1080p", "remux"}) = {1}
      /\ Hits(SourceScores, {"bluray"}) = {2} /\ Hits(SourceScores, {"webdl", "dtsx"}) = {3}
  BY DEF Hits, SourceScores, Entry
<1>3. /\ Hits(AudioScores, {"webdl", "dtsx"}) = {1} /\ Hits(AudioScores, {"dtshd"}) = {2}
      /\ Hits(AudioScores, {"dts", "dv"}) = {3}
  BY DEF Hits, AudioScores, Entry
<1>4. Hits(HdrScores, {"dts", "dv"}) = {1}
  BY DEF Hits, HdrScores, Entry
<1>5. /\ DOMAIN ResolutionScores \subseteq Nat /\ DOMAIN SourceScores \subseteq Nat
      /\ DOMAIN AudioScores \subseteq Nat /\ DOMAIN HdrScores \subseteq Nat
  BY DEF ResolutionScores, SourceScores, AudioScores, HdrScores, Entry
<1>6. /\ ResolutionScores[4].score = 40 /\ ResolutionScores[3].score = 30
      /\ SourceScores[1].score = 80 /\ SourceScores[2].score = 40 /\ SourceScores[3].score = 30
      /\ AudioScores[1].score = 30 /\ AudioScores[2].score = 20 /\ AudioScores[3].score = 10
      /\ HdrScores[1].score = 15
  BY DEF ResolutionScores, SourceScores, AudioScores, HdrScores, Entry
<1>7. ASSUME NEW table, NEW tokens, NEW i \in Nat, Hits(table, tokens) = {i},
             DOMAIN table \subseteq Nat
      PROVE  TableScore(table, tokens) = table[i].score
  BY <1>7, FirstHitScores
<1> QED  BY <1>1, <1>2, <1>3, <1>4, <1>5, <1>6, <1>7

(* The rest of these names scores nothing. *)
LEMMA NoScoreOf ==
  /\ \A T \in {{"2160p", "bluray"}, {"1080p", "remux"}} :
       TableScore(AudioScores, T) = 0 /\ TableScore(HdrScores, T) = 0
  /\ TableScore(ResolutionScores, {"bluray"}) = 0 /\ TableScore(ResolutionScores, {"webdl", "dtsx"}) = 0
  /\ TableScore(AudioScores, {"bluray"}) = 0
  /\ TableScore(HdrScores, {"bluray"}) = 0 /\ TableScore(HdrScores, {"webdl", "dtsx"}) = 0
  /\ \A T \in {{"dtshd"}, {"dts", "dv"}} :
       TableScore(ResolutionScores, T) = 0 /\ TableScore(SourceScores, T) = 0
  /\ TableScore(HdrScores, {"dtshd"}) = 0
<1>1. /\ \A T \in {{"2160p", "bluray"}, {"1080p", "remux"}, {"bluray"}} : Hits(AudioScores, T) = {}
  BY DEF Hits, AudioScores, Entry
<1>2. \A T \in {{"2160p", "bluray"}, {"1080p", "remux"}, {"bluray"}, {"webdl", "dtsx"}, {"dtshd"}} :
        Hits(HdrScores, T) = {}
  BY DEF Hits, HdrScores, Entry
<1>3. \A T \in {{"bluray"}, {"webdl", "dtsx"}, {"dtshd"}, {"dts", "dv"}} : Hits(ResolutionScores, T) = {}
  BY DEF Hits, ResolutionScores, Entry
<1>4. \A T \in {{"dtshd"}, {"dts", "dv"}} : Hits(SourceScores, T) = {}
  BY DEF Hits, SourceScores, Entry
<1> QED  BY <1>1, <1>2, <1>3, <1>4, NoHitScores

(* A comment on the tables (parsing.py:296-298) says that differences of   *)
(* resolution dominate those of source, these dominate those of audio, and *)
(* these dominate those of HDR.  None of the three holds of the sums that  *)
(* supersession compares: a 1080p remux supersedes a 2160p Blu-ray.        *)
THEOREM NoTableDominates ==
  /\ ~Dominates(ResolutionScores, SourceScores)
  /\ ~Dominates(SourceScores, AudioScores)
  /\ ~Dominates(AudioScores, HdrScores)
<1> DEFINE Lines(T) == IF "2160p" \in T THEN 2160 ELSE IF "1080p" \in T THEN 1080 ELSE 0
           Name(T) == [tokens |-> T, resolution |-> Lines(T), preferred |-> FALSE, edition |-> {}]
<1>1. \A T \in SUBSET Tokens : Name(T) \in Feature /\ Name(T).tokens = T /\ ~Name(T).preferred
  BY DEF Feature
<1>2. \A T, U \in SUBSET Tokens : Supersedes(Name(T), Name(U)) => QueueWorth(Name(T)) > QueueWorth(Name(U))
  BY <1>1, SupersessionIsAnOrder
<1>3. \A T \in SUBSET Tokens :
        QueueWorth(Name(T)) = TableScore(ResolutionScores, T) + TableScore(SourceScores, T)
                                + TableScore(AudioScores, T) + TableScore(HdrScores, T) + 0
  BY <1>1 DEF QueueWorth, QualityScore, DedupScore
<1>4. /\ {"2160p", "1080p"} \subseteq TokensOf(ResolutionScores)
      /\ {"remux", "bluray", "webdl"} \subseteq TokensOf(SourceScores)
      /\ {"dtsx", "dtshd", "dts"} \subseteq TokensOf(AudioScores)
      /\ "dv" \in TokensOf(HdrScores)
  <2>1. ResolutionScores[3].token = "1080p" /\ ResolutionScores[4].token = "2160p"
        /\ {3, 4} \subseteq DOMAIN ResolutionScores
    BY DEF ResolutionScores, Entry
  <2>2. /\ SourceScores[1].token = "remux" /\ SourceScores[2].token = "bluray"
        /\ SourceScores[3].token = "webdl" /\ {1, 2, 3} \subseteq DOMAIN SourceScores
    BY DEF SourceScores, Entry
  <2>3. /\ AudioScores[1].token = "dtsx" /\ AudioScores[2].token = "dtshd"
        /\ AudioScores[3].token = "dts" /\ {1, 2, 3} \subseteq DOMAIN AudioScores
    BY DEF AudioScores, Entry
  <2>4. HdrScores[1].token = "dv" /\ 1 \in DOMAIN HdrScores
    BY DEF HdrScores, Entry
  <2> QED  BY <2>1, <2>2, <2>3, <2>4 DEF TokensOf
<1>5. \A T \in {{"2160p", "bluray"}, {"1080p", "remux"}, {"bluray"}, {"webdl", "dtsx"}, {"dtshd"},
                 {"dts", "dv"}} : T \in SUBSET Tokens
  BY DEF Tokens
<1>6. /\ QueueWorth(Name({"2160p", "bluray"})) = 80 /\ QueueWorth(Name({"1080p", "remux"})) = 110
      /\ QueueWorth(Name({"bluray"})) = 40 /\ QueueWorth(Name({"webdl", "dtsx"})) = 60
      /\ QueueWorth(Name({"dtshd"})) = 20 /\ QueueWorth(Name({"dts", "dv"})) = 25
  <2> HIDE DEF Name
  <2> QED  BY <1>3, <1>5, ScoresOf, NoScoreOf
<1> HIDE DEF Name
<1>7. ASSUME NEW major, NEW minor, NEW T \in SUBSET Tokens, NEW U \in SUBSET Tokens,
             T \cup U \subseteq TokensOf(major) \cup TokensOf(minor),
             TableScore(major, T) > TableScore(major, U),
             ~(QueueWorth(Name(T)) > QueueWorth(Name(U)))
      PROVE  ~Dominates(major, minor)
  <2>1. Name(T) \in Feature /\ Name(U) \in Feature /\ Name(T).tokens = T /\ Name(U).tokens = U
        /\ Name(T).preferred = Name(U).preferred
    BY <1>1 DEF Feature, Name
  <2>2. ~Supersedes(Name(T), Name(U))
    BY <1>2, <1>7
  <2> QED  BY <1>7, <2>1, <2>2 DEF Dominates
<1>8. ~Dominates(ResolutionScores, SourceScores)
  BY <1>4, <1>5, <1>6, <1>7, ScoresOf
<1>9. ~Dominates(SourceScores, AudioScores)
  BY <1>4, <1>5, <1>6, <1>7, ScoresOf
<1>10. ~Dominates(AudioScores, HdrScores)
  BY <1>4, <1>5, <1>6, <1>7, ScoresOf
<1> QED  BY <1>8, <1>9, <1>10

(* The queue and the library compare alike what differs in source and      *)
(* group only: names with the same resolution, the same audio and HDR, and *)
(* no edition that only one of them has.                                   *)
THEOREM ComparisonsAgree ==
  ASSUME NEW a \in Feature, NEW b \in Feature,
         a.resolution = b.resolution, b.resolution # 0,
         TableScore(AudioScores, a.tokens) = TableScore(AudioScores, b.tokens),
         TableScore(HdrScores, a.tokens) = TableScore(HdrScores, b.tokens),
         a.edition = {} <=> b.edition = {}
  PROVE  Supersedes(a, b) <=> BetterThanFile(a, b)
<1>1. /\ DedupScore(a) \in Nat /\ DedupScore(b) \in Nat
      /\ a.resolution \in Nat /\ b.resolution \in Nat
  BY ScoreTypes DEF Feature
<1>2. /\ TableScore(AudioScores, b.tokens) \in Nat /\ TableScore(HdrScores, b.tokens) \in Nat
  BY RestTypes
<1>3. EditionBonus(a, b) = 0 /\ EditionBonus(b, a) = 0
  BY DEF EditionBonus
<1>4. GroupBonus(a, b) \in Nat /\ GroupBonus(b, a) \in Nat
  BY DEF GroupBonus
<1>5. /\ LibraryScore(a, b) = DedupScore(a) + GroupBonus(a, b)
      /\ LibraryScore(b, a) = DedupScore(b) + GroupBonus(b, a)
  BY <1>1, <1>3, <1>4 DEF LibraryScore
<1> QED  BY <1>1, <1>2, <1>4, <1>5 DEF Supersedes, SupersessionScore, QualityScore, BetterThanFile

(* Beyond that they do not: a torrent can supersede one in the queue that  *)
(* the library check (filters.py, _evaluate_single_library_file) prefers   *)
(* to it, so that supersession deletes the better download by the          *)
(* library's standard.                                                     *)
THEOREM ComparisonsDisagree ==
  \E a, b \in Feature : Supersedes(a, b) /\ BetterThanFile(b, a)
<1> DEFINE a == [tokens |-> {"1080p", "remux"}, resolution |-> 1080, preferred |-> FALSE, edition |-> {}]
           b == [tokens |-> {"2160p", "bluray"}, resolution |-> 2160, preferred |-> FALSE, edition |-> {}]
<1>1. a \in Feature /\ b \in Feature
  BY DEF Feature, Tokens
<1>2. a.tokens = {"1080p", "remux"} /\ b.tokens = {"2160p", "bluray"}
  OBVIOUS
<1>3. ~a.preferred /\ ~b.preferred /\ a.resolution = 1080 /\ b.resolution = 2160
  OBVIOUS
<1> HIDE DEF a, b
<1>4. QualityScore(a) = 110 /\ QualityScore(b) = 80
  BY <1>2, ScoresOf, NoScoreOf DEF QualityScore, DedupScore
<1>5. Supersedes(a, b)
  BY <1>3, <1>4 DEF Supersedes, SupersessionScore, GroupBonus
<1>6. BetterThanFile(b, a)
  BY <1>3 DEF BetterThanFile
<1> QED  BY <1>1, <1>5, <1>6

-----------------------------------------------------------------------------
(* Types. *)

(* Every variable keeps its type (the tasks of run_once).                  *)
THEOREM TypeCorrect == Spec => []TypeOK
<1>1. Init => TypeOK  BY OwnedAssumption DEF Init, TypeOK
<1>2. TypeOK /\ [Next]_vars => TypeOK'
  <2> SUFFICES ASSUME TypeOK, [Next]_vars  PROVE TypeOK'
    OBVIOUS
  <2> USE DEF TypeOK
  <2>1. CASE BeginSearch  BY <2>1 DEF BeginSearch
  <2>2. ASSUME NEW r \in Releases, TakeResult(r)  PROVE TypeOK'
    <3>1. \A S : MarkedAs("Stalled", S) \in [Releases -> {"none", "Failed", "Passed", "Stalled", "Completed"}]
      BY DEF MarkedAs
    <3>2. CASE Fail(r)  BY <2>2, <3>2 DEF TakeResult, Fail
    <3>3. CASE /\ row' = [MarkedAs("Stalled", Matches(r)) EXCEPT ![r] = "Passed"]
               /\ client' = [s \in Releases |->
                               CASE s \in Matches(r) -> "none"
                                 [] s = r /\ client[r] = "none" -> "loading"
                                 [] OTHER -> client[s]]
      <4>1. row' \in [Releases -> {"none", "Failed", "Passed", "Stalled", "Completed"}]
        BY <3>1, <3>3
      <4>2. client' \in [Releases -> {"none", "loading", "done"}]  BY <3>3
      <4>3. QED  BY <2>2, <4>1, <4>2 DEF TakeResult
    <3>4. QED  BY <2>2, <3>2, <3>3 DEF TakeResult
  <2>3. CASE EndSearch  BY <2>3 DEF EndSearch
  <2>4. CASE ManageQueue  BY <2>4 DEF ManageQueue, MarkedAs
  <2>5. ASSUME NEW r \in Releases, ProcessFinished(r)  PROVE TypeOK'
    BY <2>5 DEF ProcessFinished, Superseded
  <2>6. CASE EndRun  BY <2>6 DEF EndRun
  <2>7. ASSUME NEW r \in Releases, Finish(r)  PROVE TypeOK'  BY <2>7 DEF Finish
  <2>8. CASE UNCHANGED vars  BY <2>8 DEF vars
  <2>9. QED  BY <2>1, <2>2, <2>3, <2>4, <2>5, <2>6, <2>7, <2>8 DEF Next
<1>3. QED  BY <1>1, <1>2, PTL DEF Spec

-----------------------------------------------------------------------------
(* Replacement, with supersession on. *)

(* The client never has two torrents of the movie.                         *)
OneInClient == \A r, s \in InClient : r = s

(* What was checked when a torrent was queued still holds: nothing enters  *)
(* the library between the walk and the copy.                              *)
CheckHolds ==
  /\ phase = "search" => walk = shelf
  /\ \A r \in InClient, s \in shelf : BetterThanFile(Features[r], Features[s])

(* A file above every replaced one is in the library.                      *)
ReplacedCovered ==
  \A s \in replaced : \E h \in shelf : SameEdition(h, s) /\ Above(Features[h], Features[s])

ReplaceInv == OneInClient /\ CheckHolds /\ ReplacedCovered

(* What a torrent that is better than a file means, by name.               *)
LEMMA BetterIsAbove ==
  ASSUME NEW r \in Releases, NEW s \in Releases, BetterThanFile(Features[r], Features[s])
  PROVE  Above(Features[r], Features[s])
<1>1. Features[r] \in Feature /\ Features[s] \in Feature  BY FeaturesAssumption
<1>2. QED  BY <1>1, LibraryIsAnOrder

(* A search step queues a release only in place of all torrents there are. *)
LEMMA QueuedAlone ==
  ASSUME TypeOK, SupersedeEnabled, NEW r \in Releases, TakeResult(r)
  PROVE  \/ InClient' = InClient
         \/ InClient' = {r} /\ PassesLibrary(r)
<1>1. CASE Fail(r)  BY <1>1 DEF Fail, InClient
<1>2. CASE /\ PassesLibrary(r) /\ ~(\E s \in Matches(r) : ~Supersedes(Features[r], Features[s]))
           /\ client' = [s \in Releases |->
                           CASE s \in Matches(r) -> "none"
                             [] s = r /\ client[r] = "none" -> "loading"
                             [] OTHER -> client[s]]
  <2>1. Matches(r) = InClient  BY DEF Matches
  <2>2. r \notin InClient
    <3>1. Features[r] \in Feature  BY FeaturesAssumption
    <3>2. QueueWorth(Features[r]) \in Nat  BY ScoreTypes DEF QueueWorth
    <3>3. ~Supersedes(Features[r], Features[r])  BY <3>1, <3>2, SupersessionIsAnOrder
    <3>4. QED  BY <1>2, <2>1, <3>3
  <2>3. client[r] = "none"  BY <2>2 DEF InClient
  <2>4. \A s \in Releases : client'[s] # "none" <=> s = r
    BY <1>2, <2>1, <2>2, <2>3 DEF InClient
  <2>5. QED  BY <1>2, <2>4 DEF InClient
<1>3. QED  BY <1>1, <1>2 DEF TakeResult

(* A finished torrent is the only one, is not in the library, and is above *)
(* every file its copy deletes.                                            *)
LEMMA FinishedIsAbove ==
  ASSUME TypeOK, CheckHolds, NEW r \in Releases, ProcessFinished(r)
  PROVE  /\ r \in InClient
         /\ r \notin shelf
         /\ \A s \in shelf : Above(Features[r], Features[s])
<1>1. r \in InClient  BY DEF ProcessFinished, InClient
<1>2. \A s \in shelf : Above(Features[r], Features[s])
  <2> SUFFICES ASSUME NEW s \in shelf  PROVE Above(Features[r], Features[s])
    OBVIOUS
  <2>1. s \in Releases  BY DEF TypeOK
  <2>2. BetterThanFile(Features[r], Features[s])  BY <1>1 DEF CheckHolds
  <2>3. QED  BY <2>1, <2>2, BetterIsAbove
<1>3. r \notin shelf
  <2>1. Features[r] \in Feature  BY FeaturesAssumption
  <2>2. ~Above(Features[r], Features[r])  BY <2>1, AboveIsStrict
  <2>3. QED  BY <1>2, <2>2
<1>4. QED  BY <1>1, <1>2, <1>3

(* A step that adds no torrent and leaves the library and the walk alone   *)
(* keeps the invariant.                                                    *)
LEMMA FewerTorrents ==
  ASSUME ReplaceInv, InClient' \subseteq InClient, phase' = "search" => phase = "search",
         UNCHANGED <<shelf, walk, replaced>>
  PROVE  ReplaceInv'
BY DEF ReplaceInv, OneInClient, CheckHolds, ReplacedCovered, SameEdition

(* The invariant is inductive where supersession is on.                    *)
LEMMA ReplaceInductive ==
  ASSUME SupersedeEnabled, TypeOK, ReplaceInv, [Next]_vars
  PROVE  ReplaceInv'
<1>1. CASE BeginSearch
  <2>1. InClient' = InClient  BY <1>1 DEF BeginSearch, InClient
  <2>2. QED
    BY <1>1, <2>1 DEF BeginSearch, ReplaceInv, OneInClient, CheckHolds, ReplacedCovered, SameEdition
<1>2. ASSUME NEW r \in Releases, TakeResult(r)  PROVE ReplaceInv'
  <2>1. UNCHANGED <<phase, shelf, walk, replaced>> /\ phase = "search"  BY <1>2 DEF TakeResult
  <2>2. CASE InClient' = InClient  BY <2>1, <2>2, FewerTorrents
  <2>3. CASE InClient' = {r} /\ PassesLibrary(r)
    <3>1. OneInClient'  BY <2>3 DEF OneInClient
    <3>2. CheckHolds'  BY <2>1, <2>3 DEF ReplaceInv, CheckHolds, PassesLibrary
    <3>3. ReplacedCovered'  BY <2>1 DEF ReplaceInv, ReplacedCovered, SameEdition
    <3>4. QED  BY <3>1, <3>2, <3>3 DEF ReplaceInv
  <2>4. QED  BY <1>2, <2>2, <2>3, QueuedAlone
<1>3. CASE EndSearch
  <2>1. InClient' = InClient  BY <1>3 DEF EndSearch, InClient
  <2>2. QED  BY <1>3, <2>1, FewerTorrents DEF EndSearch
<1>4. CASE ManageQueue
  <2>1. InClient' \subseteq InClient  BY <1>4 DEF ManageQueue, InClient, TypeOK
  <2>2. QED  BY <1>4, <2>1, FewerTorrents DEF ManageQueue
<1>5. ASSUME NEW r \in Releases, ProcessFinished(r)  PROVE ReplaceInv'
  <2>1. /\ r \in InClient
        /\ \A s \in shelf : Above(Features[r], Features[s])
    BY <1>5, FinishedIsAbove DEF ReplaceInv
  <2>2. InClient' = {}
    BY <1>5, <2>1 DEF ProcessFinished, InClient, ReplaceInv, OneInClient, TypeOK
  <2>3. OneInClient'  BY <2>2 DEF OneInClient
  <2>4. CheckHolds'  BY <1>5, <2>2 DEF ProcessFinished, CheckHolds
  <2>5. ReplacedCovered'
    <3> SUFFICES ASSUME NEW s \in replaced'
                 PROVE  \E h \in shelf' : SameEdition(h, s) /\ Above(Features[h], Features[s])
      BY DEF ReplacedCovered, SameEdition
    <3>1. shelf' = (shelf \ Superseded(r)) \cup {r} /\ s \in replaced \cup Superseded(r)
      BY <1>5 DEF ProcessFinished
    <3>2. \A h \in Superseded(r) : h \in shelf /\ SameEdition(r, h)  BY DEF Superseded
    <3>3. CASE s \in Superseded(r)  BY <2>1, <3>1, <3>2, <3>3
    <3>4. CASE s \in replaced
      <4>1. PICK h \in shelf : SameEdition(h, s) /\ Above(Features[h], Features[s])
        BY <3>4 DEF ReplaceInv, ReplacedCovered
      <4>2. CASE h \notin Superseded(r)  BY <3>1, <4>1, <4>2
      <4>3. CASE h \in Superseded(r)
        <5>1. SameEdition(r, s)  BY <3>2, <4>1, <4>3 DEF SameEdition
        <5>2. Features[r] \in Feature /\ Features[h] \in Feature /\ Features[s] \in Feature
          BY <3>4, FeaturesAssumption DEF TypeOK
        <5>3. Above(Features[r], Features[s])  BY <2>1, <4>1, <5>2, AboveIsStrict
        <5>4. QED  BY <3>1, <5>1, <5>3
      <4>4. QED  BY <4>2, <4>3
    <3>5. QED  BY <3>1, <3>3, <3>4
  <2>6. QED  BY <2>3, <2>4, <2>5 DEF ReplaceInv
<1>6. CASE EndRun
  <2>1. InClient' = InClient  BY <1>6 DEF EndRun, InClient
  <2>2. QED  BY <1>6, <2>1, FewerTorrents DEF EndRun
<1>7. ASSUME NEW r \in Releases, Finish(r)  PROVE ReplaceInv'
  <2>1. InClient' = InClient  BY <1>7 DEF Finish, InClient, TypeOK
  <2>2. QED  BY <1>7, <2>1, FewerTorrents DEF Finish
<1>8. CASE UNCHANGED vars
  <2>1. InClient' = InClient  BY <1>8 DEF vars, InClient
  <2>2. QED  BY <1>8, <2>1, FewerTorrents DEF vars
<1>9. QED  BY <1>1, <1>2, <1>3, <1>4, <1>5, <1>6, <1>7, <1>8 DEF Next

LEMMA ReplaceInvHolds == Spec => [](SupersedeEnabled => ReplaceInv)
<1>1. Init => (SupersedeEnabled => ReplaceInv)
  <2> SUFFICES ASSUME Init  PROVE ReplaceInv
    OBVIOUS
  <2>1. InClient = {}  BY DEF Init, InClient
  <2>2. QED  BY <2>1 DEF Init, ReplaceInv, OneInClient, CheckHolds, ReplacedCovered
<1>2. TypeOK /\ (SupersedeEnabled => ReplaceInv) /\ [Next]_vars => (SupersedeEnabled => ReplaceInv)'
  BY ReplaceInductive
<1>3. QED  BY <1>1, <1>2, TypeCorrect, PTL DEF Spec

(* Replacement does not go in circles (search.py _supersede, filters.py    *)
(* _check_library): the queue holds nothing that is not above every file   *)
(* it replaced before, for any releases and however often rows expire.     *)
THEOREM NoReplacementCycle == Spec => []NoWayBack
<1>1. TypeOK /\ (SupersedeEnabled => ReplaceInv) => NoWayBack
  <2> SUFFICES ASSUME TypeOK, SupersedeEnabled, ReplaceInv,
                      NEW r \in InClient, NEW s \in replaced
               PROVE  Above(Features[r], Features[s])
    BY DEF NoWayBack
  <2>1. PICK h \in shelf : Above(Features[h], Features[s])
    BY DEF ReplaceInv, ReplacedCovered
  <2>2. r \in Releases /\ h \in Releases /\ s \in Releases  BY DEF TypeOK, InClient
  <2>3. Above(Features[r], Features[h])  BY <2>2, BetterIsAbove DEF ReplaceInv, CheckHolds
  <2>4. /\ Features[r] \in Feature /\ Features[h] \in Feature /\ Features[s] \in Feature
    BY <2>2, FeaturesAssumption
  <2>5. QED  BY <2>1, <2>3, <2>4, AboveIsStrict
<1>2. QED  BY <1>1, TypeCorrect, ReplaceInvHolds, PTL

(* A file is deleted only when one above it has been copied                *)
(* (post_processor.py, _delete_superseded_loop), because supersession      *)
(* keeps the check of the search valid until then.                         *)
THEOREM DeletesForUpgrades == Spec => UpgradesOnly
<1> DEFINE A == SupersedeEnabled =>
       \A s \in shelf \ shelf' : \E r \in shelf' \ shelf : Above(Features[r], Features[s])
<1>1. TypeOK /\ (SupersedeEnabled => ReplaceInv) /\ [Next]_vars => [A]_vars
  <2> SUFFICES ASSUME TypeOK, SupersedeEnabled, ReplaceInv, [Next]_vars,
                      NEW s \in shelf \ shelf'
               PROVE  \E r \in shelf' \ shelf : Above(Features[r], Features[s])
    OBVIOUS
  <2>1. PICK r \in Releases : ProcessFinished(r)
    BY DEF Next, vars, BeginSearch, TakeResult, EndSearch, ManageQueue, EndRun, Finish
  <2>2. r \notin shelf /\ Above(Features[r], Features[s])
    BY <2>1, FinishedIsAbove DEF ReplaceInv
  <2>3. r \in shelf'  BY <2>1 DEF ProcessFinished
  <2>4. QED  BY <2>2, <2>3
<1>2. QED  BY <1>1, TypeCorrect, ReplaceInvHolds, PTL DEF Spec, UpgradesOnly
=============================================================================
