-------------------------------- MODULE Quality --------------------------------
(***************************************************************************)
(* How movarr compares two releases of a movie: the score tables of        *)
(* parsing.py and the two comparisons of filters.py, the one with library  *)
(* files and the one with torrents in the queue.  The parsing of a name is *)
(* abstracted to what it yields: the tokens of the score tables behind the *)
(* year, the number before the first "p" (0 if there is none), whether the *)
(* release group is a preferred one, and the special editions.             *)
(***************************************************************************)
EXTENDS Naturals, Sequences

Entry(token, score) == [token |-> token, score |-> score]

ResolutionScores == <<Entry("480p", 10), Entry("720p", 20), Entry("1080p", 30),
                      Entry("2160p", 40), Entry("4320p", 50)>>
SourceScores     == <<Entry("remux", 80), Entry("bluray", 40), Entry("webdl", 30),
                      Entry("hdtv", 20), Entry("webrip", 10)>>
AudioScores      == <<Entry("dtsx", 30), Entry("dtshd", 20), Entry("dts", 10)>>
HdrScores        == <<Entry("dv", 15), Entry("hdr10plus", 12), Entry("hdr", 10)>>

Tokens   == {"480p", "720p", "1080p", "2160p", "4320p", "remux", "bluray", "webdl", "hdtv",
             "webrip", "dtsx", "dtshd", "dts", "dv", "hdr10plus", "hdr"}
Editions == {"extended", "directors cut", "unrated"}

Feature == [tokens : SUBSET Tokens, resolution : Nat, preferred : BOOLEAN,
            edition : SUBSET Editions]

-----------------------------------------------------------------------------
(* The first entry of a table whose token the name has gives its score.    *)
Hits(table, tokens) == {i \in DOMAIN table : table[i].token \in tokens}

TableScore(table, tokens) ==
  IF Hits(table, tokens) = {} THEN 0
  ELSE table[CHOOSE i \in Hits(table, tokens) : \A j \in Hits(table, tokens) : i <= j].score

(* dedup_quality_score *)
DedupScore(f) == TableScore(ResolutionScores, f.tokens) + TableScore(SourceScores, f.tokens)

(* quality_score *)
QualityScore(f) ==
  DedupScore(f) + TableScore(AudioScores, f.tokens) + TableScore(HdrScores, f.tokens)

(* _group_bonus: the candidate's group is preferred, the other's is not.   *)
GroupBonus(f, other) == IF f.preferred /\ ~other.preferred THEN 10 ELSE 0

(* _special_edition_bonus: theatrical is no special edition.               *)
EditionBonus(f, other) == IF f.edition # {} /\ other.edition = {} THEN 10 ELSE 0

(* supersession_quality_score, and the comparison of                       *)
(* _collect_supersede_matches.                                             *)
SupersessionScore(f, other) == QualityScore(f) + GroupBonus(f, other)

Supersedes(new, old) == SupersessionScore(new, old) > SupersessionScore(old, new)

(* _evaluate_single_library_file.                                          *)
LibraryScore(f, other) == DedupScore(f) + GroupBonus(f, other) + EditionBonus(f, other)

TieIsBetter(index, file) ==    \* mutant: a library file that scores the same does not count
  /\ file.resolution # 0
  /\ \/ index.resolution > file.resolution
     \/ /\ index.resolution = file.resolution
        /\ LibraryScore(index, file) >= LibraryScore(file, index)

BetterThanFile(index, file) ==
  /\ file.resolution # 0
  /\ \/ index.resolution > file.resolution
     \/ /\ index.resolution = file.resolution
        /\ LibraryScore(index, file) > LibraryScore(file, index)

-----------------------------------------------------------------------------
(* Reference: what a name is worth by itself, without the name it is       *)
(* compared with.                                                          *)
Bonus(f) == (IF f.preferred THEN 10 ELSE 0) + (IF f.edition # {} THEN 10 ELSE 0)
LibraryWorth(f) == DedupScore(f) + Bonus(f)
QueueWorth(f)   == QualityScore(f) + (IF f.preferred THEN 10 ELSE 0)

(* a is above b in the library: resolution first, then worth.              *)
Above(a, b) ==
  \/ a.resolution > b.resolution
  \/ a.resolution = b.resolution /\ LibraryWorth(a) > LibraryWorth(b)
=============================================================================
