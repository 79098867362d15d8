------------------------------- MODULE Filters -------------------------------
(***************************************************************************)
(* The gates of filters.py: what an index result and the IMDb metadata of  *)
(* its movie must satisfy to be queued.  filter_by_index and               *)
(* filter_by_imdb run their gates in order and stop at the first that      *)
(* fails; no gate looks at the outcome of another, so a chain is a         *)
(* conjunction.  Names are compared normalised, and are atomic here; a     *)
(* value that a provider did not give, or that cannot be parsed, is        *)
(* Missing.  The quality of a name is a number; Quality has the scores.    *)
(***************************************************************************)
EXTENDS Integers, Sequences
LOCAL INSTANCE FiniteSetsExt

CONSTANTS
  Settings,   \* config.filters, and the sizes and criteria of the search tier
  NoName      \* an imdb_title that is None

Missing == -1

People == {"character", "director", "writer", "cast"}   \* the lists of credits

-----------------------------------------------------------------------------
(* Stage 1: the index result r, against the walk of the library. *)

(* _match_library_file: a file goes by its own name and, when the two are  *)
(* not in contradiction, by that of its folder.                            *)
MatchingFiles(name, year, walk) == {f \in walk : name \in f.names /\ f.year = year}

(* _evaluate_single_library_file: a file without a resolution is never     *)
(* beaten.                                                                 *)
Beats(r, f) ==
  /\ f.resolution # 0
  /\ \/ r.resolution > f.resolution
     \/ r.resolution = f.resolution /\ r.score > f.score

(* _check_library; no walk was made when no library is configured.         *)
LibraryAccepted(r, walk) ==
  Settings.library =>
    r.resolution # 0 /\ \A f \in MatchingFiles(r.title, r.year, walk) : Beats(r, f)

(* _check_minimum_size, _check_maximum_size; 0 turns a bound off.          *)
SizeAccepted(r) ==
  /\ Settings.minimumSize > 0 => r.size # Missing /\ r.size >= Settings.minimumSize
  /\ Settings.maximumSize > 0 => r.size # Missing /\ r.size <= Settings.maximumSize

(* filter_by_index.  r.names are the title with and without its year.      *)
FilterByIndex(r, walk) ==
  /\ r.group \notin Settings.rejectGroups
  /\ Settings.criteria \subseteq r.words
  /\ SizeAccepted(r)
  /\ r.words \cap Settings.rejectWords = {}
  /\ ~r.tv
  /\ r.names \cap Settings.rejectTitles = {}
  /\ LibraryAccepted(r, walk)

-----------------------------------------------------------------------------
(* Stage 2: the metadata m of the movie of r. *)

GenresOf(m) == {m.genres[i] : i \in DOMAIN m.genres}

(* _check_reject_genre, and _check_reject_genre_exclusive: all of them.    *)
(* Without genres both pass.                                               *)
GenresAccepted(m) ==
  /\ GenresOf(m) \cap Settings.rejectGenres = {}
  /\ Settings.rejectExclusive # {} /\ m.genres # <<>> =>
       ~(GenresOf(m) \subseteq Settings.rejectExclusive)

(* _check_bitrate: both divisions drop the fraction.                       *)
BitrateAccepted(r, m) ==
  Settings.minimumBitrate > 0 =>
    /\ r.size # Missing /\ m.runtime > 0
    /\ r.size \div m.runtime >= Settings.minimumBitrate

(* The gates of what a movie is, rather than how good: they fail when the  *)
(* data is missing.                                                        *)
KindAccepted(m) ==
  /\ Settings.allowTypes # {}     => m.type \in Settings.allowTypes
  /\ Settings.minimumYear > 0     => m.year # Missing /\ m.year >= Settings.minimumYear
  /\ Settings.minimumRuntime > 0  => m.runtime # Missing /\ m.runtime >= Settings.minimumRuntime
  /\ Settings.allowLanguages # {} => m.languages \cap Settings.allowLanguages # {}
  /\ Settings.allowCountries # {} => m.countries \cap Settings.allowCountries # {}

(* _apply_override_gate: a person or a title the user never wants to miss. *)
Overridden(r, m) ==
  \/ \E p \in People : m.credits[p] \cap Settings.overridePeople[p] # {}
  \/ r.names \cap Settings.overrideTitles # {}

(* _override_genre: the last genre of the movie with a minimum of its own  *)
(* of this kind, which may be 0, takes the place of the general one.       *)
Overriding(m, kind) ==
  {i \in DOMAIN m.genres : /\ m.genres[i] \in DOMAIN Settings.overrideGenre
                           /\ Settings.overrideGenre[m.genres[i]][kind] # Missing}

Minimum(m, kind) ==
  LET O == Overriding(m, kind)
  IN  IF O = {} THEN Settings.minimum[kind]
      ELSE Settings.overrideGenre[m.genres[Max(O)]][kind]

(* _check_rating, in tenths: a minimum above 10.0 asks only that there be  *)
(* a rating, and a rating of 0 is none.                                    *)
RatingReaches(rating, min) == min > 0 => rating > 0 /\ (min > 100 \/ rating >= min)

(* _check_votes *)
VotesReach(votes, min) == min > 0 => votes # Missing /\ votes >= min

(* _apply_rating_votes_gate *)
RatedWell(m) ==
  /\ RatingReaches(m.rating, Minimum(m, "rating"))
  /\ VotesReach(m.votes, Minimum(m, "votes"))

(* _build_title_variants: the other titles count for a foreign movie.      *)
TitleVariants(m) == {m.title} \cup (IF m.foreign THEN m.alternates ELSE {})

IndexNameOnly(name, r, m, walk) ==   \* mutant: IMDb's title is not looked for
  MatchingFiles(r.title, m.year, walk)

(* _find_canonical_matches for one title: the year of the index result is  *)
(* tried when IMDb's finds nothing.                                        *)
FilesFor(name, r, m, walk) ==
  IF MatchingFiles(name, m.year, walk) # {} THEN MatchingFiles(name, m.year, walk)
                                             ELSE MatchingFiles(name, r.year, walk)

(* _check_library_canonical, the verdicts it can give.  The files of the   *)
(* first title that has any decide, and a Python set of strings is gone    *)
(* through in an order that changes from process to process.               *)
CanonicalVerdicts(r, m, walk) ==
  LET found == {FilesFor(n, r, m, walk) : n \in TitleVariants(m)} \ {{}}
  IN  IF ~Settings.library THEN {TRUE}
      ELSE IF m.title = NoName \/ m.year = Missing \/ r.resolution = 0 THEN {FALSE}
      ELSE IF found = {} THEN {TRUE}
      ELSE {\A f \in F : Beats(r, f) : F \in found}

UnknownPasses(r, m) ==         \* mutant: a movie whose language is not known passes
  /\ GenresAccepted(m) /\ BitrateAccepted(r, m)
  /\ m.languages = {} \/ KindAccepted(m)
  /\ Overridden(r, m) \/ RatedWell(m)

(* filter_by_imdb: an override waives the rating and the votes alone.      *)
MetadataAccepted(r, m) ==
  /\ GenresAccepted(m) /\ BitrateAccepted(r, m) /\ KindAccepted(m)
  /\ Overridden(r, m) \/ RatedWell(m)

FilterByImdb(r, m, walk) ==
  IF MetadataAccepted(r, m) THEN CanonicalVerdicts(r, m, walk) ELSE {FALSE}
=============================================================================
