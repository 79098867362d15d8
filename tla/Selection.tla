------------------------------ MODULE Selection ------------------------------
(***************************************************************************)
(* What a search run makes of the results of the index proxy: the paging   *)
(* of the indexer clients (jackett.py, prowlarr.py), the gates before the  *)
(* filters, the search for the IMDb id (imdb_search.py), the metadata from *)
(* the history table or from its two providers (imdb_metadata.py), the     *)
(* filters of module Filters, and the verdict that is written.  Movarr     *)
(* takes the verdict as a choice and has what happens around it.           *)
(*                                                                         *)
(* A row is of a title and keeps what the lookup of metadata reads.  A     *)
(* Passed row stands for its later results too: they only matter here in   *)
(* that the row is there.                                                  *)
(***************************************************************************)
EXTENDS Filters

CONSTANTS
  Titles, Movies,
  Ids, NoId,   \* IMDb ids, and an id that is not known
  MovieOf,     \* the movie of an id
  Canonical,   \* the id that IMDb redirects an id to
  Release,     \* per title: its movie, the id the index gives, whether its
               \*   indexer is ignored, and the fields Filters reads
  Hits,        \* per strategy and title, the answers of the IMDb id search
  Report,      \* per provider and movie, its metadata
  Ratings,     \* per movie, the ratings it can have
  Feed,        \* per tier, the pages of results, sequences of titles
  Pages,       \* how many pages are asked for: 1 with Prowlarr, with Jackett
               \*   offset \div limit + 1, for a limit above 0
  Walk,        \* the files of the library
  Expiring,    \* results whose *_expiry_days setting is positive
  Faults       \* whether calls fail and runs are cut off

ASSUME IdsAssumption ==
  /\ MovieOf \in [Ids -> Movies] /\ NoId \notin Ids
  /\ Canonical \in [Ids -> Ids] /\ \A i \in Ids : MovieOf[Canonical[i]] = MovieOf[i]
ASSUME FeedAssumption ==
  /\ Feed \in Seq(Seq(Seq(Titles))) /\ Pages \in Nat
\* The index gives the right id if it gives one, and a page that has the name
\* of a release and its year is of its movie.  A page without a year may be of
\* any movie.
ASSUME IdentityAssumption ==
  /\ \A t \in Titles : /\ Release[t].movie \in Movies /\ Release[t].id \in Ids \cup {NoId}
                       /\ Release[t].id # NoId => MovieOf[Release[t].id] = Release[t].movie
  /\ \A s \in DOMAIN Hits, t \in Titles : \A i \in DOMAIN Hits[s][t] :
       LET h == Hits[s][t][i] IN
       /\ h.id \in Ids \cup {NoId}
       /\ Release[t].title \in h.names /\ Release[t].year \in h.years /\ h.id # NoId
            => MovieOf[h.id] = Release[t].movie
ASSUME ReportAssumption ==
  /\ \A p \in {"imdbpie", "omdb"}, m \in Movies :
       {"title", "year", "type", "genres", "runtime", "rating", "votes", "languages",
        "countries", "credits", "foreign", "alternates"} \subseteq DOMAIN Report[p][m]
  /\ {"imdbpie", "tmdb", "omdb", "duckduckgo"} \subseteq DOMAIN Hits
ASSUME RatingsAssumption == \A m \in Movies : Ratings[m] # {} /\ Ratings[m] \subseteq 0..100
ASSUME ExpiringAssumption == Expiring \subseteq {"Failed", "Passed"}
ASSUME FaultsAssumption == Faults \in BOOLEAN

Providers  == {"imdbpie", "omdb"}
Strategies == <<"imdbpie", "tmdb", "omdb", "duckduckgo">>

NoMeta == [source |-> "none"]   \* a row whose imdb_title was never set
NoRow  == [result |-> "None"]

\* What is stored of the metadata; the rest is the provider's report.
Metas == [movie : Movies, source : Providers, rating : 0..100]
Rows  == [result : {"Failed", "Passed"}, id : Ids \cup {NoId}, meta : Metas \cup {NoMeta}]

VARIABLES
  row,      \* the history table, per title
  after,    \* <<t, u>>: the row of t was written after that of u, both with
            \*   metadata of the same id (ORDER BY id DESC)
  rating,   \* per movie, what IMDb says today
  run,      \* the search task
  told      \* what the circuit breaker was told of the last run

vars == <<row, after, rating, run, told>>

Stages == {"idle", "fetch", "item", "id", "metadata"}
Idle   == [at |-> "idle", tier |-> 1, page |-> 1, items |-> <<>>, id |-> NoId,
           failed |-> FALSE,    \* search_failed
           troubled |-> FALSE]  \* whether anything can go wrong during this run

Init ==
  /\ row = [t \in Titles |-> NoRow] /\ after = {}
  /\ rating \in [Movies -> UNION {Ratings[m] : m \in Movies}]
  /\ \A m \in Movies : rating[m] \in Ratings[m]
  /\ run = Idle /\ told = "nothing"

-----------------------------------------------------------------------------
(* The history table. *)

HasPassed(t) == row[t].result = "Passed"    \* mutant: only what was queued is skipped

(* is_duplicate_exact *)
IsDuplicateExact(t) == row[t] # NoRow

(* find_imdb_metadata: the rows of this id whose imdb_title is set.        *)
CachedRows(id) ==
  {t \in Titles : /\ row[t] # NoRow /\ row[t].id = id /\ row[t].meta # NoMeta
                  /\ Report[row[t].meta.source][row[t].meta.movie].title # NoName}

FindImdbMetadata(id) ==
  {row[t].meta : t \in {t \in CachedRows(id) :
                          \A u \in CachedRows(id) \ {t} : <<t, u>> \in after}}

(* Database.write: the row of t becomes the newest.                        *)
Write(t, result, id, meta) ==
  /\ row' = [row EXCEPT ![t] = [result |-> result, id |-> id, meta |-> meta]]
  /\ after' = {p \in after : t \notin {p[1], p[2]}}
                \cup IF meta = NoMeta THEN {} ELSE {<<t, u>> : u \in CachedRows(id) \ {t}}

(* _record_to_imdb_dict: the table has no column for the original and the  *)
(* alternate titles, so a row brings back everything but those.            *)
Fresh(meta)  == [Report[meta.source][meta.movie] EXCEPT !.rating = meta.rating]
Stored(meta) == [Fresh(meta) EXCEPT !.foreign = FALSE, !.alternates = {}]

PassedExpire(t) ==             \* mutant: failed_expiry_days is ignored
  row[t].result \in Expiring \ {"Failed"}

(* expire_stalled, expire_failed, expire_passed: a row may be due at any   *)
(* later run.                                                              *)
MayExpire(t) == row[t].result \in Expiring

Forget(S) ==
  /\ \A t \in S : MayExpire(t)
  /\ row' = [t \in Titles |-> IF t \in S THEN NoRow ELSE row[t]]
  /\ after' = {p \in after : p[1] \notin S /\ p[2] \notin S}

-----------------------------------------------------------------------------
(* The run over the tiers and their pages. *)

PageRunsOn(r) ==               \* mutant: the next tier does not begin at its first page
  [r EXCEPT !.at = "fetch", !.tier = @ + 1, !.page = @ + 1, !.items = <<>>]

NextTierForgets(r) ==          \* mutant: search_failed is reset for each tier
  [r EXCEPT !.at = "fetch", !.tier = @ + 1, !.page = 1, !.items = <<>>, !.failed = FALSE]

TierAgain(r) ==                \* mutant: a tier that failed is begun again
  [r EXCEPT !.at = "fetch", !.page = 1, !.items = <<>>]

NextTier(r) == [r EXCEPT !.at = "fetch", !.tier = @ + 1, !.page = 1, !.items = <<>>]

PageOf(r) == IF r.page \in DOMAIN Feed[r.tier] /\ r.page <= Pages
               THEN Feed[r.tier][r.page] ELSE <<>>

LastItemLost(r) ==             \* mutant: a page ends one item early
  IF Len(r.items) <= 2
    THEN [r EXCEPT !.at = "fetch", !.page = @ + 1, !.items = <<>>, !.id = NoId]
    ELSE [r EXCEPT !.at = "item", !.items = Tail(@), !.id = NoId]

(* The generator goes on with the next item of the page, or the next page. *)
NextItem(r) ==
  IF Len(r.items) = 1
    THEN [r EXCEPT !.at = "fetch", !.page = @ + 1, !.items = <<>>, !.id = NoId]
    ELSE [r EXCEPT !.at = "item", !.items = Tail(@), !.id = NoId]

(* _search_with_expiry and the start of run_search. *)
BeginRun(S, troubled) ==
  /\ troubled => Faults
  /\ run.at = "idle"
  /\ Forget(S)
  /\ run' = [Idle EXCEPT !.at = "fetch", !.troubled = troubled]
  /\ told' = "nothing"
  /\ UNCHANGED rating

(* The torrent client is away, or the circuit is open: nothing is searched.*)
(* If the proxy is away that is recorded as a failure.                     *)
SkipRun(S) ==
  /\ Faults /\ run.at = "idle"
  /\ Forget(S)
  /\ told' \in {"nothing", "failure"}
  /\ UNCHANGED <<rating, run>>

(* JackettClient.search: an empty page ends the tier.                      *)
FetchPage(k) ==
  /\ run.at = "fetch" /\ run.tier = k /\ k <= Len(Feed)
  /\ run' = IF PageOf(run) = <<>> THEN NextTier(run)
            ELSE [run EXCEPT !.at = "item", !.items = PageOf(run)]
  /\ UNCHANGED <<row, after, rating, told>>

(* A page that cannot be had ends the tier, and the flag stays for the     *)
(* rest of the run.                                                        *)
PageFails(k) ==
  /\ run.troubled
  /\ run.at = "fetch" /\ run.tier = k /\ k <= Len(Feed) /\ run.page <= Pages
  /\ run' = NextTier([run EXCEPT !.failed = TRUE])
  /\ UNCHANGED <<row, after, rating, told>>

(* record_search_success, record_search_failure. *)
EndRun ==
  /\ run.at = "fetch" /\ run.tier > Len(Feed)
  /\ run' = Idle
  /\ told' = IF run.failed THEN "failure" ELSE "success"
  /\ UNCHANGED <<row, after, rating>>

(* An exception in a result ends the run: nothing is recorded of it.       *)
Abort ==
  /\ run.troubled /\ run.at # "idle"
  /\ run' = Idle
  /\ UNCHANGED <<row, after, rating, told>>

-----------------------------------------------------------------------------
(* One result. *)

AtItem(t, stage) == run.at = stage /\ run.items # <<>> /\ Head(run.items) = t

(* _run_pre_filter_gates *)
Skipped(t) == Release[t].ignored \/ IsDuplicateExact(t) \/ Release[t].title = NoName

(* The gates, then filter_by_index; a result that fails it is written.     *)
TakeResult(t) ==
  /\ AtItem(t, "item")
  /\ \/ /\ Skipped(t)
        /\ run' = NextItem(run)
        /\ UNCHANGED <<row, after>>
     \/ /\ ~Skipped(t) /\ ~FilterByIndex(Release[t], Walk)
        /\ Write(t, "Failed", Release[t].id, NoMeta)
        /\ run' = NextItem(run)
     \/ /\ ~Skipped(t) /\ FilterByIndex(Release[t], Walk)
        /\ run' = [run EXCEPT !.at = IF Release[t].id = NoId THEN "id" ELSE "metadata",
                              !.id = Release[t].id]
        /\ UNCHANGED <<row, after>>
  /\ UNCHANGED <<rating, told>>

AnyYear(s, h, r) == r.title \in h.names     \* mutant: the year is not compared

(* _match_imdbpie_hit, _find_tmdb_candidate, _validate_omdb_year,          *)
(* _should_skip_ddg_hit_by_year: a page of the web search may show no year.*)
HitMatches(s, h, r) ==
  /\ r.title \in h.names
  /\ r.year \in h.years \/ (s = "duckduckgo" /\ h.years = {})

(* The first hit that matches.  IMDbPie and the web search go on to the    *)
(* next when it has no id; TMDb and OMDb do not.                           *)
Matching(s, t) ==
  {i \in DOMAIN Hits[s][t] :
     /\ HitMatches(s, Hits[s][t][i], Release[t])
     /\ s \in {"imdbpie", "duckduckgo"} => Hits[s][t][i].id # NoId}

FoundBy(s, t) ==
  {Hits[s][t][i].id : i \in {i \in Matching(s, t) : \A j \in Matching(s, t) : i <= j}} \ {NoId}

(* search_for_imdb_id: the first strategy that answers with an id.         *)
Finding(t, answering) == {n \in answering : FoundBy(Strategies[n], t) # {}}

SearchForImdbId(t) ==
  /\ AtItem(t, "id")
  /\ \E answering \in IF run.troubled THEN SUBSET DOMAIN Strategies ELSE {DOMAIN Strategies} :
       LET F == Finding(t, answering) IN
       \/ /\ F = {}
          /\ Write(t, "Failed", NoId, NoMeta)
          /\ run' = NextItem(run)
       \/ \E n \in F :
            /\ \A m \in F : n <= m
            /\ \E id \in FoundBy(Strategies[n], t) :
                 run' = [run EXCEPT !.at = "metadata", !.id = id]
            /\ UNCHANGED <<row, after>>
  /\ UNCHANGED <<rating, told>>

-----------------------------------------------------------------------------
(* The metadata, the filters and the queue. *)

Reported(source, id) ==
  [movie |-> MovieOf[id], source |-> source, rating |-> rating[MovieOf[id]]]

(* fetch_metadata.  IMDbPie knows a movie by its canonical id alone; when  *)
(* it fails, before or after the redirect was resolved, OMDb is asked, and *)
(* may give an id of its own.  NoMeta: neither answered.                   *)
Fetched(id) ==
  {[id |-> Canonical[id], meta |-> Reported("imdbpie", id)]}
    \cup (IF run.troubled THEN {[id |-> j, meta |-> m] : j \in {id, Canonical[id]},
                                                  m \in {Reported("omdb", id), NoMeta}}
          ELSE {})

(* What _enrich_result filters on: from the table when it has it.          *)
Sources(id) ==
  IF CachedRows(id) # {}
    THEN {[id |-> id, meta |-> m, full |-> Stored(m)] : m \in FindImdbMetadata(id)}
    ELSE {[id |-> f.id, meta |-> f.meta,
           full |-> IF f.meta = NoMeta THEN NoMeta ELSE Fresh(f.meta)] : f \in Fetched(id)}

Accepted(t, src) ==
  IF src.meta = NoMeta THEN {FALSE} ELSE FilterByImdb(Release[t], src.full, Walk)

(* _enrich_result and _queue_and_persist: what is refused by a filter, or  *)
(* by the torrent client, is written as Failed.                            *)
Decide(t, result) ==
  /\ AtItem(t, "metadata")
  /\ \E src \in Sources(run.id) : \E ok \in Accepted(t, src) :
       /\ result = "Passed" => ok
       /\ result = "Failed" => ~ok \/ run.troubled
       /\ Write(t, result, src.id, src.meta)
  /\ run' = NextItem(run)
  /\ UNCHANGED <<rating, told>>

(* Votes come in and the rating of a movie changes.                        *)
RatingChanges(m) ==
  /\ \E n \in Ratings[m] \ {rating[m]} : rating' = [rating EXCEPT ![m] = n]
  /\ UNCHANGED <<row, after, run, told>>

Next ==
  \/ \E S \in SUBSET Titles : SkipRun(S) \/ \E b \in BOOLEAN : BeginRun(S, b)
  \/ \E k \in 1..Len(Feed) : FetchPage(k) \/ PageFails(k)
  \/ \E t \in Titles : \/ TakeResult(t) \/ SearchForImdbId(t)
                       \/ Decide(t, "Passed") \/ Decide(t, "Failed")
  \/ EndRun \/ Abort
  \/ \E m \in Movies : RatingChanges(m)

Spec == Init /\ [][Next]_vars

-----------------------------------------------------------------------------
(* Properties. *)

TypeOK ==
  /\ row \in [Titles -> Rows \cup {NoRow}]
  /\ after \subseteq Titles \X Titles
  /\ rating \in [Movies -> 0..100]
  /\ run \in [at : Stages, tier : 1..Len(Feed) + 1, page : 1..Pages + 1,
             items : Seq(Titles), id : Ids \cup {NoId}, failed : BOOLEAN,
             troubled : BOOLEAN]
  /\ told \in {"nothing", "success", "failure"}

-----------------------------------------------------------------------------
(* Where a result is offered: pages of a tier are asked for until one is   *)
(* empty.                                                                  *)
Offered(k, p) == p <= Pages /\ \A q \in 1..p : q \in DOMAIN Feed[k] /\ Feed[k][q] # <<>>
On(t, k, p)   == \E i \in DOMAIN Feed[k][p] : Feed[k][p][i] = t

(* A result the program does not look at. *)
OutOfScope(t) == Release[t].ignored \/ Release[t].title = NoName

Listed ==
  {t \in Titles : /\ ~OutOfScope(t)
                  /\ \E k \in DOMAIN Feed : \E p \in DOMAIN Feed[k] : Offered(k, p) /\ On(t, k, p)}

Decided(t) == row[t] # NoRow

(* A run that the circuit breaker counts as a success has decided every    *)
(* result that was offered: no failed page, in whatever tier, and no       *)
(* result that ended the run is passed off as an empty answer.             *)
SuccessIsComplete == told = "success" => \A t \in Listed : Decided(t)

(* The ids of pages of the web search that have the name of t and show no  *)
(* year: nothing tells them from a page of its movie.                      *)
Undated(t) ==
  {Hits["duckduckgo"][t][i].id :
     i \in {i \in DOMAIN Hits["duckduckgo"][t] :
              /\ Release[t].title \in Hits["duckduckgo"][t][i].names
              /\ Hits["duckduckgo"][t][i].years = {}}} \ {NoId}

(* The movies that t may be taken for.                                     *)
MistakenFor(t) == IF Release[t].id = NoId THEN {MovieOf[i] : i \in Undated(t)} ELSE {}
Plausible(t)   == {Release[t].movie} \cup MistakenFor(t)

(* Whatever way its id was found, from the index, by a strategy, through a *)
(* redirect, and whatever the metadata was taken from, a title is judged   *)
(* by the metadata of its own movie.  It is taken for another one in one   *)
(* case only: the index gave no id, and the web search has a page of that  *)
(* movie with the same name and no year (imdb_search.py:361).              *)
RightMovie ==
  \A t \in Titles : row[t] # NoRow /\ row[t].meta # NoMeta =>
                      row[t].meta.movie \in Plausible(t)

(* What is queued has the type, year, running time, language, country,     *)
(* bitrate, rating and votes the user asks for, by what a provider said of *)
(* the movie it was identified as: not by what was said of another one,    *)
(* not because nothing was known, and at the rating it had when it was     *)
(* looked up.  A person or a title the user never wants to miss is left    *)
(* out: README.md:166 says it is accepted "bypassing all other filters",   *)
(* while filters.py:205-220 waives the rating and the votes alone.         *)
PassedIsAllowed ==
  \A t \in Titles : row[t].result = "Passed" =>
    LET m == Fresh(row[t].meta)
    IN  \/ Overridden(Release[t], m)
        \/ /\ KindAccepted(m) /\ GenresAccepted(m)
           /\ BitrateAccepted(Release[t], m) /\ RatedWell(m)

(* The files the library has under the title and year IMDb gives, of a     *)
(* movie with one title.                                                   *)
OwnFiles(m) == MatchingFiles(m.title, m.year, Walk)

(* A movie that is in the library is queued for a better file only, under  *)
(* whatever name its release came, and also when a person or a title the   *)
(* user never wants to miss waives the rating: filters.py:220 goes on to   *)
(* the library check, README.md:166 speaks of all other filters.           *)
UpgradesLibrary ==
  \A t \in Titles : row[t].result = "Passed" /\ Settings.library =>
    LET m == Report[row[t].meta.source][row[t].meta.movie]
    IN  ~m.foreign => \A f \in OwnFiles(m) : Beats(Release[t], f)

(* A foreign movie is looked for under its other titles as well.           *)
NotInLibrary ==
  \A t \in Titles : row[t].result = "Passed" /\ Settings.library =>
    \A n \in TitleVariants(Report["imdbpie"][Release[t].movie]) :
    \A f \in MatchingFiles(n, Report["imdbpie"][Release[t].movie].year, Walk) :
      Beats(Release[t], f)

(* Where a run is: tiers, their pages, the results of a page, and with a   *)
(* result the duplicate check, the search for its id and its metadata.     *)
StageRank == [item |-> 1, id |-> 2, metadata |-> 3]

Further(r, s) ==
  \/ s.tier > r.tier
  \/ s.tier = r.tier /\ s.page > r.page
  \/ /\ s.tier = r.tier /\ s.page = r.page /\ s.at # "fetch"
     /\ \/ r.at = "fetch"
        \/ Len(s.items) < Len(r.items)
        \/ s.items = r.items /\ StageRank[s.at] > StageRank[r.at]

(* Until it ends a run gets further with every step, and never comes back  *)
(* to a tier, a page or a result it is done with, whatever failed there.   *)
(* As tiers, pages and results are finite, no feed keeps it going forever. *)
RunAdvances == [][run.at # "idle" /\ run' # run => run'.at = "idle" \/ Further(run, run')]_vars

(* A title is decided once, and its verdict stands until a run forgets it. *)
Life == INSTANCE Lifecycle WITH status <- [t \in Titles |-> row[t].result]
FollowsLifecycle == Life!Spec

-----------------------------------------------------------------------------
(* Liveness.  The scheduler starts a run again and again, and a run goes   *)
(* on.  Every so often nothing goes wrong during a whole run, and a row is *)
(* due at some of these.  A result that raises an exception at every run   *)
(* is excluded by this; it would end the search there for good.            *)
Progress ==
  \/ \E k \in 1..Len(Feed) : FetchPage(k)
  \/ \E t \in Titles : \/ TakeResult(t) \/ SearchForImdbId(t)
                       \/ Decide(t, "Passed") \/ Decide(t, "Failed")
  \/ EndRun

Fairness ==
  /\ WF_vars(Progress)
  /\ SF_vars(\E S \in SUBSET Titles : BeginRun(S, FALSE))
  /\ \A t \in Titles : SF_vars(\E S \in SUBSET Titles : t \in S /\ BeginRun(S, FALSE))

FairSpec == Spec /\ Fairness

(* Every result that is offered is decided again and again, however often  *)
(* runs are cut off and its row is forgotten.                              *)
EveryResultDecided == \A t \in Listed : []<>Decided(t)

(* t is known for its movie, and no other release shares its metadata. *)
Alone(t) ==
  /\ MistakenFor(t) = {}
  /\ \A u \in Titles \ {t} : Release[t].movie \notin Plausible(u)

(* Nothing speaks against t by what a provider says of it at this rating.  *)
Deserving(t) ==
  /\ ~OutOfScope(t) /\ FilterByIndex(Release[t], Walk)
  /\ \A p \in Providers :
       FilterByImdb(Release[t],
                    [Report[p][Release[t].movie] EXCEPT !.rating = rating[Release[t].movie]],
                    Walk) = {TRUE}

(* A title that was refused is looked at again when its row has expired,   *)
(* with what IMDb says by then.  If it deserves it, it is queued.          *)
Reconsidered ==
  \A t \in Listed : Alone(t) => ([]<>~Deserving(t) \/ []<>(row[t].result = "Passed"))

=============================================================================
