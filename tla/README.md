# movarr in TLA+

movarr searches torrent indexers for movies, queues what passes its filters in
qBittorrent, removes downloads that are stuck, and copies finished downloads
into a library. This directory holds TLA+ models of its tasks and stores, TLC
configurations that check them on small instances, and TLAPS proofs of the most
important invariants for every instance. Line numbers refer to `src/movarr/*.py`
of the repository.

## The system

One process, though nothing prevents a second one on the same database.
`scheduler.py` starts an APScheduler `BackgroundScheduler` with up
to three jobs (`_add_job_if_enabled`, `max_instances=1`, `coalesce=True`): each
task runs on a thread of its own, never twice at once, and the three run
concurrently. `_run_guarded` turns any exception into the end of that one run.
All three share one `Database` (SQLite, one session and one commit per method)
and one `QBittorrentClient`.

| Component | State it keeps | Operations | Talks to |
|---|---|---|---|
| `database.py` history | one row per index title: tag, result, timestamps | write, duplicate check, mark stalled / completed, find by tag, three expiries, schema upgrades | called by all tasks |
| `database.py` kv store | streak start, alert flag, last search failure | get, set, delete | service health, circuit breaker |
| `search.py` | a run: library walk, current result, superseded torrents | expire, search, filter, supersede, queue, persist | indexers, IMDb, client, database, notifications |
| `queue_manager.py` | a run: listing, hashes deleted | list stuck torrents, delete, mark | client, database |
| `post_processor.py` | a run: finished torrents, files copied | copy, mark, delete superseded files, remove | client, database, library, hooks |
| `qbittorrent.py` | none; the client keeps torrents, tags, states | add, list, delete by hash, ages | qBittorrent over HTTP |
| `file_utils.py` | none; files of the library | verify, copy, checksum, delete | file system |
| `service_health.py`, `index_proxy_health.py`, `torrent_client_health.py` | in the kv store | check, alert once, reset, open and close the breaker | kv store, notifications |
| `filters.py`, `parsing.py` | none | gate chain, library check, quality scores | configuration, library walk |
| `config.py` | `movarr.yml` and backups | migrate, strip, rewrite, validate | file system |
| `indexer.py`, `jackett.py`, `prowlarr.py`, `imdb_*.py`, `downloader.py`, `notifications.py` | none | remote calls, fallbacks, formatting | external services |
| `scheduler.py`, `cli.py` | jobs, PID file | start, run once, shut down | everything |

What is hard about it: a check and the write it justifies are always separated
by network calls, in which the other two tasks work on the same row, torrent or
file; listings of the client are used minutes later; a client call can be
refused, lost after it took effect, or take effect late; a run can end at any
call, and nothing is transactional across the table, the client and the disk;
days pass between the decision to queue a release and its copy, and the code
deletes files and torrents on the strength of the earlier decision. The full
list of hazards is in `PROJECT.json`.

What each component must get right:

- history: one row per title; a tag means one title; a verdict is forgotten
  unless it is Completed; only what was queued can stall or complete;
- search: never supersede without a recorded better torrent; never queue
  without a row;
- queue management: a row says Stalled only when its torrent is gone;
- post-processing: Completed means that every file was copied and verified; no
  edition that was completed is lost; unfinished files can be redone;
- service health: one alert per outage, no outage without one, no stale flag;
- circuit breaker: it opens after a failure and always closes again;
- filters and scores: comparisons are strict orders, so that replacement never
  goes in circles; nothing is queued on the metadata of another movie, or because
  nothing was known, or although the library has it as good;
- selection: every result is decided in the end, and decided again when its
  verdict expires; a run that lost a page is not taken for a good one;
- process and schema: no task ever runs on half a schema, through any crash
  during an upgrade; a signal ends the process;
- configuration: the user's settings survive a migration and any crash in it,
  and each arrives at its place in the present schema.

## Modules

| Module | Models | |
|---|---|---|
| `History` | the history table: rows and the queries on them, each an atomic operator | constants `Titles`, `MaxTag`, `Expiring` |
| `Lifecycle` | what the table promises about one title, the abstract specification | `Decide`, `Settle`, `Forget` |
| `Movarr` | the three tasks over the table and the torrent client | extends `History`, implements `Lifecycle` but for one step |
| `Filters` | the gates of both filter stages, as operators on a result, its metadata and the library | no state |
| `Selection` | a search run over tiers, pages and results: id search, metadata, cache, verdict | extends `Filters`, implements `Lifecycle` |
| `Outage` | what a service's health check promises: an outage begins, passes, is alerted once, ends; the abstract specification | `Begin`, `Pass`, `Alert`, `End` |
| `ServiceHealth` | a service's streak, alert flag and circuit breaker, with several checking tasks | implements `Outage` |
| `Library` | the directory of one movie: library check, copy file by file, deletion of superseded files | |
| `Quality` | score tables and comparisons, as operators on the features of a name | no state |
| `RunOnce` | single-pass runs, one after the other, over the queue and the library of one movie | extends `Quality` |
| `Configuration` | the configuration file, its backups and migrations | |
| `Process` | the process: PID file, schema upgrades, start, jobs, signals, exit, with several processes on one database | |
| `MC*` | instances for TLC | |
| `*_proofs` | theorems and proofs | |

### History, Lifecycle, Movarr

State: `history` is the table (`title`, `tag`, `result`, and whether the row's
timestamp is behind its expiry cutoff); `client` the torrents of movarr's
category, each with title, tag and state; `pending` the adds the client has
answered but not carried out; `search`, `qm`, `pp` the program counters and
locals of the three threads; `library` a history variable, what was ever copied.

One action per step between two shared accesses. Search: `BeginSearch` (the three
expiries of `_search_with_expiry`, then the early returns of `run_search`),
`TakeResult` (`is_duplicate_exact`), `RejectResult` (any verdict of the filters
or lookups, with its write), `Supersede` (list, compare, decide), `AddTorrent` /
`AddRefused`, `PersistResult`, `MarkSuperseded`, `DeleteSuperseded`,
`EndSearch`. Queue management: `ListStuck`, `DeleteStuck` for every torrent, then
`MarkStuck` for every deleted one, for metaDL and then stalledDL.
Post-processing: `BeginPostProcessing` (the listing), `ProcessFinished`,
`MarkFinished`, `RemoveFinished`. The client and its user: `FetchTorrent`,
`DropTorrent`, `AdvanceTorrent`, `UserAdds`, `UserRemoves`. `RowAges` is the
passing of days. `Interrupt` ends one task's run (`_run_guarded`) or all three.

Abstractions: a title, its torrent and its hash are one thing; filters and
lookups are a choice; results come in any order; the search's IMDb id and score
are the constants `MovieOf`, `Score`, `NameScore` (the name the client shows may
score differently from the indexed title); tags are numbered instead of drawn
as UUIDs, up to `MaxTag`. A torrent that the user adds has no movarr- tag, so that
no task looks at how far it has got, and it has one state only. Expiry also asks
that the timestamp is not NULL (`database.py:346`), which it never is on a row that
`write` and `mark_stalled` made.

`Lifecycle` has one variable, the status of each title, and is strict about it: a
Completed title stays so, as the design says. `Selection` implements it. `Movarr`
does not, and `completed_stays` shows where: `Movarr!TitleLife` is the
instance under `status[t] == StatusOf(history, t)`, and theorem
`FollowsLifecycleButForDemotion` says that the mark of a Completed title as Stalled
is the only kind of step that leaves it.

### Filters, Selection

`Filters` has every gate of `filter_by_index` and `filter_by_imdb` and both library
checks. A name is a model value; words, groups and people are sets of them, a
rating is in tenths, and `Missing` is what a provider did not give. The canonical
check yields a set of verdicts, because the code goes through a Python set of
titles, whose order changes from process to process.

`Selection` takes apart what `Movarr` leaves as a choice. State: `row`, the
history table with what the metadata lookup reads from it (result, IMDb id, whose
metadata at which rating); `after`, the order in which rows were written, as far
as `ORDER BY id DESC` can tell; `rating`, what IMDb says today; `run`, the place
in tiers, pages and items, the id found so far, and `search_failed`; `told`, what
the circuit breaker was told. Actions: `BeginRun` / `SkipRun` with the expiries,
`FetchPage`, `PageFails`, `TakeResult` (the gates before the filters and
`filter_by_index`), `SearchForImdbId` (four strategies in order), `Decide` (cached
or fetched metadata, `filter_by_imdb`, the client, the write), `EndRun`, `Abort`,
`RatingChanges`.

`run.troubled` says from the start whether calls may fail in a run, so that
fairness can speak of a run without trouble. What the index and the providers say
is constant, except for the rating. `IdentityAssumption` is what the code relies
on: an id given by the index is the right one, a page of the same name that
has the year is of the same movie; `IdsAssumption` adds that a redirect stays within
the movie. A page
without a year may be of any movie, and the web search takes it all the same.
`Pages` is the number of
offsets that Jackett's loop goes through with a positive limit. `Life` is the instance of
`Lifecycle` under the `result` column.

### ServiceHealth

`since`, `alertSent`, `failedAt` are the keys, as ages in ticks that stop at the
number of ticks the code compares them with; `caller` the place of each task in
its check; `sent` a history variable that counts the alerts of the streak on
record. The steps are the kv operations of `_on_unhealthy`, `_reset_streak`
and the breaker, one by one. `Promise` is the instance of `Outage` in which the age
of the outage is `since` and its alerts are `sent`: one task that checks a
service without interruption implements it, although the flag and the streak are
read, written and deleted in separate commits. Corrupt timestamps, timestamps in the future, and
an alert without apprise URLs are left out. The addressees of an alert are one: with
several, a group counts as not reached when one address was not, and the others
get the alert again (`notifications.py:185-194`).

### Library

`shelf` holds the files of one movie's directory, each with its name and the
release and part it was copied from (part 0: unfinished); `torrent` what the
client has of each release; `completed` the Completed rows; `walk` the releases
that beat everything the running search found when it walked the library;
`locked` the user's immutable files; `accepted` a history variable, the names
whose file `_verify_existing` took for copied because it could not delete it;
`pp` the thread in `_process_one`, with its index into the copy list.
`VerifyExisting` follows `_verify_existing` on every path: a deletion may fail
for any reason, on any file, an unfinished one included, and then the mismatch
is accepted, so `CompletedIsWhole`, `KeepsMovie` and `HalfHasSource` promise
nothing about the names in `accepted`, and everything about all others.
`VerifyExisting`,
`StartFile`, `FinishFile`, `CopyFails` are `copy_with_verify`; `ListSuperseded`,
`DeleteSupersededFile`, `EndDelete` are `_delete_superseded_files`. A release's
library names, its largest file, the edition and rank of names are constants.
The torrent is assumed to stay while its files are copied, and the checksum to
identify the file.

### Quality, RunOnce

`Quality` has the four score tables, the two scores, the bonuses that depend on
the other name, and the two comparisons: `Supersedes` with a torrent in the queue,
`BetterThanFile` with a file in the library. A name is reduced to what
`parsing.py` finds in it: tokens, first number before a "p", preferred group,
special editions. `Above`, `LibraryWorth` and `QueueWorth` are the reference, a
worth that does not depend on the other name.

`RunOnce` is single passes as in `run_once`, again and again: `BeginSearch`
(expiry, then the walk), `TakeResult` for any release without a row,
`ManageQueue`, `ProcessFinished`, `EndRun`. The interleaving of tasks is the
subject of `Movarr` and `Library`; here the comparisons are the real ones instead
of ranks. The titles in the client and in the library are assumed to carry the
features of the index title, and the client to list a torrent as soon as it is
added. The program itself calls `run_once` only when all tasks are disabled
(`scheduler.py:67-70`), and then it runs none of them, although the module's
header (10-12) promises a run of each task; the module is about the order of the
tasks, which a scheduler whose tasks do not overlap has as well.

### Configuration

`file` and `backups` (by version) hold a version, the empty sections, and a value
for one setting of each kind that a migration treats differently; `pc` and `raw`
are `load_config`; `loaded`, `written` and `refused` are history variables.
`Migrated` walks the chain of 24 migrations. The steps are the writes to the
disk: `BeginDefault`/`EndDefault`, `Read`, `Backup`, `BeginRewrite`/`EndRewrite`,
`EndStrip`, with `Crash` at each, a user who edits the file or puts a backup back,
and `Stop`. A file of a version the chain does not know is treated by the code like
a current one, and left out, as is the validation of values.

### Process

`schema` is the set of tables, columns and the index that are there, `version` is
`PRAGMA user_version`, `keys` the names under which the key-value table has the
start of the outage, `proc` the place of each process in `run`, `pid` the process
that the PID file names. Each SQL statement of `_ensure_schema` is a step, because
SQLite commits it by itself: look for tables, create one, read the version, look
for a column, add it, rename the key, set the version. A statement that another
process has made impossible ends the process (`Die`). The scheduler's jobs start
and end in any order; `Signal`, `EarlyInterrupt` and `Kill` are the three ways to
be stopped. Of the data there is one entry, the start of the outage, which the
last upgrade renames and the search task writes. Databases of all releases from
before versions (0) and from version 6 on are initial states.

## Runs

| Run | Instance | Shows |
|---|---|---|
| `tasks_faults` | 2 releases of a movie, 2 tags, all expiries, one monitor, supersession, copy and removal, a user who adds and removes the torrent of one of them, all faults, fairness of the scheduler | `TypeOK`, `OneRowPerTitle`, `TagMeansTitle`, `SupersedeJustified`, `CompletedWasCopied`, `StalledIsGone`, `NothingBlockedForever` |
| `completed_stays` | 2 releases of a movie, sources kept, supersession, no faults | violated: `CompletedIsPermanent` |
| `health_proxy` | 1 task, threshold 3, window 2 | `SingleAlert`, `FlagFollowsStreak`, `OutageAlerted`, `CircuitCloses`, that the check implements `Outage`, and `BreakerRunsDown` |
| `health_heals` | 2 tasks, threshold 2, interrupted anywhere | `TableHeals` |
| `library_keeps` | 3 releases (2 editions, a trailer, a shared file name), all faults, failed deletions, one name the user may make immutable | `TypeOK`, `KeepsMovie`, `HalfHasSource`, `CompletedIsWhole` |
| `library_settles` | 2 releases, sources kept, no faults, fairness of post-processing | violated: `LibrarySettles` |
| `upgrades` | 7 releases that differ in every feature the comparisons read, 3 of them the user's files at the start | `NoWayBack`, `UpgradesOnly` |
| `configuration` | files of versions 1.0.0, 2.4.0, 2.11.0, 2.17.0 and 2.23.0, one without a version, two with an empty section, one with an empty value, one with a timeout under three seconds; all faults | `SettingsSurvive`, `StableRestart`, `CarriedOver` |
| `config_backup` | the same | violated: `BackupSurvives` |
| `selection` | 5 results of 3 movies, 2 of them with one name, and a third movie of that name with a page that shows no year, over 2 tiers of pages; a redirected id, hits of the wrong movie, providers that disagree, a rating that changes, all faults | `TypeOK`, `SuccessIsComplete`, `RightMovie`, `PassedIsAllowed`, `UpgradesLibrary`, that the selection implements `Lifecycle`, `RunAdvances`, `EveryResultDecided`, `Reconsidered` |
| `selection_alternates` | 2 releases of a foreign movie that the library has under its other title, no faults | violated: `NotInLibrary` |
| `process` | 2 processes, 2 tasks, 2 signals or kills, databases of every release | `VersionTellsSchema`, `TasksHaveSchema`, `OutageSurvives`, `SignalEndsProcess`, `AllUp` |

Bounds. Two releases of one movie are enough for every race between the tasks over
a row, a tag or a torrent, since each task handles one torrent at a time and
supersession compares two. Two tags let a title be forgotten and added again, or
both titles be queued, which is what races of two torrents need (1.1 million states). `SentCap` is
one more than the number the property allows. The threshold of `health_proxy` is
longer than the window, so that several checks fall into one outage. In `Library`,
the director's cut brings a file under the lesser release's name, which makes
`VerifyExisting` replace a file that another release was completed with, and
`MaxVideos` is one less than the names, so that both sides of the limit occur. The
releases of `upgrades` are a web release, a disc, a twin of the web release from a
preferred group, a remux, two of a higher resolution of which one is an extended
cut, and a name without a resolution. The files of `configuration` have every
setting of their schema, so that one file exercises all later migrations. The
results of `selection` are one that the first stage refuses, one of an ignored
indexer, and three that reach the metadata: by a redirected id, by the id search,
and by an id from the index with a name the library does not have. Only Failed
rows expire there: `Movarr` and `RunOnce` have the expiry of Passed ones. Two
processes meet at every statement of an upgrade. `MaxDisturbances` is 2: one kill
leaves half a schema, the other one interrupts its repair.

Deadlock is checked in every run.

Fairness. `Movarr!FairSpec`: the search task takes steps again and again (the
scheduler restarts it, every call has a timeout) and rows age. Nothing is assumed
of the client, the user, queue management or post-processing, and any run may be
interrupted after its first step. `Library!FairSpec`: post-processing runs again
and again. `ServiceHealth!FairSpec`: time passes and each task checks again and
again; strong fairness of `RecordSearch`, `DeleteSince`, `DeleteFlag` and
`Deliver` says that the world does not interrupt every reset at the same place or
refuse every notification for ever. `Selection!FairSpec`: a run goes on; a run
without trouble begins again and again, and at some of these the row of a given
title is due. A result that raises an exception in every run is excluded by this:
it would end the search there for good, since the results behind it come after it
in every run. `Process!FairSpec`: what is started goes on and a task comes to an
end (every call has a timeout); the number of signals and kills is bounded, for a
process that is killed for ever is never up.

## Findings

- `completed_stays`: `mark_stalled` overwrites any result (`database.py:302-315`), and
  a supersession marks every torrent of the movie that is in the client, also one
  that is Completed and only kept to be seeded, or that completes between the listing
  and the mark (`search.py:250`). Its row then is Stalled, is expired and forgotten, and the
  title can be queued again, although the design document
  (`docs/specs/2026-05-03-torrent-status-tracking-design.md:34`) calls Completed
  "permanent — never retried". Queue management reaches the same mark, but takes
  a listing of stuck torrents only, and these complete only while it works on it.
- `library_settles`: with `delete_lower_quality` and without `remove_completed`,
  post-processing copies every finished torrent again at every run, and two of
  one edition delete each other's file for ever, although they were queued as a
  proper upgrade.
- `config_backup`: a crash during the rewrite leaves an empty file, which the
  next start takes for version 1.0.0 and copies over the backup of that version.
  The only copy of the settings is lost if the original was of that version or
  had none.
- `selection_alternates`: the history table has no columns for the other titles
  of a foreign movie. Once one release of it has a row, every later one is judged
  on metadata without them, and is queued although the library has a better
  file under another title.

Met while modelling, and not the subject of a run:

- A file that differs from the one to copy and cannot be deleted is accepted in its
  place (`file_utils.py:130-159`), as the docstrings at 103-106 and 242-246 say, and
  the release is recorded as Completed over it and its torrent may be removed. This
  holds of any failed deletion, not only of immutable files, and also of a file that
  an earlier copy of the same release left unfinished.
- The migration to 2.18.0 converts `hook_timeout_secs` to minutes with one decimal
  and drops what does not come out above 0.0 (`config.py:286-302`): a timeout of two
  seconds becomes the default of five minutes, although the docstring (276) says
  that any existing value is converted. `CarriedOver` leaves such a value out.
- The user's README says that an override accepts a movie "bypassing all other
  filters" (166), and that "All filter checks (rating, votes, genre, year, etc.) are
  bypassed" (400-402). The code (`filters.py:205-220`) has the gates of kind, genre
  and bitrate before the override, waives the rating and the votes only, and goes on
  to the library check, as its own comment at 219 says. `PassedIsAllowed` and
  `UpgradesLibrary` state what the code does, and their comments name the
  difference.
- The web search takes a page with the right name and no year for the movie
  (`imdb_search.py:361-362`). It can be another movie's page: the instance of
  `selection` has one, and a release is judged by the metadata of that movie.
  `RightMovie` allows this one mistake and no other.
- Two of the three tasks can read `alert_sent` before either sets it, and both
  send the alert of one outage. `SingleAlert` is stated for a service with one
  caller.
- With `delete_lower_quality` and without supersession, two releases that are
  queued before either is copied both passed the library check; the one copied
  last deletes the other one's file, also when it is the lesser one.
- Two releases of one movie refresh each other's cached metadata
  (`database.py:482`, newest row): a row that is written from the cache can be
  read for the next release before it expires, so that a rating that was too low
  once stays. `Reconsidered` is about movies with one release.
- A result whose index id redirects is stored under the new id, and is looked up
  under the old one (`imdb_metadata.py:68`): it never finds the cache.
- The gates of genres let a movie without genres pass; all other gates of kind
  refuse what is not known.
- Nothing checks `jackett.limit` (`config.py:563`). With 0 the offset of
  `jackett.py:107-130` stays where it is, and the first page is asked for again and
  again until it is empty; the model assumes a positive limit.
- The comment at `parsing.py:296-298` says that resolution dominates source, source
  audio, and audio HDR. The distances of the scores do not do that (theorem
  `NoTableDominates`): a 1080p remux supersedes a 2160p Blu-ray in the queue. The
  library check compares resolutions first, so that supersession can delete a download
  that the library would prefer to the new one (theorem `ComparisonsDisagree`).
- A second process that opens the database at the same time can end both, by a
  statement that the other was faster with (`database.py:51`). A process alone
  never ends that way (theorem `LoneStartSucceeds`).
- The PID file is removed while tasks still run, and by any second process that
  ends, whoever wrote it.

## Proofs

`Movarr_proofs`, for all titles, tags, scores and settings, from the named
assumptions of `History` and `Movarr`:

- `TypeCorrect`: `TypeOK` is inductive.
- `OneRow`: not inductive by itself. `OneRowInv` adds that while the search is
  between the duplicate check and the write, its title has no row; only the search
  thread inserts, and expiry and the marks keep titles.
- `OneTitlePerTag`: `TagInv` adds that every tag in use, in either store or in a
  thread's hands, is below `nextTag`, so that a fresh tag meets none.
- `SupersessionJustified`: `SupersedeInv` carries what `Supersede` compared
  through the add and the write until the last deletion, and the row of the new
  torrent through the marks of the others.
- `CompletedCopied`: `CopiedInv` says that a thread about to mark has copied, and
  uses `TagInv`: the mark by tag hits the row of the torrent that was copied.
- `FollowsLifecycleButForDemotion`: every step of `Spec` is a step of `Lifecycle`,
  leaves `status` alone, or demotes a Completed title to Stalled. `QueuedInv` says that
  a tag in a thread's hands belongs to a row that was queued, or to none.

`MovarrClean_proofs`, on the same module:

- `StalledAreGone`: `StalledIsGone`, whatever fails. The inductive invariant `Clean` says that
  a torrent that is added but not yet listed has not been seen by any task, that
  what queue management has deleted stays away, and that a Stalled row names no
  torrent but one that a better release has outranked; it is inductive only together
  with `TagInv`, `QueuedInv` and `SupersedeInv`.
- `EveryTorrentHasRow`: an orphan, a torrent of movarr's without a row, only comes from a
  fault or from the expiry of a Passed row. These two are guards in the definition
  that the theorem is about (`NoOrphan`), so that it has no further assumption.

`ServiceHealth_proofs`, for every threshold and window:

- `SingleCaller` and `FlagOfStreak`: with one checking task and no interruption,
  `SingleAlert` and `FlagFollowsStreak` hold. The assumption is the reason why the
  torrent client's alert can be sent twice and the proxy's cannot.
- `ImplementsOutage`, under the same assumption: every step is a step of `Outage`
  or leaves age and alerts alone. `StreakInv` says that the task starts a streak only
  where there is none and alerts only about one as old as the threshold, because
  nobody touches the keys between its reads and its writes; `SingleCaller`'s
  invariant, that it alerts at most once.
- `BreakerIsNotExtended`: while the breaker is open its age only grows, so that it
  closes. One checking task is assumed, faults are not excluded: a check that still
  has to record its search began with the circuit closed, and nobody else has
  opened it since (`BreakerInv`).

`Selection_proofs`, for all feeds, hits, reports, libraries and settings that
satisfy the named assumptions: `TypeCorrect`; `CompleteWhenSuccess`, by an
invariant on what lies behind the place of the run in tiers, pages and items;
`JudgedByItsMovie`, from `IdentityAssumption` and the id that is carried from step
to step, with the undated page as an exception that the theorem states; `AllowedWhenPassed` and `BeatsLibrary`, which look into the gates of
`Filters`; `ImplementsLifecycle`; and `RunsAdvance`, by the order of tiers, pages,
results and stages. With the types it bounds the run: as `Feed` and `Pages` are
finite, a run takes finitely many steps, so that of `EveryResultDecided` only the
fairness is left to TLC.

`Process_proofs`, for any number of processes, tasks and kills: `VersionIsTrue`,
`TasksFindSchema` and `OutageIsKept`, from an invariant that says what each
process knows to be there at its place in the upgrade, and that nothing is ever
dropped. `LoneStartSucceeds` is about one process: `LoneInv` adds that what it found
missing is missing until it creates it, and that the index is never there without
its table. With two processes this fails, in both the creation of tables and the
adding of columns, so that the theorem's assumption cannot be dropped.

`Configuration_proofs`, for any files a user may have:

- `SettingsAreKept`: the user's file is only ever replaced by one without a version
  or of the current one, so that no later backup takes the place of its own.
  `BackupSurvives` fails exactly where this breaks: the empty file a crash leaves
  has no version and is backed up under the name of version 1.0.0, like the user's
  file before it.
- `MigratedCarries`: what the chain makes of a file: every setting arrives at its place, but
  for three that migrations drop or set anew and a timeout that comes to 0.0 minutes. `Migrated` is a recursive
  function, and the library's induction takes an operator as parameter, which
  the provers cannot instantiate. `LeastCounterexample` does the induction without
  one: a set of numbers that does not hold all of them misses a least one, from
  the well-foundedness of `<` on the naturals. With it `MigratedIsChain` says that
  the recursion is a chain of single migrations, and `IntervalInduction` carries a
  fact from the file's version to the current one; `Place` is where a setting
  stands at a version on the way.
- `SettingsAreCarried`: `CarriedOver` for all files of `Hand` that fit the schema of
  their version (`FitsSchema`): no setting under a name that version did not have.
  Without it the statement is false for a file that has both the old and the new
  name of a setting, one of which the program of that version did not read; TLC
  evaluates that the files of the run fit. That writing keeps the schema
  (`ClosedUnderWrites`) is part of the proof.
- `RestartsAreStable`, without that assumption: what is written back has every
  default in it, and what is stripped had no effect.

`Library_proofs`: `TypeCorrect`, `HalfFilesAreRecoverable`, `NothingIsLost` and
`CompletedAreWhole` from `LibraryInv`: a release whose copy is under way has its
torrent, a name is on the shelf once, what is being deleted excludes the files
just copied, and each of these is whole or was accepted. `CompletedAreWhole`
assumes that the files of one release have distinct library names: the copy is
flat, and of two files with one name the later replaces the earlier.

`RunOnce_proofs`: `SupersessionIsAnOrder` and `LibraryIsAnOrder` show, for all
names, that the comparisons with their pairwise bonuses order names by a worth of
their own. `NoTableDominates` gives, for each two neighbouring tables, two names that
differ in nothing else and that the sums put in the other order than the tables'
comment. `ComparisonsAgree` and `ComparisonsDisagree` say how far the order of the
queue is that of the library: for names that differ in source and group only.
`DeletesForUpgrades` and `NoReplacementCycle` follow for any releases
from `ReplaceInv`, which needs supersession: there is one torrent of a movie at a
time, the check it passed still holds until it is copied, and a file above every
replaced one is in the library.

Every invariant, action property and refinement that the passing runs check is
proved. Only model-checked is liveness (`NothingBlockedForever`, `OutageAlerted`,
`CircuitCloses`, `TableHeals`, `EveryResultDecided`, `Reconsidered`,
`SignalEndsProcess`, `AllUp`), which is out of the prover's reach; for two of them
a theorem has the safety half, `BreakerIsNotExtended` and `RunsAdvance`.

## Not modelled

The regular expressions that take a title apart, and how names are normalised and
compared; HTTP, the decoding of answers, the reachability probe, the conversion
of language and country names; notification texts; the routing of files to
destinations by genre, certification and resolution, which reads the metadata
and the configuration and changes nothing; poster art; the processes of hooks;
validation of settings; the command line; the fuzzy duplicate check, `has_passed`,
the verified flag and vacuum, which no task uses. Some behaviours
are in the models without a property, because no document says what should
happen: a title that is added again while its torrent is still in the client, an
orphan left by a crash between `add_torrent` and `write`, two torrents of a
movie that do not see each other in the client's list, the rewrite of a current
configuration without a backup.

## Plan

Done, most important first: `History`, `Lifecycle`, `Movarr` with its refinement;
`ServiceHealth`; `Library`; `Quality` and `RunOnce`; `Configuration`; `Filters` and
`Selection` with its refinement; `Process`; the theorems above. Left:

1. `Routing`: the destination rules of `post_processor.py`, as operators.
2. The order of the torrents in post-processing, where one that raises an
   exception holds up those behind it.
3. `Selection` and `Movarr` in one module, with two searches of one movie in the
   queue judged on each other's metadata.
