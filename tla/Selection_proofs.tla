--------------------------- MODULE Selection_proofs ---------------------------
(***************************************************************************)
(* Proofs about Selection: what is written of a title is about its movie,  *)
(* or one it can be mistaken for, and satisfies the filters, a run that counts as a success has decided   *)
(* everything, and the table implements Lifecycle.  For any feed, any      *)
(* library, any settings and any answers of the services.                  *)
(***************************************************************************)
EXTENDS Selection, TLAPS

InHand == {"item", "id", "metadata"}   \* stages with a result in hand

(* The metadata of a row is that of a movie its title can be taken for,    *)
(* and the id the row is found by is of the same movie: a row that a later *)
(* result takes its metadata from never mixes two movies.                  *)
RowsInv ==
  \A t \in Titles : row[t] # NoRow /\ row[t].meta # NoMeta =>
    /\ row[t].meta.movie \in Plausible(t)
    /\ row[t].id \in Ids /\ MovieOf[row[t].id] = row[t].meta.movie

(* The result in hand is one of a page that was asked for; it has no row   *)
(* from the duplicate check on, an id is searched for only if the index    *)
(* gave none, and the id it got is of a movie it can be taken for.         *)
HandInv ==
  /\ run.at \in InHand =>
       /\ run.tier \in DOMAIN Feed /\ run.page \in DOMAIN Feed[run.tier] /\ run.page \in 1..Pages
       /\ run.items # <<>>
  /\ run.at \in {"id", "metadata"} => row[Head(run.items)] = NoRow
  /\ run.at = "id" => Release[Head(run.items)].id = NoId
  /\ run.at = "metadata" =>
       run.id \in Ids /\ MovieOf[run.id] \in Plausible(Head(run.items))

(* What was queued passed the filters with what is known of the movie.     *)
Satisfies(t, m) ==
  \/ Overridden(Release[t], m)
  \/ /\ KindAccepted(m) /\ GenresAccepted(m)
     /\ BitrateAccepted(Release[t], m) /\ RatedWell(m)

Upgrades(t, m) ==
  Settings.library /\ ~m.foreign => \A f \in OwnFiles(m) : Beats(Release[t], f)

Allowed(t, meta) ==
  /\ meta \in Metas
  /\ Satisfies(t, Fresh(meta)) /\ Upgrades(t, Report[meta.source][meta.movie])

PassedInv == \A t \in Titles : row[t].result = "Passed" => Allowed(t, row[t].meta)

Seen(t) == OutOfScope(t) \/ Decided(t)

(* As long as no page was missed, what lies behind is decided.             *)
CoverInv ==
  /\ run.at # "idle" /\ ~run.failed =>
       /\ \A k \in 1..run.tier - 1 : \A p \in DOMAIN Feed[k] :
            Offered(k, p) => \A t \in Titles : On(t, k, p) => Seen(t)
       /\ run.tier \in DOMAIN Feed =>
            \A p \in 1..run.page - 1 : \A t \in Titles :
              p \in DOMAIN Feed[run.tier] /\ On(t, run.tier, p) => Seen(t)
       /\ run.at \in InHand =>
            \A t \in Titles : On(t, run.tier, run.page) =>
              Seen(t) \/ \E i \in DOMAIN run.items : run.items[i] = t
  /\ told = "success" => run.at = "idle" /\ SuccessIsComplete

Runs == [at : Stages, tier : 1..Len(Feed) + 1, page : 1..Pages + 1, items : Seq(Titles),
         id : Ids \cup {NoId}, failed : BOOLEAN, troubled : BOOLEAN]

TableInv == /\ row \in [Titles -> Rows \cup {NoRow}] /\ after \subseteq Titles \X Titles
            /\ RowsInv /\ PassedInv

RunInv == run \in Runs /\ HandInv /\ CoverInv

IInv == TableInv /\ rating \in [Movies -> 0..100] /\ RunInv

-----------------------------------------------------------------------------
(* The sources of an id and of metadata. *)

(* A strategy finds an id of a movie the release can be taken for, or      *)
(* none: of its own movie when the page shows the year.                    *)
LEMMA FoundIsPlausible ==
  ASSUME NEW t \in Titles, Release[t].id = NoId,
         NEW n \in DOMAIN Strategies, NEW id \in FoundBy(Strategies[n], t)
  PROVE  id \in Ids /\ MovieOf[id] \in Plausible(t)
<1> DEFINE s == Strategies[n]
<1>1. s \in DOMAIN Hits
  BY ReportAssumption DEF Strategies
<1> HIDE DEF s
<1>2. PICK i \in Matching(s, t) : id = Hits[s][t][i].id
  BY DEF FoundBy, s
<1>3. id # NoId
  BY DEF FoundBy
<1>4. i \in DOMAIN Hits[s][t] /\ HitMatches(s, Hits[s][t][i], Release[t])
  BY <1>2 DEF Matching
<1>5. id \in Ids
  BY <1>1, <1>2, <1>3, <1>4, IdentityAssumption
<1>6. CASE Release[t].year \in Hits[s][t][i].years
  <2>1. Release[t].title \in Hits[s][t][i].names
    BY <1>4 DEF HitMatches
  <2>2. MovieOf[id] = Release[t].movie
    BY <1>1, <1>2, <1>3, <1>4, <1>6, <2>1, IdentityAssumption
  <2> QED  BY <1>5, <2>2 DEF Plausible
<1>7. CASE Release[t].year \notin Hits[s][t][i].years
  <2>1. s = "duckduckgo" /\ Hits[s][t][i].years = {} /\ Release[t].title \in Hits[s][t][i].names
    BY <1>4, <1>7 DEF HitMatches
  <2>2. id \in Undated(t)
    BY <1>2, <1>3, <1>4, <2>1 DEF Undated
  <2>3. MovieOf[id] \in MistakenFor(t)
    BY <2>2 DEF MistakenFor
  <2> QED  BY <1>5, <2>3 DEF Plausible
<1> QED  BY <1>6, <1>7

(* Metadata, from the table or from a provider, is of the movie of the id. *)
LEMMA SourceIsRight ==
  ASSUME row \in [Titles -> Rows \cup {NoRow}], rating \in [Movies -> 0..100], RowsInv,
         NEW id \in Ids, NEW src \in Sources(id)
  PROVE  /\ src.id \in Ids /\ MovieOf[src.id] = MovieOf[id]
         /\ src.meta \in Metas \cup {NoMeta}
         /\ src.meta # NoMeta => /\ src.meta.movie = MovieOf[id]
                                 /\ src.full = Fresh(src.meta) \/ src.full = Stored(src.meta)
<1>1. CASE CachedRows(id) # {}
  <2>1. PICK m \in FindImdbMetadata(id) : src = [id |-> id, meta |-> m, full |-> Stored(m)]
    BY <1>1 DEF Sources
  <2>2. PICK t \in CachedRows(id) : m = row[t].meta
    BY DEF FindImdbMetadata
  <2>3. t \in Titles /\ row[t] # NoRow /\ row[t].id = id /\ row[t].meta # NoMeta
    BY DEF CachedRows
  <2>4. row[t] \in Rows
    BY <2>3
  <2>5. m \in Metas /\ m.movie = MovieOf[id]
    BY <2>2, <2>3, <2>4 DEF Rows, RowsInv
  <2> QED  BY <2>1, <2>5
<1>2. CASE CachedRows(id) = {}
  <2>1. PICK f \in Fetched(id) :
          src = [id |-> f.id, meta |-> f.meta,
                 full |-> IF f.meta = NoMeta THEN NoMeta ELSE Fresh(f.meta)]
    BY <1>2 DEF Sources
  <2>2. \A source \in Providers : Reported(source, id) \in Metas /\ Reported(source, id).movie = MovieOf[id]
    BY IdsAssumption DEF Reported, Metas
  <2>3. f.id \in {id, Canonical[id]}
    BY DEF Fetched
  <2>4. f.meta \in {Reported("imdbpie", id), Reported("omdb", id), NoMeta}
    BY DEF Fetched
  <2>5. f.id \in Ids /\ MovieOf[f.id] = MovieOf[id]
    BY <2>3, IdsAssumption
  <2>6. f.meta = NoMeta \/ (f.meta \in Metas /\ f.meta.movie = MovieOf[id])
    BY <2>2, <2>4 DEF Providers
  <2> QED  BY <2>1, <2>5, <2>6
<1> QED  BY <1>1, <1>2

(* What the filters look at in stored metadata, besides the other titles,  *)
(* is what was fetched.                                                    *)
LEMMA FullIsFresh ==
  ASSUME NEW meta \in Metas, NEW full, full = Fresh(meta) \/ full = Stored(meta)
  PROVE  LET m == Fresh(meta)
             n == Report[meta.source][meta.movie] IN
         /\ full.type = m.type /\ full.year = m.year /\ full.runtime = m.runtime
         /\ full.languages = m.languages /\ full.countries = m.countries
         /\ full.genres = m.genres /\ full.credits = m.credits
         /\ full.rating = m.rating /\ full.votes = m.votes
         /\ full.title = n.title /\ full.year = n.year
         /\ full.foreign => n.foreign
<1> DEFINE m == Fresh(meta)
           n == Report[meta.source][meta.movie]
<1>1. {"title", "year", "type", "genres", "runtime", "rating", "votes", "languages",
       "countries", "credits", "foreign", "alternates"} \subseteq DOMAIN n
  BY ReportAssumption DEF Metas, Providers
<1>2. m = [n EXCEPT !.rating = meta.rating]
  BY DEF Fresh
<1>3. Stored(meta) = [m EXCEPT !.foreign = FALSE, !.alternates = {}]
  BY DEF Stored
<1> HIDE DEF m, n
<1>4. m.title = n.title /\ m.year = n.year /\ m.foreign = n.foreign /\ DOMAIN m = DOMAIN n
  BY <1>1, <1>2
<1>5. CASE full = m
  BY <1>4, <1>5 DEF m, n
<1>6. CASE full = Stored(meta)
  <2>1. full = [m EXCEPT !.foreign = FALSE, !.alternates = {}]
    BY <1>3, <1>6
  <2>2. /\ full.type = m.type /\ full.year = m.year /\ full.runtime = m.runtime
        /\ full.languages = m.languages /\ full.countries = m.countries
        /\ full.genres = m.genres /\ full.title = m.title
    BY <1>1, <1>4, <2>1
  <2>3. full.credits = m.credits /\ full.rating = m.rating /\ full.votes = m.votes
    BY <1>1, <1>4, <2>1
  <2>4. full.foreign = FALSE
    BY <1>1, <1>4, <2>1
  <2> QED  BY <1>4, <2>2, <2>3, <2>4 DEF m, n
<1> QED  BY <1>5, <1>6 DEF m

(* The gates of rating and votes look at the genres, the rating and the    *)
(* votes alone.                                                            *)
LEMMA RatedAlike ==
  ASSUME NEW m, NEW n, m.genres = n.genres, m.rating = n.rating, m.votes = n.votes, RatedWell(m)
  PROVE  RatedWell(n)
<1>1. \A kind : Overriding(m, kind) = Overriding(n, kind)
  BY DEF Overriding
<1>2. \A kind : Minimum(m, kind) = Minimum(n, kind)
  BY <1>1 DEF Minimum
<1> QED  BY <1>2 DEF RatedWell

(* What the filters accept satisfies the user's gates, and beats the files *)
(* the library has under IMDb's title and year.                            *)
LEMMA AcceptedSatisfies ==
  ASSUME NEW t \in Titles, NEW meta \in Metas, NEW full,
         full = Fresh(meta) \/ full = Stored(meta),
         TRUE \in FilterByImdb(Release[t], full, Walk)
  PROVE  Allowed(t, meta)
<1> DEFINE m == Fresh(meta)
           n == Report[meta.source][meta.movie]
           r == Release[t]
<1>1. /\ full.type = m.type /\ full.year = m.year /\ full.runtime = m.runtime
      /\ full.languages = m.languages /\ full.countries = m.countries
      /\ full.genres = m.genres /\ full.credits = m.credits
      /\ full.rating = m.rating /\ full.votes = m.votes
      /\ full.title = n.title /\ full.year = n.year
      /\ full.foreign => n.foreign
  BY FullIsFresh
<1> HIDE DEF m, n, r
<1>2. MetadataAccepted(r, full) /\ TRUE \in CanonicalVerdicts(r, full, Walk)
  BY DEF FilterByImdb, r
<1>3. KindAccepted(m)
  <2>1. KindAccepted(full)  BY <1>2 DEF MetadataAccepted
  <2> QED  BY <1>1, <2>1 DEF KindAccepted
<1>4. GenresAccepted(m)
  <2>1. GenresAccepted(full)  BY <1>2 DEF MetadataAccepted
  <2>2. GenresOf(full) = GenresOf(m)  BY <1>1 DEF GenresOf
  <2> QED  BY <1>1, <2>1, <2>2 DEF GenresAccepted
<1>5. BitrateAccepted(r, m)
  BY <1>1, <1>2 DEF MetadataAccepted, BitrateAccepted
<1>6. Overridden(r, m) \/ RatedWell(m)
  <2>1. CASE Overridden(r, full)
    BY <1>1, <2>1 DEF Overridden
  <2>2. CASE RatedWell(full)
    BY <1>1, <2>2, RatedAlike
  <2> QED  BY <1>2, <2>1, <2>2 DEF MetadataAccepted
<1>7. ASSUME Settings.library, ~n.foreign, NEW f \in OwnFiles(n)
      PROVE  Beats(r, f)
  <2>1. TitleVariants(full) = {n.title}
    BY <1>1, <1>7 DEF TitleVariants
  <2>2. FilesFor(n.title, r, full, Walk) = OwnFiles(n)
    BY <1>1, <1>7 DEF FilesFor, OwnFiles
  <2>3. {FilesFor(x, r, full, Walk) : x \in TitleVariants(full)} \ {{}} = {OwnFiles(n)}
    BY <1>7, <2>1, <2>2
  <2>4. \/ CanonicalVerdicts(r, full, Walk) = {FALSE}
        \/ CanonicalVerdicts(r, full, Walk) = {\A g \in F : Beats(r, g) : F \in {OwnFiles(n)}}
    BY <1>7, <2>3 DEF CanonicalVerdicts
  <2>5. TRUE \in {\A g \in F : Beats(r, g) : F \in {OwnFiles(n)}}
    BY <1>2, <2>4
  <2>6. \A g \in OwnFiles(n) : Beats(r, g)
    BY <2>5
  <2> QED  BY <1>7, <2>6
<1>8. Satisfies(t, m)
  BY <1>3, <1>4, <1>5, <1>6 DEF Satisfies, r
<1>9. Upgrades(t, n)
  BY <1>7 DEF Upgrades, r
<1> QED  BY <1>8, <1>9 DEF Allowed, m, n
-----------------------------------------------------------------------------
(* The table: what a Write and a Forget keep. *)

LEMMA WriteKeeps ==
  ASSUME TableInv, NEW t \in Titles, NEW result \in {"Failed", "Passed"},
         NEW id \in Ids \cup {NoId}, NEW meta \in Metas \cup {NoMeta},
         meta # NoMeta => /\ meta.movie \in Plausible(t)
                          /\ id \in Ids /\ MovieOf[id] = meta.movie,
         result = "Passed" => Allowed(t, meta),
         Write(t, result, id, meta)
  PROVE  TableInv' /\ Decided(t)' /\ \A u \in Titles : Decided(u) => Decided(u)'
<1> DEFINE new == [result |-> result, id |-> id, meta |-> meta]
<1>1. row' = [row EXCEPT ![t] = new]
  BY DEF Write
<1>2. new \in Rows /\ new # NoRow
  BY DEF Rows, NoRow
<1>3. /\ row' \in [Titles -> Rows \cup {NoRow}]
      /\ row'[t] = new /\ \A u \in Titles \ {t} : row'[u] = row[u]
  BY <1>1, <1>2 DEF TableInv
<1>4. after' \subseteq Titles \X Titles
  <2>1. CachedRows(id) \subseteq Titles
    BY DEF CachedRows
  <2> QED  BY <2>1 DEF Write, TableInv
<1>5. RowsInv'
  BY <1>3 DEF RowsInv, TableInv
<1>6. PassedInv'
  <2> SUFFICES ASSUME NEW u \in Titles, row'[u].result = "Passed"
               PROVE  Allowed(u, row'[u].meta)
    BY DEF PassedInv, Allowed
  <2>1. CASE u = t
    BY <1>3, <2>1
  <2>2. CASE u # t
    BY <1>3, <2>2 DEF TableInv, PassedInv, Allowed
  <2> QED  BY <2>1, <2>2
<1>7. Decided(t)' /\ \A u \in Titles : Decided(u) => Decided(u)'
  BY <1>2, <1>3 DEF Decided
<1> QED  BY <1>3, <1>4, <1>5, <1>6, <1>7 DEF TableInv

LEMMA ForgetKeeps ==
  ASSUME TableInv, NEW S \in SUBSET Titles, Forget(S)
  PROVE  TableInv'
<1>1. /\ row' \in [Titles -> Rows \cup {NoRow}]
      /\ \A t \in Titles : row'[t] = NoRow \/ row'[t] = row[t]
  BY DEF Forget, TableInv
<1>2. after' \subseteq Titles \X Titles
  BY DEF Forget, TableInv
<1>3. RowsInv'
  BY <1>1 DEF RowsInv, TableInv
<1>4. PassedInv'
  <2> SUFFICES ASSUME NEW u \in Titles, row'[u].result = "Passed"
               PROVE  Allowed(u, row'[u].meta)
    BY DEF PassedInv, Allowed
  <2>1. row'[u] = row[u]
    BY <1>1 DEF NoRow
  <2> QED  BY <2>1 DEF TableInv, PassedInv, Allowed
<1> QED  BY <1>1, <1>2, <1>3, <1>4 DEF TableInv

-----------------------------------------------------------------------------
(* The run: what it means to go on with the next item and the next tier. *)

(* The result in hand is done with: it is decided, or out of scope. *)
LEMMA ItemDone ==
  ASSUME RunInv, run.at \in InHand, run' = NextItem(run), told' = told,
         \A u \in Titles : Decided(u) => Decided(u)',
         NEW h \in Titles, h = Head(run.items), OutOfScope(h) \/ Decided(h)'
  PROVE  RunInv'
<1>1. /\ run \in Runs /\ run.tier \in DOMAIN Feed /\ run.page \in DOMAIN Feed[run.tier]
      /\ run.page \in 1..Pages /\ run.items # <<>>
  BY DEF RunInv, HandInv
<1>2. /\ run.items \in Seq(Titles) /\ run.page + 1 \in 1..Pages + 1 /\ run.tier \in Nat
      /\ run.page \in Nat
  BY <1>1, FeedAssumption DEF Runs
<1>3. /\ Tail(run.items) \in Seq(Titles) /\ Len(Tail(run.items)) = Len(run.items) - 1
      /\ Len(run.items) \in Nat \ {0}
      /\ \A i \in 1..Len(Tail(run.items)) : Tail(run.items)[i] = run.items[i + 1]
      /\ Head(run.items) = run.items[1]
  BY <1>1, <1>2
<1>4. \A t \in Titles : Seen(t) => Seen(t)'
  BY DEF Seen
<1>5. run.items[1] = h /\ Seen(h)'
  BY <1>2, <1>3 DEF Seen
<1>6. told # "success"
  BY DEF RunInv, CoverInv, InHand
<1>7. ~run.failed =>
        /\ \A k \in 1..run.tier - 1 : \A p \in DOMAIN Feed[k] :
             Offered(k, p) => \A t \in Titles : On(t, k, p) => Seen(t)'
        /\ \A p \in 1..run.page - 1 : \A t \in Titles :
             p \in DOMAIN Feed[run.tier] /\ On(t, run.tier, p) => Seen(t)'
        /\ \A t \in Titles : On(t, run.tier, run.page) =>
             Seen(t)' \/ \E i \in 2..Len(run.items) : run.items[i] = t
  <2>1. run.at # "idle"
    BY DEF InHand
  <2>2. DOMAIN run.items = 1..Len(run.items)
    BY <1>2
  <2>3. ASSUME NEW i \in 1..Len(run.items), i # 1
        PROVE  i \in 2..Len(run.items)
    BY <1>3, <2>3
  <2>4. ASSUME ~run.failed, NEW t \in Titles, On(t, run.tier, run.page)
        PROVE  Seen(t)' \/ \E i \in 2..Len(run.items) : run.items[i] = t
    <3>1. Seen(t) \/ \E i \in 1..Len(run.items) : run.items[i] = t
      BY <2>1, <2>2, <2>4 DEF RunInv, CoverInv
    <3>2. CASE Seen(t)
      BY <1>4, <3>2
    <3>3. ASSUME NEW i \in 1..Len(run.items), run.items[i] = t
          PROVE  Seen(t)' \/ \E j \in 2..Len(run.items) : run.items[j] = t
      BY <1>5, <2>3, <3>3
    <3> QED  BY <3>1, <3>2, <3>3
  <2>5. ASSUME ~run.failed, NEW k \in 1..run.tier - 1, NEW p \in DOMAIN Feed[k], Offered(k, p),
               NEW t \in Titles, On(t, k, p)
        PROVE  Seen(t)'
    BY <1>4, <2>1, <2>5 DEF RunInv, CoverInv
  <2>6. ASSUME ~run.failed, NEW p \in 1..run.page - 1, NEW t \in Titles,
               p \in DOMAIN Feed[run.tier], On(t, run.tier, p)
        PROVE  Seen(t)'
    BY <1>1, <1>4, <2>1, <2>6 DEF RunInv, CoverInv
  <2> QED  BY <2>4, <2>5, <2>6
<1>8. CASE Len(run.items) = 1
  <2>1. run' = [run EXCEPT !.at = "fetch", !.page = @ + 1, !.items = <<>>, !.id = NoId]
    BY <1>8 DEF NextItem
  <2>2. /\ run'.at = "fetch" /\ run'.tier = run.tier /\ run'.page = run.page + 1
        /\ run'.failed = run.failed /\ run' \in Runs
    <3>1. run.page + 1 \in 1..Pages + 1 /\ <<>> \in Seq(Titles)
      BY <1>2
    <3> QED  BY <1>1, <2>1, <3>1 DEF Runs, Stages
  <2>3. HandInv'
    BY <2>2 DEF HandInv, InHand
  <2>4. ~run.failed => \A t \in Titles : On(t, run.tier, run.page) => Seen(t)'
    BY <1>7, <1>8
  <2>5. ~run.failed => \A p \in 1..run'.page - 1 : \A t \in Titles :
          p \in DOMAIN Feed[run.tier] /\ On(t, run.tier, p) => Seen(t)'
    <3>1. \A p \in 1..run'.page - 1 : p = run.page \/ p \in 1..run.page - 1
      BY <1>2, <2>2
    <3> QED  BY <1>7, <2>4, <3>1
  <2>6. CoverInv'
    BY <1>6, <1>7, <2>2, <2>5 DEF CoverInv, InHand
  <2> QED  BY <2>2, <2>3, <2>6 DEF RunInv
<1>9. CASE Len(run.items) # 1
  <2>1. run' = [run EXCEPT !.at = "item", !.items = Tail(@), !.id = NoId]
    BY <1>9 DEF NextItem
  <2>2. /\ run'.at = "item" /\ run'.tier = run.tier /\ run'.page = run.page
        /\ run'.items = Tail(run.items) /\ run'.failed = run.failed /\ run' \in Runs
    BY <1>1, <1>3, <2>1 DEF Runs, Stages
  <2>3. HandInv'
    <3>1. Len(Tail(run.items)) # 0
      BY <1>3, <1>9
    <3>2. Len(<<>>) = 0
      OBVIOUS
    <3>3. Tail(run.items) # <<>>
      BY <3>1, <3>2
    <3> QED  BY <1>1, <2>2, <3>3 DEF HandInv, InHand
  <2>4. ~run.failed => \A t \in Titles : On(t, run.tier, run.page) =>
          Seen(t)' \/ \E i \in DOMAIN run'.items : run'.items[i] = t
    <3>1. DOMAIN run'.items = 1..Len(Tail(run.items))
      BY <1>3, <2>2
    <3>2. ASSUME NEW i \in 2..Len(run.items)
          PROVE  i - 1 \in DOMAIN run'.items /\ run'.items[i - 1] = run.items[i]
      BY <1>3, <2>2, <3>1
    <3> QED  BY <1>7, <3>2
  <2>5. CoverInv'
    BY <1>6, <1>7, <2>2, <2>4 DEF CoverInv, InHand
  <2> QED  BY <2>2, <2>3, <2>5 DEF RunInv
<1> QED  BY <1>8, <1>9

(* The tier is over: nothing more of it is offered, or a page failed. *)
LEMMA TierDone ==
  ASSUME RunInv, run.at = "fetch", run.tier <= Len(Feed), row' = row, told' = told,
         \/ PageOf(run) = <<>> /\ run' = NextTier(run)
         \/ run' = NextTier([run EXCEPT !.failed = TRUE])
  PROVE  RunInv'
<1>1. run \in Runs /\ run.tier \in 1..Len(Feed) /\ DOMAIN Feed = 1..Len(Feed) /\ Len(Feed) \in Nat
      /\ Pages \in Nat
  BY FeedAssumption DEF RunInv, Runs
<1>2. /\ run'.at = "fetch" /\ run'.tier = run.tier + 1 /\ run'.page = 1
      /\ run' \in Runs
      /\ ~run'.failed => ~run.failed /\ PageOf(run) = <<>>
  <2>1. 1 \in 1..Pages + 1 /\ run.tier + 1 \in 1..Len(Feed) + 1 /\ <<>> \in Seq(Titles)
    BY <1>1
  <2> QED  BY <1>1, <2>1 DEF NextTier, Runs, Stages
<1>3. HandInv'
  BY <1>2 DEF HandInv, InHand
<1>4. \A t \in Titles : Seen(t)' <=> Seen(t)
  BY DEF Seen, Decided
<1>5. ASSUME ~run'.failed, NEW k \in 1..run'.tier - 1, NEW p \in DOMAIN Feed[k], Offered(k, p),
             NEW t \in Titles, On(t, k, p)
      PROVE  Seen(t)
  <2>1. CASE k = run.tier
    <3>1. run.page \in Nat \ {0} /\ p \in Nat \ {0} /\ p <= Pages
      <4>1. Feed[k] \in Seq(Seq(Titles))
        BY <1>1, <2>1, FeedAssumption
      <4> QED  BY <1>1, <1>5, <4>1 DEF Runs, Offered
    <3>2. p < run.page
      <4>1. SUFFICES ASSUME run.page <= p
                     PROVE  FALSE
        BY <3>1
      <4>2. run.page \in 1..p /\ run.page <= Pages
        BY <1>1, <3>1, <4>1
      <4>3. run.page \in DOMAIN Feed[k] /\ Feed[k][run.page] # <<>>
        BY <1>5, <4>2 DEF Offered
      <4> QED  BY <1>2, <1>5, <2>1, <4>2, <4>3 DEF PageOf
    <3>3. p \in 1..run.page - 1
      BY <3>1, <3>2
    <3> QED  BY <1>1, <1>2, <1>5, <2>1, <3>3 DEF RunInv, CoverInv
  <2>2. CASE k # run.tier
    <3>1. k \in 1..run.tier - 1
      BY <1>1, <1>2, <2>2
    <3> QED  BY <1>2, <1>5, <3>1 DEF RunInv, CoverInv
  <2> QED  BY <2>1, <2>2
<1>6. told # "success"
  BY DEF RunInv, CoverInv
<1>7. CoverInv'
  BY <1>2, <1>4, <1>5, <1>6 DEF CoverInv, InHand
<1> QED  BY <1>2, <1>3, <1>7 DEF RunInv

LEMMA FetchKeeps ==
  ASSUME RunInv, NEW k \in 1..Len(Feed), FetchPage(k)
  PROVE  RunInv'
<1>1. /\ run.at = "fetch" /\ run.tier <= Len(Feed) /\ row' = row /\ told' = told
  BY FeedAssumption DEF FetchPage
<1>2. CASE PageOf(run) = <<>>
  BY <1>1, <1>2, TierDone DEF FetchPage
<1>3. CASE PageOf(run) # <<>>
  <2>1. run' = [run EXCEPT !.at = "item", !.items = PageOf(run)]
    BY <1>3 DEF FetchPage
  <2>2. /\ run.tier \in DOMAIN Feed /\ run.page \in DOMAIN Feed[run.tier] /\ run.page <= Pages
        /\ PageOf(run) = Feed[run.tier][run.page] /\ PageOf(run) \in Seq(Titles)
    <3>1. run.tier \in DOMAIN Feed /\ Feed[run.tier] \in Seq(Seq(Titles))
      BY <1>1, FeedAssumption DEF FetchPage
    <3> QED  BY <1>3, <3>1 DEF PageOf
  <2>3. /\ run'.at = "item" /\ run'.tier = run.tier /\ run'.page = run.page /\ run' \in Runs
        /\ run'.failed = run.failed /\ run'.items = Feed[run.tier][run.page] /\ run'.items # <<>>
    BY <1>3, <2>1, <2>2 DEF RunInv, Runs, Stages
  <2>4. HandInv'
    <3>1. run.page \in 1..Pages
      BY <2>2, FeedAssumption DEF RunInv, Runs
    <3> QED  BY <2>2, <2>3, <3>1 DEF HandInv, InHand
  <2>5. \A t \in Titles : Seen(t)' <=> Seen(t)
    BY <1>1 DEF Seen, Decided
  <2>6. told # "success"
    BY <1>1 DEF RunInv, CoverInv
  <2>7. \A t \in Titles : On(t, run.tier, run.page) =>
          \E i \in DOMAIN run'.items : run'.items[i] = t
    BY <2>3 DEF On
  <2>8. CoverInv'
    BY <1>1, <2>3, <2>5, <2>6, <2>7 DEF RunInv, CoverInv, InHand
  <2> QED  BY <2>3, <2>4, <2>8 DEF RunInv
<1> QED  BY <1>2, <1>3

-----------------------------------------------------------------------------
(* The steps that take a result in hand further. *)

(* The result in hand is written and the run goes on. *)
LEMMA WrittenDone ==
  ASSUME IInv, run.at \in InHand, run' = NextItem(run), told' = told, rating' = rating,
         NEW t \in Titles, t = Head(run.items),
         NEW result \in {"Failed", "Passed"},
         NEW id \in Ids \cup {NoId}, NEW meta \in Metas \cup {NoMeta},
         meta # NoMeta => /\ meta.movie \in Plausible(t)
                          /\ id \in Ids /\ MovieOf[id] = meta.movie,
         result = "Passed" => Allowed(t, meta),
         Write(t, result, id, meta)
  PROVE  IInv'
<1>1. TableInv' /\ Decided(t)' /\ \A u \in Titles : Decided(u) => Decided(u)'
  BY WriteKeeps DEF IInv
<1> QED  BY <1>1, ItemDone DEF IInv

(* The result in hand passes to a later stage, with an id of a movie it    *)
(* can be taken for.                                                       *)
LEMMA HandOn ==
  ASSUME IInv, run.at \in InHand, row' = row, after' = after, told' = told, rating' = rating,
         NEW t \in Titles, t = Head(run.items), row[t] = NoRow,
         NEW at \in {"id", "metadata"}, NEW id \in Ids \cup {NoId},
         run' = [run EXCEPT !.at = at, !.id = id],
         at = "id" => Release[t].id = NoId,
         at = "metadata" => id \in Ids /\ MovieOf[id] \in Plausible(t)
  PROVE  IInv'
<1>1. /\ run' \in Runs /\ run'.at = at /\ run'.id = id /\ run'.items = run.items
      /\ run'.tier = run.tier /\ run'.page = run.page /\ run'.failed = run.failed
  BY DEF IInv, RunInv, Runs, Stages
<1>2. TableInv'
  BY DEF IInv, TableInv, RowsInv, PassedInv
<1>3. HandInv'
  BY <1>1 DEF IInv, RunInv, HandInv, InHand
<1>4. \A u \in Titles : Seen(u)' <=> Seen(u)
  BY DEF Seen, Decided
<1>5. run.at # "idle" /\ told # "success"
  BY DEF IInv, RunInv, CoverInv, InHand
<1>6. CoverInv'
  BY <1>1, <1>4, <1>5 DEF IInv, RunInv, CoverInv, InHand
<1> QED  BY <1>1, <1>2, <1>3, <1>6 DEF IInv, RunInv

LEMMA TakeKeeps ==
  ASSUME IInv, NEW t \in Titles, TakeResult(t)
  PROVE  IInv'
<1>1. run.at \in InHand /\ t = Head(run.items) /\ told' = told /\ rating' = rating
  BY DEF TakeResult, AtItem, InHand
<1>2. /\ Release[t].id \in Ids \cup {NoId}
      /\ Release[t].id # NoId => Release[t].id \in Ids /\ MovieOf[Release[t].id] \in Plausible(t)
  BY IdentityAssumption DEF Plausible
<1>3. CASE Skipped(t) /\ run' = NextItem(run) /\ UNCHANGED <<row, after>>
  <2>1. \A u \in Titles : Decided(u)' <=> Decided(u)
    BY <1>3 DEF Decided
  <2>2. OutOfScope(t) \/ Decided(t)'
    BY <1>3 DEF Skipped, IsDuplicateExact, OutOfScope, Decided
  <2>3. RunInv'
    BY <1>1, <1>3, <2>1, <2>2, ItemDone DEF IInv
  <2> QED  BY <1>1, <1>3, <2>3 DEF IInv, TableInv, RowsInv, PassedInv
<1>4. CASE Write(t, "Failed", Release[t].id, NoMeta) /\ run' = NextItem(run)
  BY <1>1, <1>2, <1>4, WrittenDone
<1>5. CASE /\ ~Skipped(t)
           /\ run' = [run EXCEPT !.at = IF Release[t].id = NoId THEN "id" ELSE "metadata",
                                 !.id = Release[t].id]
           /\ UNCHANGED <<row, after>>
  <2> DEFINE at == IF Release[t].id = NoId THEN "id" ELSE "metadata"
  <2>1. row[t] = NoRow /\ at \in {"id", "metadata"}
    BY <1>5 DEF Skipped, IsDuplicateExact
  <2>2. (at = "metadata" => Release[t].id # NoId) /\ (at = "id" => Release[t].id = NoId)
    OBVIOUS
  <2>3. run' = [run EXCEPT !.at = at, !.id = Release[t].id]
    BY <1>5
  <2> HIDE DEF at
  <2> QED  BY <1>1, <1>2, <1>5, <2>1, <2>2, <2>3, HandOn
<1> QED  BY <1>3, <1>4, <1>5 DEF TakeResult

LEMMA SearchKeeps ==
  ASSUME IInv, NEW t \in Titles, SearchForImdbId(t)
  PROVE  IInv'
<1>1. run.at = "id" /\ t = Head(run.items) /\ told' = told /\ rating' = rating
  BY DEF SearchForImdbId, AtItem
<1>2. row[t] = NoRow /\ Release[t].id = NoId
  BY <1>1 DEF IInv, RunInv, HandInv
<1>3. PICK answering \in SUBSET DOMAIN Strategies :
        LET F == Finding(t, answering) IN
        \/ /\ F = {}
           /\ Write(t, "Failed", NoId, NoMeta)
           /\ run' = NextItem(run)
        \/ \E n \in F :
             /\ \A m \in F : n <= m
             /\ \E id \in FoundBy(Strategies[n], t) :
                  run' = [run EXCEPT !.at = "metadata", !.id = id]
             /\ UNCHANGED <<row, after>>
  BY DEF SearchForImdbId
<1>4. CASE Write(t, "Failed", NoId, NoMeta) /\ run' = NextItem(run)
  BY <1>1, <1>4, WrittenDone DEF InHand
<1>5. ASSUME NEW n \in Finding(t, answering), NEW id \in FoundBy(Strategies[n], t),
             run' = [run EXCEPT !.at = "metadata", !.id = id], UNCHANGED <<row, after>>
      PROVE  IInv'
  <2>1. n \in DOMAIN Strategies
    BY <1>3 DEF Finding
  <2>2. id \in Ids /\ MovieOf[id] \in Plausible(t)
    BY <1>2, <2>1, FoundIsPlausible
  <2> QED  BY <1>1, <1>2, <1>5, <2>2, HandOn DEF InHand
<1> QED  BY <1>3, <1>4, <1>5

LEMMA DecideKeeps ==
  ASSUME IInv, NEW t \in Titles, NEW result \in {"Failed", "Passed"}, Decide(t, result)
  PROVE  IInv'
<1>1. run.at = "metadata" /\ t = Head(run.items) /\ told' = told /\ rating' = rating /\ run' = NextItem(run)
  BY DEF Decide, AtItem
<1>2. run.id \in Ids /\ MovieOf[run.id] \in Plausible(t)
  BY <1>1 DEF IInv, RunInv, HandInv
<1>3. PICK src \in Sources(run.id) : \E ok \in Accepted(t, src) :
        (result = "Passed" => ok) /\ Write(t, result, src.id, src.meta)
  BY DEF Decide
<1>4. /\ src.id \in Ids
      /\ src.meta \in Metas \cup {NoMeta}
      /\ src.meta # NoMeta => /\ src.meta.movie \in Plausible(t) /\ MovieOf[src.id] = src.meta.movie
                              /\ src.full = Fresh(src.meta) \/ src.full = Stored(src.meta)
  BY <1>2, SourceIsRight DEF IInv, TableInv
<1>5. ASSUME result = "Passed"
      PROVE  Allowed(t, src.meta)
  <2>1. TRUE \in Accepted(t, src)
    <3>1. PICK ok \in Accepted(t, src) : ok
      BY <1>3, <1>5
    <3>2. ok \in BOOLEAN
      BY DEF Accepted, FilterByImdb, CanonicalVerdicts
    <3> QED  BY <3>1, <3>2
  <2>2. src.meta # NoMeta /\ TRUE \in FilterByImdb(Release[t], src.full, Walk)
    BY <2>1 DEF Accepted
  <2> QED  BY <1>4, <2>2, AcceptedSatisfies
<1> QED  BY <1>1, <1>3, <1>4, <1>5, WrittenDone DEF InHand

-----------------------------------------------------------------------------
(* The invariant. *)

LEMMA StepCases ==
  ASSUME [Next]_vars
  PROVE  \/ UNCHANGED vars
         \/ \E S \in SUBSET Titles : SkipRun(S) \/ \E b \in BOOLEAN : BeginRun(S, b)
         \/ \E k \in 1..Len(Feed) : FetchPage(k) \/ PageFails(k)
         \/ \E t \in Titles : TakeResult(t) \/ SearchForImdbId(t)
         \/ \E t \in Titles, result \in {"Failed", "Passed"} : Decide(t, result)
         \/ EndRun \/ Abort
         \/ \E m \in Movies : RatingChanges(m)
BY DEF Next

LEMMA InitInv == Init => IInv
<1> SUFFICES ASSUME Init
             PROVE  IInv
  OBVIOUS
<1>1. TableInv
  BY DEF Init, TableInv, RowsInv, PassedInv, NoRow
<1>2. run \in Runs
  BY FeedAssumption DEF Init, Runs, Idle, Stages
<1>3. HandInv /\ CoverInv
  BY DEF Init, HandInv, CoverInv, Idle, InHand
<1>4. rating \in [Movies -> 0..100]
  <2>1. \A m \in Movies : rating[m] \in 0..100
    BY RatingsAssumption DEF Init
  <2> QED  BY <2>1 DEF Init
<1> QED  BY <1>1, <1>2, <1>3, <1>4 DEF IInv, RunInv

(* A run that ends without a missed page has decided all that is listed. *)
LEMMA EndIsComplete ==
  ASSUME IInv, EndRun
  PROVE  CoverInv'
<1>1. run' = Idle /\ run.at = "fetch" /\ run.tier > Len(Feed) /\ row' = row
  BY DEF EndRun
<1>2. run.tier - 1 = Len(Feed) /\ DOMAIN Feed = 1..Len(Feed)
  BY <1>1, FeedAssumption DEF IInv, RunInv, Runs
<1>3. ASSUME told' = "success", NEW t \in Listed
      PROVE  Decided(t)
  <2>1. ~run.failed
    BY <1>3 DEF EndRun
  <2>2. PICK k \in DOMAIN Feed : \E p \in DOMAIN Feed[k] : Offered(k, p) /\ On(t, k, p)
    BY DEF Listed
  <2>3. Seen(t)
    BY <1>1, <1>2, <2>1, <2>2 DEF IInv, RunInv, CoverInv, Listed
  <2> QED  BY <2>3 DEF Seen, Listed
<1>4. told' = "success" => SuccessIsComplete'
  BY <1>1, <1>3 DEF SuccessIsComplete, Decided
<1> QED  BY <1>1, <1>4 DEF CoverInv, Idle, InHand

LEMMA StepInv ==
  ASSUME IInv, [Next]_vars
  PROVE  IInv'
<1>1. Idle \in Runs /\ Idle.at = "idle" /\ Len(Feed) \in Nat /\ Pages \in Nat
  BY FeedAssumption DEF Idle, Runs, Stages
<1>2. CASE UNCHANGED vars
  BY <1>2 DEF vars, IInv, TableInv, RowsInv, PassedInv, RunInv, HandInv, CoverInv, Seen,
              Decided, SuccessIsComplete
<1>3. ASSUME NEW S \in SUBSET Titles, SkipRun(S)
      PROVE  IInv'
  <2>1. TableInv'
    BY <1>3, ForgetKeeps DEF IInv, SkipRun
  <2>2. run' = run /\ run.at = "idle" /\ told' # "success" /\ rating' = rating
    BY <1>3 DEF SkipRun
  <2>3. RunInv'
    BY <2>2 DEF IInv, RunInv, HandInv, CoverInv, InHand
  <2> QED  BY <2>1, <2>2, <2>3 DEF IInv
<1>4. ASSUME NEW S \in SUBSET Titles, NEW b \in BOOLEAN, BeginRun(S, b)
      PROVE  IInv'
  <2>1. TableInv'
    BY <1>4, ForgetKeeps DEF IInv, BeginRun
  <2>2. run' = [Idle EXCEPT !.at = "fetch", !.troubled = b] /\ told' = "nothing" /\ rating' = rating
    BY <1>4 DEF BeginRun
  <2>3. run' \in Runs /\ run'.at = "fetch" /\ run'.tier = 1 /\ run'.page = 1
    BY <1>1, <2>2 DEF Runs, Idle, Stages
  <2>4. RunInv'
    BY <2>2, <2>3 DEF RunInv, HandInv, CoverInv, InHand
  <2> QED  BY <2>1, <2>2, <2>4 DEF IInv
<1>5. ASSUME NEW k \in 1..Len(Feed), FetchPage(k)
      PROVE  IInv'
  <2>1. RunInv'
    BY <1>5, FetchKeeps DEF IInv
  <2> QED  BY <1>5, <2>1 DEF FetchPage, IInv, TableInv, RowsInv, PassedInv
<1>6. ASSUME NEW k \in 1..Len(Feed), PageFails(k)
      PROVE  IInv'
  <2>1. run.at = "fetch" /\ run.tier <= Len(Feed) /\ row' = row /\ told' = told
    BY <1>1, <1>6 DEF PageFails
  <2>2. RunInv'
    BY <1>6, <2>1, TierDone DEF IInv, PageFails
  <2> QED  BY <1>6, <2>2 DEF PageFails, IInv, TableInv, RowsInv, PassedInv
<1>7. CASE EndRun
  <2>1. CoverInv'
    BY <1>7, EndIsComplete
  <2>2. run' = Idle /\ row' = row /\ after' = after /\ rating' = rating
    BY <1>7 DEF EndRun
  <2>3. HandInv'
    BY <1>1, <2>2 DEF HandInv, InHand
  <2> QED  BY <1>1, <2>1, <2>2, <2>3 DEF IInv, RunInv, TableInv, RowsInv, PassedInv
<1>8. CASE Abort
  <2>1. run' = Idle /\ run.at # "idle" /\ UNCHANGED <<row, after, rating, told>>
    BY <1>8 DEF Abort
  <2>2. HandInv' /\ CoverInv'
    BY <1>1, <2>1 DEF IInv, RunInv, HandInv, CoverInv, InHand
  <2> QED  BY <1>1, <2>1, <2>2 DEF IInv, RunInv, TableInv, RowsInv, PassedInv
<1>9. ASSUME NEW m \in Movies, RatingChanges(m)
      PROVE  IInv'
  <2>1. rating' \in [Movies -> 0..100] /\ UNCHANGED <<row, after, run, told>>
    BY <1>9, RatingsAssumption DEF RatingChanges, IInv
  <2> QED  BY <2>1 DEF IInv, TableInv, RowsInv, PassedInv, RunInv, HandInv, CoverInv, Seen,
                       Decided, SuccessIsComplete
<1> QED  BY StepCases, <1>2, <1>3, <1>4, <1>5, <1>6, <1>7, <1>8, <1>9, TakeKeeps, SearchKeeps,
            DecideKeeps

LEMMA Inductive == Spec => []IInv
BY InitInv, StepInv, PTL DEF Spec

LEMMA ToldType == Spec => [](told \in {"nothing", "success", "failure"})
<1> DEFINE T == told \in {"nothing", "success", "failure"}
<1>1. Init => T
  BY DEF Init
<1>2. T /\ [Next]_vars => T'
  BY StepCases DEF vars, SkipRun, BeginRun, FetchPage, PageFails, TakeResult, SearchForImdbId,
                   Decide, EndRun, Abort, RatingChanges
<1> HIDE DEF T
<1>3. Spec => []T
  BY <1>1, <1>2, PTL DEF Spec
<1> QED  BY <1>3 DEF T

-----------------------------------------------------------------------------
(* Theorems. *)

(* The table, the run and what the circuit breaker was told have their     *)
(* types, whatever the index and the services answer: in particular the    *)
(* tier and the page stay within the feed.                                 *)
THEOREM TypeCorrect == Spec => []TypeOK
<1>1. IInv /\ told \in {"nothing", "success", "failure"} => TypeOK
  BY DEF IInv, TableInv, RunInv, Runs, TypeOK
<1> QED  BY <1>1, Inductive, ToldType, PTL

(* A run that the circuit breaker counts as a success has decided every    *)
(* result offered, for every feed and whatever pages and runs failed.      *)
THEOREM CompleteWhenSuccess == Spec => []SuccessIsComplete
<1>1. IInv => SuccessIsComplete
  BY DEF IInv, RunInv, CoverInv, SuccessIsComplete
<1> QED  BY <1>1, Inductive, PTL

(* A title is judged by the metadata of its own movie, unless the index    *)
(* gave no id and the web search has a page of another movie with its name *)
(* and no year, which the search lets through (imdb_search.py:361):        *)
(* for every such set of answers, every order in which the services fail,  *)
(* and also when the metadata comes from the row of another title.  It     *)
(* needs that the index gives right ids, that a name and a year tell one   *)
(* movie, and that a redirect stays within the movie.                      *)
THEOREM JudgedByItsMovie == Spec => []RightMovie
<1>1. IInv => RightMovie
  BY DEF IInv, TableInv, RowsInv, RightMovie
<1> QED  BY <1>1, Inductive, PTL

(* What is queued has what the settings ask for, by what a provider said   *)
(* of the movie it was identified as, unless a person or a title overrides *)
(* the gates of rating and votes.                                          *)
THEOREM AllowedWhenPassed == Spec => []PassedIsAllowed
<1>1. IInv => PassedIsAllowed
  BY DEF IInv, TableInv, PassedInv, Allowed, Satisfies, PassedIsAllowed
<1> QED  BY <1>1, Inductive, PTL

(* What is queued beats every file the library has of the movie it was     *)
(* identified as, overrides or not.                                        *)
THEOREM BeatsLibrary == Spec => []UpgradesLibrary
<1>1. IInv => UpgradesLibrary
  BY DEF IInv, TableInv, PassedInv, Allowed, Upgrades, UpgradesLibrary
<1> QED  BY <1>1, Inductive, PTL

(* A step of the search is a step of Lifecycle, or none. *)
LEMMA WriteDecides ==
  ASSUME TableInv, NEW t \in Titles, row[t] = NoRow, NEW result \in {"Failed", "Passed"},
         NEW id, NEW meta, Write(t, result, id, meta)
  PROVE  Life!Decide(t)
<1> DEFINE s == [u \in Titles |-> row[u].result]
           v == [u \in Titles |-> row'[u].result]
<1>1. s[t] = "None"
  BY DEF NoRow
<1>2. row' = [row EXCEPT ![t] = [result |-> result, id |-> id, meta |-> meta]]
  BY DEF Write
<1>3. v = [s EXCEPT ![t] = result]
  BY <1>2 DEF TableInv
<1> QED  BY <1>1, <1>3 DEF Life!Decide

LEMMA ForgetForgets ==
  ASSUME TableInv, NEW S \in SUBSET Titles, Forget(S)
  PROVE  Life!Forget(S)
<1> DEFINE s == [u \in Titles |-> row[u].result]
           v == [u \in Titles |-> row'[u].result]
<1>1. \A t \in S : s[t] \in {"Failed", "Passed", "Stalled"}
  BY ExpiringAssumption DEF Forget, MayExpire
<1>2. row' = [t \in Titles |-> IF t \in S THEN NoRow ELSE row[t]]
  BY DEF Forget
<1>3. v = [t \in Titles |-> IF t \in S THEN "None" ELSE s[t]]
  BY <1>2 DEF NoRow
<1> QED  BY <1>1, <1>3 DEF Life!Forget

LEMMA LifeStep ==
  ASSUME IInv, [Next]_vars
  PROVE  Life!Next \/ UNCHANGED [t \in Titles |-> row[t].result]
<1>1. CASE row' = row
  BY <1>1
<1>2. ASSUME NEW S \in SUBSET Titles, Forget(S)
      PROVE  Life!Next
  BY <1>2, ForgetForgets DEF IInv, Life!Next
<1>3. ASSUME NEW t \in Titles, row[t] = NoRow, NEW result \in {"Failed", "Passed"},
             NEW id, NEW meta, Write(t, result, id, meta)
      PROVE  Life!Next
  BY <1>3, WriteDecides DEF IInv, Life!Next
<1>4. ASSUME NEW t \in Titles, run.at \in {"id", "metadata"}, t = Head(run.items)
      PROVE  row[t] = NoRow
  BY <1>4 DEF IInv, RunInv, HandInv
<1>5. ASSUME NEW t \in Titles, TakeResult(t)
      PROVE  Life!Next \/ row' = row
  BY <1>3, <1>5 DEF TakeResult, Skipped, IsDuplicateExact
<1>6. ASSUME NEW t \in Titles, SearchForImdbId(t)
      PROVE  Life!Next \/ row' = row
  BY <1>3, <1>4, <1>6 DEF SearchForImdbId, AtItem
<1>7. ASSUME NEW t \in Titles, NEW result \in {"Failed", "Passed"}, Decide(t, result)
      PROVE  Life!Next \/ row' = row
  BY <1>3, <1>4, <1>7 DEF Decide, AtItem
<1>8. \/ row' = row \/ \E S \in SUBSET Titles : Forget(S)
      \/ \E t \in Titles : TakeResult(t) \/ SearchForImdbId(t)
      \/ \E t \in Titles, result \in {"Failed", "Passed"} : Decide(t, result)
  BY StepCases DEF vars, SkipRun, BeginRun, FetchPage, PageFails, EndRun, Abort, RatingChanges
<1> QED  BY <1>1, <1>2, <1>5, <1>6, <1>7, <1>8

(* The table, as the search alone writes it, implements the lifecycle of a *)
(* title: one verdict, which stands until a run forgets it, wherever a run *)
(* was cut off and however often a title is offered.                       *)
THEOREM ImplementsLifecycle == Spec => FollowsLifecycle
<1>1. Init => Life!Init
  BY DEF Init, Life!Init, NoRow
<1>2. IInv /\ [Next]_vars => [Life!Next]_([t \in Titles |-> row[t].result])
  BY LifeStep
<1> QED  BY <1>1, <1>2, Inductive, PTL DEF Spec, FollowsLifecycle, Life!Spec
-----------------------------------------------------------------------------
(* A run gets on. *)

LEMMA NextItemIsFurther ==
  ASSUME RunInv, run.at \in InHand
  PROVE  Further(run, NextItem(run))
<1>1. /\ run \in Runs /\ run.items \in Seq(Titles) /\ run.items # <<>>
      /\ run.page \in Nat /\ run.tier \in Nat
  BY FeedAssumption DEF RunInv, HandInv, Runs
<1>2. CASE Len(run.items) = 1
  <2>1. NextItem(run) = [run EXCEPT !.at = "fetch", !.page = @ + 1, !.items = <<>>, !.id = NoId]
    BY <1>2 DEF NextItem
  <2>2. NextItem(run).tier = run.tier /\ NextItem(run).page = run.page + 1
    BY <1>1, <2>1 DEF Runs
  <2> QED  BY <1>1, <2>2 DEF Further
<1>3. CASE Len(run.items) # 1
  <2>1. NextItem(run) = [run EXCEPT !.at = "item", !.items = Tail(@), !.id = NoId]
    BY <1>3 DEF NextItem
  <2>2. /\ NextItem(run).tier = run.tier /\ NextItem(run).page = run.page
        /\ NextItem(run).at = "item" /\ NextItem(run).items = Tail(run.items)
    BY <1>1, <2>1 DEF Runs
  <2>3. Len(Tail(run.items)) < Len(run.items)
    BY <1>1
  <2> QED  BY <2>2, <2>3 DEF Further
<1> QED  BY <1>2, <1>3

(* A later stage of the result in hand. *)
LEMMA LaterStageIsFurther ==
  ASSUME run \in Runs, NEW at \in {"id", "metadata"}, NEW id \in Ids \cup {NoId},
         run.at = "item" \/ (run.at = "id" /\ at = "metadata"),
         run' = [run EXCEPT !.at = at, !.id = id]
  PROVE  Further(run, run')
<1>1. /\ run'.tier = run.tier /\ run'.page = run.page /\ run'.items = run.items
      /\ run'.at = at
  BY DEF Runs
<1>2. StageRank[at] > StageRank[run.at]
  BY DEF StageRank
<1> QED  BY <1>1, <1>2 DEF Further

LEMMA NextTierIsFurther ==
  ASSUME NEW r \in Runs, r.tier = run.tier
  PROVE  Further(run, NextTier(r))
<1>1. r.tier \in Nat
  BY FeedAssumption DEF Runs
<1>2. NextTier(r).tier = r.tier + 1
  BY DEF NextTier, Runs
<1> QED  BY <1>1, <1>2 DEF Further

LEMMA StepAdvances ==
  ASSUME IInv, [Next]_vars, run.at # "idle", run' # run
  PROVE  run'.at = "idle" \/ Further(run, run')
<1>1. run \in Runs /\ Len(Feed) \in Nat
  BY FeedAssumption DEF IInv, RunInv
<1>2. CASE UNCHANGED vars
  BY <1>2 DEF vars
<1>3. ASSUME NEW S \in SUBSET Titles, SkipRun(S) \/ \E b \in BOOLEAN : BeginRun(S, b)
      PROVE  FALSE
  BY <1>3 DEF SkipRun, BeginRun
<1>4. ASSUME NEW k \in 1..Len(Feed), FetchPage(k)
      PROVE  Further(run, run')
  <2>1. CASE PageOf(run) = <<>>
    BY <1>1, <1>4, <2>1, NextTierIsFurther DEF FetchPage
  <2>2. CASE PageOf(run) # <<>>
    <3>1. run.at = "fetch" /\ run' = [run EXCEPT !.at = "item", !.items = PageOf(run)]
      BY <1>4, <2>2 DEF FetchPage
    <3>2. run'.tier = run.tier /\ run'.page = run.page /\ run'.at = "item"
      BY <1>1, <3>1 DEF Runs
    <3> QED  BY <3>1, <3>2 DEF Further
  <2> QED  BY <2>1, <2>2
<1>5. ASSUME NEW k \in 1..Len(Feed), PageFails(k)
      PROVE  Further(run, run')
  <2>1. run' = NextTier([run EXCEPT !.failed = TRUE])
    BY <1>5 DEF PageFails
  <2>2. [run EXCEPT !.failed = TRUE] \in Runs /\ [run EXCEPT !.failed = TRUE].tier = run.tier
    BY <1>1 DEF Runs
  <2> QED  BY <2>1, <2>2, NextTierIsFurther
<1>6. ASSUME NEW t \in Titles, TakeResult(t)
      PROVE  Further(run, run')
  <2>1. run.at = "item"
    BY <1>6 DEF TakeResult, AtItem
  <2>2. CASE run' = NextItem(run)
    BY <2>1, <2>2, NextItemIsFurther DEF IInv, InHand
  <2>3. CASE run' = [run EXCEPT !.at = IF Release[t].id = NoId THEN "id" ELSE "metadata",
                                !.id = Release[t].id]
    <3> DEFINE at == IF Release[t].id = NoId THEN "id" ELSE "metadata"
    <3>1. at \in {"id", "metadata"} /\ Release[t].id \in Ids \cup {NoId}
      BY IdentityAssumption
    <3>2. run' = [run EXCEPT !.at = at, !.id = Release[t].id]
      BY <2>3
    <3> HIDE DEF at
    <3> QED  BY <1>1, <2>1, <3>1, <3>2, LaterStageIsFurther
  <2> QED  BY <1>6, <2>2, <2>3 DEF TakeResult
<1>7. ASSUME NEW t \in Titles, SearchForImdbId(t)
      PROVE  Further(run, run')
  <2>1. run.at = "id" /\ Release[t].id = NoId
    BY <1>7 DEF SearchForImdbId, AtItem, IInv, RunInv, HandInv
  <2>2. CASE run' = NextItem(run)
    BY <2>1, <2>2, NextItemIsFurther DEF IInv, InHand
  <2>3. ASSUME NEW n \in DOMAIN Strategies, NEW id \in FoundBy(Strategies[n], t),
               run' = [run EXCEPT !.at = "metadata", !.id = id]
        PROVE  Further(run, run')
    <3>1. id \in Ids \cup {NoId}
      BY <2>1, FoundIsPlausible
    <3> QED  BY <1>1, <2>1, <2>3, <3>1, LaterStageIsFurther
  <2>4. \/ run' = NextItem(run)
        \/ \E n \in DOMAIN Strategies : \E id \in FoundBy(Strategies[n], t) :
             run' = [run EXCEPT !.at = "metadata", !.id = id]
    BY <1>7 DEF SearchForImdbId, Finding
  <2> QED  BY <2>2, <2>3, <2>4
<1>8. ASSUME NEW t \in Titles, NEW result \in {"Failed", "Passed"}, Decide(t, result)
      PROVE  Further(run, run')
  BY <1>8, NextItemIsFurther DEF Decide, AtItem, IInv, InHand
<1>9. CASE EndRun \/ Abort
  BY <1>9 DEF EndRun, Abort, Idle
<1>10. ASSUME NEW m \in Movies, RatingChanges(m)
       PROVE  FALSE
  BY <1>10 DEF RatingChanges
<1> QED  BY StepCases, <1>2, <1>3, <1>4, <1>5, <1>6, <1>7, <1>8, <1>9, <1>10

(* A run never comes back to what it is done with: for any feed, any       *)
(* number of pages, and wherever pages and calls fail.                     *)
THEOREM RunsAdvance == Spec => RunAdvances
<1>1. IInv /\ [Next]_vars =>
        [run.at # "idle" /\ run' # run => run'.at = "idle" \/ Further(run, run')]_vars
  BY StepAdvances
<1> QED  BY <1>1, Inductive, PTL DEF Spec, RunAdvances
=============================================================================
