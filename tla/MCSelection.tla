----------------------------- MODULE MCSelection -----------------------------
(* Small instances of Selection: movies, their releases, and what the      *)
(* services say of them.                                                   *)
EXTENDS Selection

MCIds       == {"p", "pOld", "d00", "d21", "d84"}
MCMovies    == {"parasite", "dune00", "dune21", "dune84"}
MCMovieOf   == [i \in MCIds |-> CASE i = "d00" -> "dune00" [] i = "d21" -> "dune21"
                                  [] i = "d84" -> "dune84" [] OTHER -> "parasite"]
MCCanonical == [i \in MCIds |-> IF i = "pOld" THEN "p" ELSE i]
MCRatings   == [m \in MCMovies |-> IF m = "parasite" THEN {60, 80} ELSE {80}]

Kinds == {"rating", "votes"}

(* Every gate that the instance can pass or fail is on. *)
MCSettings ==
  [library |-> TRUE, rejectGroups |-> {}, criteria |-> {}, rejectWords |-> {"cam"},
   rejectTitles |-> {}, minimumSize |-> 1, maximumSize |-> 0, rejectGenres |-> {"horror"},
   rejectExclusive |-> {"drama"}, minimumBitrate |-> 2, allowTypes |-> {"movie"},
   minimumYear |-> 1980, minimumRuntime |-> 60, allowLanguages |-> {"en", "ko"},
   allowCountries |-> {},
   overridePeople |-> [p \in People |-> IF p = "director" THEN {"villeneuve"} ELSE {}],
   overrideTitles |-> {}, overrideGenre |-> [g \in {} |-> [k \in Kinds |-> Missing]],
   minimum |-> [k \in Kinds |-> IF k = "rating" THEN 70 ELSE 1000]]

Rel(movie, id, title, resolution, words) ==
  [movie |-> movie, id |-> id, ignored |-> FALSE, title |-> title,
   year |-> CASE movie = "parasite" -> 2019 [] movie = "dune21" -> 2021 [] OTHER -> 1984,
   names |-> {title},
   group |-> "g", words |-> words, size |-> 900, tv |-> FALSE,
   resolution |-> resolution, score |-> 10]

Meta(title, year, languages, director, alternates) ==
  [title |-> title, year |-> year, type |-> "movie", genres |-> <<"drama", "thriller">>,
   runtime |-> 120, rating |-> 0, votes |-> 5000, languages |-> languages, countries |-> {},
   credits |-> [p \in People |-> IF p = "director" THEN director ELSE {}],
   foreign |-> alternates # {}, alternates |-> alternates]

(* OMDb has no alternate titles, and does not know the language of two of  *)
(* the movies named Dune.                                                  *)
MCReport ==
  [imdbpie |-> [parasite |-> Meta("Parasite", 2019, {"ko"}, {"bong"}, {"Gisaengchung"}),
                dune00   |-> Meta("Dune", 2000, {"en"}, {"harrison"}, {}),
                dune21   |-> Meta("Dune", 2021, {"en"}, {"villeneuve"}, {}),
                dune84   |-> Meta("Dune", 1984, {"en"}, {"lynch"}, {})],
   omdb    |-> [parasite |-> Meta("Parasite", 2019, {"ko"}, {"bong"}, {}),
                dune00   |-> Meta("Dune", 2000, {}, {"harrison"}, {}),
                dune21   |-> Meta("Dune", 2021, {}, {"villeneuve"}, {}),
                dune84   |-> Meta("Dune", 1984, {"en"}, {"lynch"}, {})]]

MCWalk == {[names |-> {"Gisaengchung"}, year |-> 2019, resolution |-> 1080, score |-> 5],
           [names |-> {"Dune"}, year |-> 2021, resolution |-> 1080, score |-> 5]}

Hit(names, years, id) == [names |-> names, years |-> years, id |-> id]

(* IMDb answers with the older movie of this name first, and the web       *)
(* search with a page of a third one that shows no year.                   *)
HitsOf(title) ==
  IF title = "Dune"
    THEN [imdbpie |-> <<Hit({"Dune"}, {1984}, "d84"), Hit({"Dune"}, {2021}, NoId),
                        Hit({"Dune"}, {2021}, "d21")>>,
          tmdb |-> <<Hit({"Dune"}, {2021}, NoId), Hit({"Dune"}, {2021}, "d21")>>,
          omdb |-> <<Hit({"Dune"}, {1984}, "d84")>>,
          duckduckgo |-> <<Hit({"Dune"}, {1984}, "d84"), Hit({"Dune"}, {}, "d00"),
                           Hit({"Dune"}, {2021}, "d21")>>]
    ELSE [s \in {"imdbpie", "tmdb", "omdb", "duckduckgo"} |-> <<>>]

\* Three releases that reach the filters, one that fails the first of them
\* and one of an indexer that is ignored.
MCTitles  == {"t1", "t2", "t3", "t4", "t5"}
MCRelease ==
  [t1 |-> Rel("parasite", "pOld", "Parasite", 2160, {}),
   t2 |-> Rel("dune21", NoId, "Dune", 2160, {}),
   t3 |-> Rel("dune21", "d21", "Dune Part One", 720, {}),
   t4 |-> Rel("dune84", "d84", "Dune", 2160, {"cam"}),
   t5 |-> [Rel("dune84", "d84", "Dune", 2160, {}) EXCEPT !.ignored = TRUE]]
MCHits == [s \in {"imdbpie", "tmdb", "omdb", "duckduckgo"} |->
             [t \in MCTitles |-> HitsOf(MCRelease[t].title)[s]]]
MCFeed == << << <<"t4", "t1">>, <<"t2", "t5">> >>, << <<"t2", "t3">> >> >>

\* Two releases of the foreign movie, both below what the library has.
TwoTitles  == {"t1", "t2"}
TwoRelease == [t1 |-> Rel("parasite", "p", "Parasite", 720, {}),
               t2 |-> Rel("parasite", "p", "Parasite", 720, {})]
TwoHits    == [s \in {"imdbpie", "tmdb", "omdb", "duckduckgo"} |->
                 [t \in TwoTitles |-> HitsOf(TwoRelease[t].title)[s]]]
TwoFeed    == << << <<"t1", "t2">> >> >>
=============================================================================
