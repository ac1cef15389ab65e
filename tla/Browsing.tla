------------------------------ MODULE Browsing ------------------------------
(***************************************************************************)
(* What the site computes from the public part of the catalogue and keeps  *)
(* in the cache: the recommendation carousels (drama/recommendations.py)   *)
(* and the facets of the explore page (drama/facets.py), while editors     *)
(* change the status of movies and scheduled ones come due.                *)
(*                                                                         *)
(* A reader makes the key, with the catalogue's version in it, before it   *)
(* computes (drama/cache.py); the periodic task computes first.  Ratings   *)
(* and dates only order movies that the code ranks equal otherwise: any    *)
(* order of those is allowed here.                                         *)
(***************************************************************************)
EXTENDS Site, SequencesExt

CONSTANTS
    Genre,
    Genres(_),    \* Movie.genres
    Tags(_),      \* Movie.tags
    Country(_),
    limit,        \* length of a carousel
    Missing

ASSUME BrowsingAssumption == limit \in Nat \ {0}

VARIABLES
    status,     \* Movie.status; a deleted movie is as good as a draft
    due,        \* movies whose publish_at has come
    recent,     \* WatchProgress rows <<user, movie>> of the last TRENDING_WINDOW_DAYS
    slot,       \* the catalogue cache of the present version: "trending",
                \* "genre_facets", and each movie's "similar"
    page,       \* per tab: what it computes for the cache, for which key, and whether
                \* the version in that key is the present one or a past one
    computed,   \* the ids recompute_trending_movies is about to store, and of which
                \* version's catalogue they are
    aged,       \* history: a movie has come due since the last bump
    crossed     \* history: keys whose value is older than their version

browsingVars == <<status, due, recent, slot, page, computed, aged, crossed>>

content == <<status, due, recent, aged>>

Key == {"trending", "genre_facets"} \cup Movie
NoPage == [step |-> "idle", key |-> "trending", value |-> Missing, version |-> "present"]
NoTask == [ids |-> Missing, version |-> "present"]

BrowsingInit ==
    /\ status \in [Movie -> {"draft", "published"}]
    /\ due = {} /\ recent = {}
    /\ slot = [k \in Key |-> Missing]
    /\ page = [t \in Tab |-> NoPage]
    /\ computed = NoTask
    /\ aged = FALSE /\ crossed = {}

\* published_q: published, or scheduled for a moment that has passed, even if the task
\* that publishes it has not run.
published(m) == status[m] = "published" \/ (status[m] = "scheduled" /\ m \in due)

Published == {m \in Movie : published(m)}

\* How many of S fit into a carousel.
Fill(S) == IF Cardinality(S) < limit THEN Cardinality(S) ELSE limit

\* The first of S by weight, each once, in every order of equals.
Top(S, weight(_)) ==
    {s \in [1..Fill(S) -> S] :
        /\ \A i, j \in DOMAIN s : s[i] = s[j] => i = j
        /\ \A i \in DOMAIN s, m \in S :
              (\A j \in 1..i : s[j] # m) => weight(m) <= weight(s[i])}

-----------------------------------------------------------------------------
(* What is computed                                                        *)

recent_views(m) == Cardinality({u \in User : <<u, m>> \in recent})

\* By activity of the window, then filled up with the best rated others.
compute_trending_ids == Top(Published, recent_views)

\* By shared tags and genres; a movie with neither gets those of its country.
compute_similar_ids(m) ==
    LET shared(x) == Cardinality(Tags(x) \cap Tags(m)) + Cardinality(Genres(x) \cap Genres(m))
        others == Published \ {m}
    IN  IF Tags(m) = {} /\ Genres(m) = {}
        THEN Top({x \in others : Country(x) = Country(m)}, LAMBDA x : 0)
        ELSE Top({x \in others : shared(x) > 0}, shared)

\* What the explore page lists for the genres G and a country, or "any".
FilterMoviesView(G, c) ==
    {m \in Published : /\ G # {} => G \cap Genres(m) # {}
                       /\ c # "any" => Country(m) = c}

\* Mutant: every movie is counted, drafts included.
Counted_All == Movie

Counted == Published

\* The count beside each genre that has movies.
genre_facets ==
    [g \in {g \in Genre : \E m \in Counted : g \in Genres(m)} |->
        Cardinality({m \in Counted : g \in Genres(m)})]

producer(k) ==
    CASE k = "trending"     -> compute_trending_ids
      [] k = "genre_facets" -> {genre_facets}
      [] OTHER              -> compute_similar_ids(k)

\* bump_catalog_version: nothing is stored under the new version yet, and whoever
\* computes does it for an old one.
Bump ==
    /\ slot' = [k \in Key |-> Missing]
    /\ page' = [t \in Tab |-> IF page[t] = NoPage THEN NoPage
                              ELSE [page[t] EXCEPT !.version = "past"]]
    /\ computed' = IF computed = NoTask THEN NoTask ELSE [computed EXCEPT !.version = "past"]
    /\ aged' = FALSE /\ crossed' = {}

-----------------------------------------------------------------------------
(* Visitors                                                                *)

\* get_or_set_catalog: the key is made and nothing is found under it; the value is
\* computed; it is stored under that key.
Miss(t, k) ==
    /\ page[t].step = "idle" /\ slot[k] = Missing
    /\ page' = [page EXCEPT ![t] = [step |-> "compute", key |-> k, value |-> Missing,
                                    version |-> "present"]]
    /\ UNCHANGED <<content, slot, computed, crossed>>

Compute(t) ==
    /\ page[t].step = "compute"
    /\ \E v \in producer(page[t].key) :
         page' = [page EXCEPT ![t].step = "store", ![t].value = v]
    /\ UNCHANGED <<content, slot, computed, crossed>>

\* Mutant: the key is made when the value is stored.
get_or_set_catalog_Late(t) ==
    /\ page[t].step = "store"
    /\ slot' = [slot EXCEPT ![page[t].key] = page[t].value]
    /\ crossed' = crossed \ {page[t].key}
    /\ page' = [page EXCEPT ![t] = NoPage]
    /\ UNCHANGED <<content, computed>>

get_or_set_catalog(t) ==
    /\ page[t].step = "store"
    /\ IF page[t].version = "present"
       THEN /\ slot' = [slot EXCEPT ![page[t].key] = page[t].value]
            /\ crossed' = crossed \ {page[t].key}
       ELSE UNCHANGED <<slot, crossed>>
    /\ page' = [page EXCEPT ![t] = NoPage]
    /\ UNCHANGED <<content, computed>>

\* The visitor is gone, or the worker is.
Leave(t) ==
    /\ page[t].step # "idle"
    /\ page' = [page EXCEPT ![t] = NoPage]
    /\ UNCHANGED <<content, slot, computed, crossed>>

Watch(u, m) ==
    /\ published(m)
    /\ recent' = recent \cup {<<u, m>>}
    /\ UNCHANGED <<status, due, slot, page, computed, aged, crossed>>

-----------------------------------------------------------------------------
(* Editors, tasks and time                                                 *)

\* Saving a movie, or the publish and unpublish actions: the catalogue's version moves.
SetStatus(m, s) ==
    /\ status' = [status EXCEPT ![m] = s]
    /\ due' = IF s = "scheduled" THEN due \ {m} ELSE due
    /\ Bump
    /\ UNCHANGED recent

\* The clock reaches publish_at, which moves no version.
ComesDue(m) ==
    /\ status[m] = "scheduled" /\ m \notin due
    /\ due' = due \cup {m}
    /\ aged' = TRUE
    /\ UNCHANGED <<status, recent, slot, page, computed, crossed>>

publish_scheduled_movies ==
    /\ \E m \in due : status[m] = "scheduled"
    /\ status' = [m \in Movie |-> IF published(m) THEN "published" ELSE status[m]]
    /\ Bump
    /\ UNCHANGED <<due, recent>>

\* The task computes, and makes the key when it stores.
recompute_trending_movies ==
    /\ computed = NoTask
    /\ \E ids \in compute_trending_ids : computed' = [ids |-> ids, version |-> "present"]
    /\ UNCHANGED <<content, slot, page, crossed>>

StoreTrending ==
    /\ computed # NoTask
    /\ slot' = [slot EXCEPT !["trending"] = computed.ids]
    /\ crossed' = IF computed.version = "past" THEN {"trending"} ELSE {}
    /\ computed' = NoTask
    /\ UNCHANGED <<content, page>>

ExpireSlot(k) ==
    /\ slot[k] # Missing
    /\ slot' = [slot EXCEPT ![k] = Missing]
    /\ UNCHANGED <<content, page, computed, crossed>>

WeekPasses ==
    /\ recent # {} /\ recent' = {}
    /\ UNCHANGED <<status, due, slot, page, computed, aged, crossed>>

-----------------------------------------------------------------------------
BrowsingNext ==
    \/ \E t \in Tab :
         \/ \E k \in Key : Miss(t, k)
         \/ Compute(t)
         \/ get_or_set_catalog(t)
         \/ Leave(t)
    \/ \E u \in User, m \in Movie : Watch(u, m)
    \/ \E m \in Movie :
         \/ \E s \in {"draft", "scheduled", "published"} : SetStatus(m, s)
         \/ ComesDue(m)
    \/ publish_scheduled_movies
    \/ recompute_trending_movies
    \/ StoreTrending
    \/ \E k \in Key : ExpireSlot(k)
    \/ WeekPasses

-----------------------------------------------------------------------------
(* Properties                                                              *)

BrowsingTypeOK ==
    /\ status \in [Movie -> {"draft", "scheduled", "published"}]
    /\ due \subseteq Movie
    /\ recent \subseteq User \X Movie
    /\ DOMAIN slot = Key
    /\ \A t \in Tab : page[t].key \in Key /\ page[t].step \in {"idle", "compute", "store"}
    /\ aged \in BOOLEAN /\ crossed \subseteq {"trending"}

\* As many different public movies as a carousel takes, or as there are.
Full(ids) ==
    /\ ids \in [1..Fill(Published) -> Published]
    /\ \A i, j \in DOMAIN ids : ids[i] = ids[j] => i = j

\* The carousels of the cache are those of the catalogue as it is now: the similar movies
\* are the ones that would be found, and the trending ones are as many as there can be
\* and all public, so that none is dropped when they are shown and the carousel is not
\* short; whatever readers that started before a change of status store afterwards.
\* Excepted are the time after a movie has come due, until the version moves, and
\* trending ids that the task computed before the version was moved.
CarouselsAreCurrent ==
    ~aged =>
        /\ slot["trending"] # Missing /\ crossed = {} => Full(slot["trending"])
        /\ \A m \in Movie : slot[m] # Missing => slot[m] \in compute_similar_ids(m)

\* The number beside a genre on the explore page is the number of movies its filter
\* returns, unless a movie has come due and nothing has moved the version since.
FacetsAgree ==
    LET facets == slot["genre_facets"] IN
    facets # Missing /\ ~aged =>
        \A g \in Genre :
            Cardinality(FilterMoviesView({g}, "any")) =
                IF g \in DOMAIN facets THEN facets[g] ELSE 0
=============================================================================
