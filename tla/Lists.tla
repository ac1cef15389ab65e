------------------------------- MODULE Lists -------------------------------
(***************************************************************************)
(* A user's list of movies with its scores, the XP it earns, the rating of *)
(* a movie that a Celery task derives from all scores (add_to_list in      *)
(* drama/views.py, the signal in users/signals.py, recompute_movie_rating  *)
(* in drama/tasks.py); and the forms that save the whole profile, with the *)
(* XP it had when they loaded it.                                          *)
(*                                                                         *)
(* XP is counted in awards (100 each), and a rating is the pair of the sum *)
(* of the scores and their number; which episode the user has reached is   *)
(* left out.                                                               *)
(***************************************************************************)
EXTENDS Site, FiniteSetsExt

CONSTANTS
    Worker,      \* Celery workers
    Score,       \* scores users give
    Status,      \* what comes in as a status: any number, it is not validated
    NoMovie, NoScore,
    MaxJobs      \* bound: recomputations of a movie waiting at a time

COMPLETED == 2

ASSUME ListsAssumption ==
    /\ Score \subseteq Nat \ {0} /\ NoScore \notin Score
    /\ Status \subseteq Int
    /\ MaxJobs \in Nat \ {0}
    /\ NoMovie \notin Movie

VARIABLES
    entry,       \* UserMovieList: per user and movie, status 0 if there is no row
    xp,          \* Profile.xp, in awards
    rating,      \* per movie: sum and number of the scores it is derived from
    jobs,        \* per movie: recomputations that wait in the queue
    working,     \* per worker: the movie it recomputes
    aggregate,   \* per worker: the scores it has read
    overtaken,   \* per worker: another one has written the rating since it read
    saving,      \* per tab: the movie add_to_list is busy with
    loaded,      \* per tab: the XP of the profile as the request has loaded it
    award,       \* per tab: the award is still to be written
    profiled,    \* tabs whose request has loaded the profile to save all of it
    earned,      \* history: per user, rows created with status 2
    lost,        \* history: per user, awards never written or overwritten
    unsettled    \* history: movies whose rating missed a change, until the next job

listsVars == <<entry, xp, rating, jobs, working, aggregate, overtaken, saving, loaded,
               award, profiled, earned, lost, unsettled>>
xpVars == <<xp, saving, loaded, award, profiled, earned, lost>>
ratingVars == <<rating, jobs, working, aggregate, overtaken, unsettled>>

NoEntry == [status |-> 0, score |-> NoScore]
Unrated == [sum |-> 0, votes |-> 0]

ListsInit ==
    /\ entry = [u \in User |-> [m \in Movie |-> NoEntry]]
    /\ xp = [u \in User |-> 0]
    /\ rating = [m \in Movie |-> Unrated]
    /\ jobs = [m \in Movie |-> 0]
    /\ working = [w \in Worker |-> NoMovie]
    /\ aggregate = [w \in Worker |-> Unrated]
    /\ overtaken = [w \in Worker |-> FALSE]
    /\ saving = [t \in Tab |-> NoMovie]
    /\ loaded = [t \in Tab |-> 0]
    /\ award = [t \in Tab |-> FALSE]
    /\ profiled = {}
    /\ earned = [u \in User |-> 0]
    /\ lost = [u \in User |-> 0]
    /\ unsettled = {}

-----------------------------------------------------------------------------
(* add_to_list                                                             *)

\* The request loads the profile it will add the award to.
add_to_list(t, m) ==
    /\ saving[t] = NoMovie /\ t \notin profiled
    /\ saving' = [saving EXCEPT ![t] = m]
    /\ loaded' = [loaded EXCEPT ![t] = xp[Owner(t)]]
    /\ UNCHANGED <<entry, xp, award, profiled, earned, lost, ratingVars>>

\* A score counts for a movie that is being watched, completed or dropped.
CleanScore(status, score) == IF status \in {1, 2, 4} THEN score ELSE NoScore

\* Mutant: every row saved as completed is awarded.
Awarded_Again(u, m, status) == status = COMPLETED

\* Only the row that is created as completed.
Awarded(u, m, status) == status = COMPLETED /\ entry[u][m] = NoEntry

Done(t) == /\ saving' = [saving EXCEPT ![t] = NoMovie]
           /\ loaded' = [loaded EXCEPT ![t] = 0]

\* recompute_rating_on_score_change: every save or deletion of a row queues a job.
Enqueue(m) ==
    /\ jobs[m] < MaxJobs
    /\ jobs' = [jobs EXCEPT ![m] = @ + 1]
    /\ unsettled' = unsettled \ {m}

\* update_or_create, which commits, and queues the recomputation.
SaveEntry(t, status, score) ==
    LET u == Owner(t)  m == saving[t]
        create == status = COMPLETED /\ entry[u][m] = NoEntry IN
    /\ saving[t] # NoMovie /\ ~award[t]
    /\ entry' = [entry EXCEPT ![u][m] = [status |-> status,
                                         score |-> CleanScore(status, score)]]
    /\ Enqueue(m)
    /\ earned' = [earned EXCEPT ![u] = IF create THEN @ + 1 ELSE @]
    /\ \/ Awarded(u, m, status) /\ award' = [award EXCEPT ![t] = TRUE] /\ UNCHANGED <<saving, loaded>>
       \/ ~Awarded(u, m, status) /\ Done(t) /\ UNCHANGED award
    /\ UNCHANGED <<xp, profiled, lost, rating, working, aggregate, overtaken>>

\* The broker is down: the row is saved, the job is not, and the error ends the request.
SaveEntryUnqueued(t, status, score) ==
    LET u == Owner(t)  m == saving[t]
        create == status = COMPLETED /\ entry[u][m] = NoEntry
        one == IF create THEN 1 ELSE 0 IN
    /\ saving[t] # NoMovie /\ ~award[t]
    /\ entry' = [entry EXCEPT ![u][m] = [status |-> status,
                                         score |-> CleanScore(status, score)]]
    /\ unsettled' = unsettled \cup {m}
    /\ earned' = [earned EXCEPT ![u] = @ + one]
    /\ lost' = [lost EXCEPT ![u] = @ + one]
    /\ Done(t)
    /\ UNCHANGED <<xp, award, profiled, rating, jobs, working, aggregate, overtaken>>

\* profile.xp += 100, saved over whatever was written since the profile was loaded.
Award(t) ==
    LET u == Owner(t) IN
    /\ award[t]
    /\ xp' = [xp EXCEPT ![u] = loaded[t] + 1]
    /\ lost' = [lost EXCEPT ![u] = @ + xp[u] - loaded[t]]
    /\ award' = [award EXCEPT ![t] = FALSE]
    /\ Done(t)
    /\ UNCHANGED <<entry, profiled, earned, ratingVars>>

-----------------------------------------------------------------------------
(* The other writers of the rows                                           *)

\* The settings page, PATCH /me and the profile in the editor's user page, whichever tab
\* it is: the profile is loaded,
LoadProfile(t) ==
    /\ saving[t] = NoMovie /\ t \notin profiled
    /\ profiled' = profiled \cup {t}
    /\ loaded' = [loaded EXCEPT ![t] = xp[Owner(t)]]
    /\ UNCHANGED <<entry, xp, saving, award, earned, lost, ratingVars>>

\* and saved without update_fields.
SaveProfile(t) ==
    LET u == Owner(t) IN
    /\ t \in profiled
    /\ xp' = [xp EXCEPT ![u] = loaded[t]]
    /\ lost' = [lost EXCEPT ![u] = @ + xp[u] - loaded[t]]
    /\ profiled' = profiled \ {t}
    /\ Done(t)
    /\ UNCHANGED <<entry, award, earned, ratingVars>>

\* An editor deletes the row, which queues a recomputation as well.
DeleteEntry(u, m) ==
    /\ entry[u][m] # NoEntry
    /\ entry' = [entry EXCEPT ![u][m] = NoEntry]
    /\ Enqueue(m)
    /\ UNCHANGED <<xpVars, rating, working, aggregate, overtaken>>

\* The API (WatchlistViewSet) saves the row alone: it awards nothing, and keeps the score
\* whatever the status is.
ApiSaveEntry(u, m, status, score) ==
    /\ entry' = [entry EXCEPT ![u][m] = [status |-> status, score |-> score]]
    /\ Enqueue(m)
    /\ UNCHANGED <<xpVars, rating, working, aggregate, overtaken>>

\* PUT and PATCH may name another movie, one without a row; the signal sees the new one only.
ApiMoveEntry(u, m, n, status, score) ==
    /\ entry[u][m] # NoEntry /\ entry[u][n] = NoEntry
    /\ entry' = [entry EXCEPT ![u][m] = NoEntry,
                              ![u][n] = [status |-> status, score |-> score]]
    /\ jobs[n] < MaxJobs /\ jobs' = [jobs EXCEPT ![n] = @ + 1]
    /\ unsettled' = (unsettled \ {n}) \cup {m}
    /\ UNCHANGED <<xpVars, rating, working, aggregate, overtaken>>

-----------------------------------------------------------------------------
(* recompute_movie_rating                                                  *)

Scored(m) == {u \in User : entry[u][m].score # NoScore}

Scores(m) == [u \in Scored(m) |-> entry[u][m].score]

Rated(scores) == [sum |-> MapThenSumSet(LAMBDA u : scores[u], DOMAIN scores),
                  votes |-> Cardinality(DOMAIN scores)]

Aggregate(m) == Rated(Scores(m))

ReadScores(w, m) ==
    /\ working[w] = NoMovie /\ jobs[m] > 0
    /\ jobs' = [jobs EXCEPT ![m] = @ - 1]
    /\ working' = [working EXCEPT ![w] = m]
    /\ aggregate' = [aggregate EXCEPT ![w] = Aggregate(m)]
    /\ overtaken' = [overtaken EXCEPT ![w] = FALSE]
    /\ UNCHANGED <<entry, xpVars, rating, unsettled>>

\* Mutant: the rating is only written once there is a vote.
Written_Voted(w) ==
    IF aggregate[w].votes = 0 THEN rating[working[w]] ELSE aggregate[w]

\* Without votes the rating falls back to 0.
Written(w) == aggregate[w]

WriteRating(w) ==
    LET m == working[w] IN
    /\ m # NoMovie
    /\ rating' = [rating EXCEPT ![m] = Written(w)]
    /\ overtaken' = [v \in Worker |-> IF v = w THEN FALSE ELSE overtaken[v] \/ working[v] = m]
    /\ unsettled' = IF overtaken[w] THEN unsettled \cup {m} ELSE unsettled
    /\ working' = [working EXCEPT ![w] = NoMovie]
    /\ aggregate' = [aggregate EXCEPT ![w] = Unrated]
    /\ UNCHANGED <<entry, xpVars, jobs>>

\* An editor's save of the movie's page writes the whole row, its rating as it was loaded.
SaveMovieRow(m, r) ==
    /\ rating' = [rating EXCEPT ![m] = r]
    /\ unsettled' = unsettled \cup {m}
    /\ UNCHANGED <<entry, xpVars, jobs, working, aggregate, overtaken>>

-----------------------------------------------------------------------------
ListsNext ==
    \/ \E t \in Tab :
          \/ \E m \in Movie : add_to_list(t, m)
          \/ \E s \in Status, c \in Score \cup {NoScore} :
                SaveEntry(t, s, c) \/ SaveEntryUnqueued(t, s, c)
          \/ Award(t)
          \/ LoadProfile(t)
          \/ SaveProfile(t)
    \/ \E u \in User, m \in Movie :
          \/ DeleteEntry(u, m)
          \/ \E s \in Status, c \in Score \cup {NoScore} :
                \/ ApiSaveEntry(u, m, s, c)
                \/ \E n \in Movie : ApiMoveEntry(u, m, n, s, c)
    \/ \E m \in Movie : \E r \in {Unrated, rating[m]} : SaveMovieRow(m, r)
    \/ \E w \in Worker : (\E m \in Movie : ReadScores(w, m)) \/ WriteRating(w)

-----------------------------------------------------------------------------
(* Properties                                                              *)

ListsTypeOK ==
    /\ entry \in [User -> [Movie -> [status : Status \cup {0}, score : Score \cup {NoScore}]]]
    /\ xp \in [User -> Nat] /\ earned \in [User -> Nat] /\ lost \in [User -> Int]
    /\ rating \in [Movie -> [sum : Nat, votes : Nat]]
    /\ jobs \in [Movie -> 0..MaxJobs]
    /\ working \in [Worker -> Movie \cup {NoMovie}]
    /\ aggregate \in [Worker -> [sum : Nat, votes : Nat]]
    /\ overtaken \in [Worker -> BOOLEAN]
    /\ saving \in [Tab -> Movie \cup {NoMovie}]
    /\ loaded \in [Tab -> Nat] /\ award \in [Tab -> BOOLEAN] /\ profiled \subseteq Tab
    /\ unsettled \subseteq Movie

\* Once no recomputation waits or runs, a movie's rating is the one of the scores in the
\* lists, whoever scored, re-scored and deleted in whatever order. Four things leave it
\* wrong, each until the next job of the movie: one lost with the broker, one written after
\* a newer one, an editor's save of the movie's row, and a row the API has moved to another
\* movie, whose old movie is told nothing.
RatingAgrees ==
    \A m \in Movie \ unsettled :
        jobs[m] = 0 /\ (\A w \in Worker : working[w] # m) => rating[m] = Aggregate(m)

\* No award is given twice: the XP of a user and the awards under way are at most one per
\* row he has created as completed, whatever two tabs and the forms that save a whole
\* profile write over each other; and they fall short of it by the awards of failed
\* requests and those that were overwritten.
XpAccounted ==
    \A u \in User :
        /\ xp[u] + lost[u] + Cardinality({t \in Tab : Owner(t) = u /\ award[t]}) = earned[u]
        /\ lost[u] >= 0
=============================================================================
