--------------------------- MODULE ViewingProofs ----------------------------
(***************************************************************************)
(* What viewers do: ratings and XP agree with the lists, and who is        *)
(* followed is told; and what they see: pictures are stored, and the next  *)
(* episode is in the list; for any users, movies, scores, tabs, workers    *)
(* and bounds. The components share no variable.                           *)
(***************************************************************************)
EXTENDS Lists, Social, Pictures, Watching, FiniteSetTheorems, SequenceTheorems,
        WellFoundedInduction, TLAPS

-----------------------------------------------------------------------------
(***************************************************************************)
(* Lists: ratings and XP                                                   *)
(*                                                                         *)
(* A rating that no task is going to recompute is the average of the       *)
(* scores there are, and a task about to write a rating has read the       *)
(* scores there are, unless it was overtaken. What a request has loaded of *)
(* a user's XP is no more than the awards that were written or lost.       *)
(***************************************************************************)
\* The domains of the tables.
ListsShape ==
    /\ entry \in [User -> [Movie -> [status : Status \cup {0}, score : Score \cup {NoScore}]]]
    /\ rating = [m \in Movie |-> rating[m]]
    /\ jobs \in [Movie -> Nat]
    /\ working \in [Worker -> Movie \cup {NoMovie}]
    /\ aggregate = [w \in Worker |-> aggregate[w]]
    /\ overtaken \in [Worker -> BOOLEAN]
    /\ saving \in [Tab -> Movie \cup {NoMovie}]
    /\ unsettled \subseteq Movie

\* The rating of a movie is settled, or a worker has read the scores as they are, or one
\* was overtaken and will leave the movie unsettled.
Settled(m) == rating[m] = Aggregate(m) /\ \A w \in Worker : working[w] # m

Settling(m) ==
    \E w \in Worker : working[w] = m /\ (overtaken[w] \/ aggregate[w] = Aggregate(m))

RatingIsComing == \A m \in Movie \ unsettled : jobs[m] = 0 => Settled(m) \/ Settling(m)

RatingIInv == ListsShape /\ RatingIsComing

USE SiteAssumption, ListsAssumption DEF SiteAssumption, ListsAssumption

\* The rating of a movie depends on the rows of that movie.
LEMMA AggregateKept ==
  ASSUME NEW m, \A u \in User : entry'[u][m] = entry[u][m]
  PROVE  Aggregate(m)' = Aggregate(m)
<1>1. Scored(m)' = Scored(m)
  BY DEF Scored
<1>2. Scores(m)' = Scores(m)
  BY <1>1 DEF Scores, Scored
<1>3. Rated(Scores(m))' = Rated(Scores(m)')
  BY DEF Rated, MapThenSumSet, MapThenFoldSet
<1> QED
  BY <1>2, <1>3 DEF Aggregate

\* Without scores the rating is 0.
LEMMA NoScores == ASSUME NEW scores, DOMAIN scores = {} PROVE Rated(scores) = Unrated
<1> DEFINE Unfolds(sum) ==
             sum = [s \in SUBSET {} |->
                      IF s = {} THEN 0
                      ELSE scores[CHOOSE u \in s : TRUE] + sum[s \ {CHOOSE u \in s : TRUE}]]
<1>1. MapThenSumSet(LAMBDA u : scores[u], {}) = (CHOOSE sum : Unfolds(sum))[{}]
  BY DEF MapThenSumSet, MapThenFoldSet
<1>2. Unfolds([s \in SUBSET {} |-> 0])
  OBVIOUS
<1>3. PICK sum : sum = (CHOOSE f : Unfolds(f)) /\ Unfolds(sum)
  <2> HIDE DEF Unfolds
  <2> QED
    BY <1>2
<1>4. sum[{}] = 0
  BY <1>3
<1>5. Cardinality({}) = 0
  BY FS_EmptySet
<1> QED
  BY <1>1, <1>3, <1>4, <1>5 DEF Rated, Unrated

\* Nobody has scored a movie, and no movie is rated.
LEMMA RatingInit == ListsInit => RatingIInv
<1> SUFFICES ASSUME ListsInit PROVE RatingIInv
  OBVIOUS
<1> USE DEF ListsInit
<1>1. ListsShape
  BY DEF ListsShape, NoEntry
<1>2. ASSUME NEW m \in Movie PROVE Aggregate(m) = Unrated
  <2>1. Scored(m) = {}
    BY DEF Scored, NoEntry
  <2>2. DOMAIN Scores(m) = {}
    BY <2>1 DEF Scores
  <2> QED
    BY <2>2, NoScores DEF Aggregate
<1> QED
  BY <1>1, <1>2 DEF RatingIInv, RatingIsComing, Settled

\* Saving or deleting a row queues a recomputation of its movie, or leaves it unsettled.
LEMMA RowStep ==
  ASSUME RatingIInv, NEW v \in User, NEW n \in Movie,
         NEW e \in [status : Status \cup {0}, score : Score \cup {NoScore}],
         entry' = [entry EXCEPT ![v][n] = e],
         \/ Enqueue(n)
         \/ (unsettled' = unsettled \cup {n} /\ jobs' = jobs),
         saving' \in [Tab -> Movie \cup {NoMovie}],
         UNCHANGED <<rating, working, aggregate, overtaken>>
  PROVE  RatingIInv'
<1> USE DEF RatingIInv, Enqueue
<1>1. ListsShape'
  <2>1. entry' \in [User -> [Movie -> [status : Status \cup {0}, score : Score \cup {NoScore}]]]
    BY DEF ListsShape
  <2>2. jobs' \in [Movie -> Nat] /\ unsettled' \subseteq Movie
    <3>1. jobs \in [Movie -> Nat] /\ unsettled \subseteq Movie
      BY DEF ListsShape
    <3>2. CASE Enqueue(n)
      BY <3>1, <3>2
    <3>3. CASE unsettled' = unsettled \cup {n} /\ jobs' = jobs
      BY <3>1, <3>3
    <3> QED
      BY <3>2, <3>3
  <2> QED
    BY <2>1, <2>2 DEF ListsShape
<1>2. ASSUME NEW m \in Movie \ unsettled', jobs'[m] = 0
      PROVE  Settled(m)' \/ Settling(m)'
  <2>1. m # n /\ jobs[m] = 0 /\ m \notin unsettled
    BY <1>2 DEF ListsShape
  <2>2. \A u \in User : entry'[u][m] = entry[u][m]
    BY <2>1 DEF ListsShape
  <2>3. Aggregate(m)' = Aggregate(m)
    BY <2>2, AggregateKept
  <2> QED
    BY <1>2, <2>1, <2>3 DEF RatingIsComing, Settled, Settling
<1>3. RatingIsComing'
  BY <1>2 DEF RatingIsComing
<1> QED
  BY <1>1, <1>3

\* A row that is moved is a new one for the movie it goes to, and leaves the other unsettled.
LEMMA MoveStep ==
  ASSUME RatingIInv, NEW u \in User, NEW m \in Movie, NEW n \in Movie, NEW s \in Status,
         NEW c \in Score \cup {NoScore}, ApiMoveEntry(u, m, n, s, c)
  PROVE  RatingIInv'
<1> USE DEF RatingIInv
<1>1. PICK e \in [status : Status \cup {0}, score : Score \cup {NoScore}] :
        e = [status |-> s, score |-> c]
  OBVIOUS
<1>2. NoEntry \in [status : Status \cup {0}, score : Score \cup {NoScore}]
  BY DEF NoEntry
<1>3. /\ entry' = [entry EXCEPT ![u][m] = NoEntry, ![u][n] = e]
      /\ jobs' = [jobs EXCEPT ![n] = @ + 1]
      /\ unsettled' = (unsettled \ {n}) \cup {m}
      /\ UNCHANGED <<saving, rating, working, aggregate, overtaken>>
  BY <1>1 DEF ApiMoveEntry, xpVars
<1>4. ListsShape'
  <2>1. entry' \in [User -> [Movie -> [status : Status \cup {0}, score : Score \cup {NoScore}]]]
    BY <1>2, <1>3 DEF ListsShape
  <2>2. jobs' \in [Movie -> Nat] /\ unsettled' \subseteq Movie
    BY <1>3 DEF ListsShape
  <2> QED
    BY <1>3, <2>1, <2>2 DEF ListsShape
<1>5. ASSUME NEW k \in Movie \ unsettled', jobs'[k] = 0
      PROVE  Settled(k)' \/ Settling(k)'
  <2>1. k # m /\ k # n /\ jobs[k] = 0 /\ k \notin unsettled
    BY <1>3, <1>5 DEF ListsShape
  <2>2. \A v \in User : entry'[v][k] = entry[v][k]
    BY <1>3, <2>1 DEF ListsShape
  <2>3. Aggregate(k)' = Aggregate(k)
    BY <2>2, AggregateKept
  <2> QED
    BY <1>3, <2>1, <2>3 DEF RatingIsComing, Settled, Settling
<1> QED
  BY <1>4, <1>5 DEF RatingIsComing

\* A worker that starts has read the scores as they are.
LEMMA ReadStep ==
  ASSUME RatingIInv, NEW w \in Worker, NEW n \in Movie, ReadScores(w, n)
  PROVE  RatingIInv'
<1> USE DEF RatingIInv
<1>1. /\ working[w] = NoMovie /\ jobs[n] > 0
      /\ jobs' = [jobs EXCEPT ![n] = @ - 1]
      /\ working' = [working EXCEPT ![w] = n]
      /\ aggregate' = [aggregate EXCEPT ![w] = Aggregate(n)]
      /\ overtaken' = [overtaken EXCEPT ![w] = FALSE]
      /\ UNCHANGED <<entry, rating, unsettled, saving>>
  BY DEF ReadScores, xpVars
<1>2. ListsShape'
  <2>1. overtaken' \in [Worker -> BOOLEAN]
    <3>1. overtaken \in [Worker -> BOOLEAN]
      BY DEF ListsShape
    <3> QED
      BY <1>1, <3>1, Zenon
  <2>2. /\ jobs' \in [Movie -> Nat] /\ working' \in [Worker -> Movie \cup {NoMovie}]
    BY <1>1 DEF ListsShape
  <2>3. aggregate' = [v \in Worker |-> aggregate'[v]]
    <3>1. aggregate = [v \in Worker |-> aggregate[v]]
      BY DEF ListsShape
    <3>2. aggregate' = [aggregate EXCEPT ![w] = Aggregate(n)]
      BY <1>1
    <3> QED
      BY <3>1, <3>2, Zenon
  <2>4. UNCHANGED <<entry, rating, unsettled, saving>>
    BY <1>1
  <2>5. /\ rating' = [m \in Movie |-> rating'[m]] /\ unsettled' \subseteq Movie
        /\ saving' \in [Tab -> Movie \cup {NoMovie}]
    BY <2>4 DEF ListsShape
  <2>6. entry' \in [User -> [Movie -> [status : Status \cup {0}, score : Score \cup {NoScore}]]]
    BY <2>4 DEF ListsShape
  <2> HIDE DEF RatingIInv
  <2> QED
    BY <2>1, <2>2, <2>3, <2>5, <2>6 DEF ListsShape
<1>3. \A m : Aggregate(m)' = Aggregate(m)
  BY <1>1, AggregateKept
<1>4. /\ working'[w] = n /\ aggregate'[w] = Aggregate(n)
      /\ \A v \in Worker \ {w} : /\ working'[v] = working[v] /\ aggregate'[v] = aggregate[v]
                               /\ overtaken'[v] = overtaken[v]
      /\ \A m \in Movie \ {n} : jobs'[m] = jobs[m]
  BY <1>1 DEF ListsShape
<1>5. RatingIsComing'
  <2>1. ASSUME NEW m \in Movie \ unsettled', jobs'[m] = 0
        PROVE  Settled(m)' \/ Settling(m)'
    <3>1. CASE m = n
      BY <1>3, <1>4, <3>1 DEF Settling
    <3>2. CASE m # n
      <4>1. jobs[m] = 0 /\ m \notin unsettled
        BY <1>1, <1>4, <2>1, <3>2
      <4> QED
        BY <1>1, <1>3, <1>4, <3>2, <4>1 DEF RatingIsComing, Settled, Settling
    <3> QED
      BY <3>1, <3>2
  <2> QED
    BY <2>1 DEF RatingIsComing
<1> QED
  BY <1>2, <1>5

\* A worker that was not overtaken settles the rating, or overtakes those who are left.
LEMMA WriteStep ==
  ASSUME RatingIInv, NEW w \in Worker, WriteRating(w)
  PROVE  RatingIInv'
<1> USE DEF RatingIInv
<1>1. PICK n \in Movie : n = working[w]
  BY DEF WriteRating, ListsShape
<1>2. /\ rating' = [rating EXCEPT ![n] = aggregate[w]]
      /\ unsettled' = IF overtaken[w] THEN unsettled \cup {n} ELSE unsettled
      /\ working' = [working EXCEPT ![w] = NoMovie]
      /\ aggregate' = [aggregate EXCEPT ![w] = Unrated]
      /\ UNCHANGED <<entry, jobs, saving>>
  BY <1>1 DEF WriteRating, Written, xpVars
<1>3. overtaken' \in [Worker -> BOOLEAN]
  <2>1. \A v \in Worker :
          (IF v = w THEN FALSE ELSE overtaken[v] \/ working[v] = working[w]) \in BOOLEAN
    OBVIOUS
  <2> QED
    BY <2>1, Zenon DEF WriteRating
<1>4. \A v \in Worker \ {w} : overtaken'[v] <=> (overtaken[v] \/ working[v] = n)
  BY <1>1, Zenon DEF WriteRating
<1>5. ListsShape'
  BY <1>2, <1>3 DEF ListsShape
<1>6. \A m : Aggregate(m)' = Aggregate(m)
  BY <1>2, AggregateKept
<1>7. \A v \in Worker \ {w} : working'[v] = working[v] /\ aggregate'[v] = aggregate[v]
  BY <1>2 DEF ListsShape
<1>8. working'[w] = NoMovie
  BY <1>2 DEF ListsShape
<1>9. RatingIsComing'
  <2>1. ASSUME NEW m \in Movie \ unsettled', jobs'[m] = 0
        PROVE  Settled(m)' \/ Settling(m)'
    <3>1. jobs[m] = 0 /\ m \notin unsettled /\ (m = n => ~overtaken[w])
      BY <1>2, <2>1
    <3>2. CASE m = n /\ \E v \in Worker \ {w} : working[v] = n
      BY <1>4, <1>7, <3>2 DEF Settling
    <3>3. CASE m = n /\ \A v \in Worker \ {w} : working[v] # n
      <4>1. aggregate[w] = Aggregate(m)
        BY <1>1, <3>1, <3>3 DEF RatingIsComing, Settled, Settling, ListsShape
      <4>2. rating'[m] = aggregate[w]
        BY <1>2, <3>3 DEF ListsShape
      <4> QED
        BY <1>6, <1>7, <1>8, <3>3, <4>1, <4>2 DEF Settled
    <3>4. CASE m # n
      <4>1. rating'[m] = rating[m]
        BY <1>2, <3>4 DEF ListsShape
      <4> QED
        BY <1>1, <1>4, <1>6, <1>7, <1>8, <3>1, <3>4, <4>1
           DEF RatingIsComing, Settled, Settling
    <3> QED
      BY <3>2, <3>3, <3>4
  <2> QED
    BY <2>1 DEF RatingIsComing
<1> QED
  BY <1>5, <1>9

\* Steps that leave the rows, the movies they rate and the workers alone.
LEMMA RatingKept ==
  ASSUME RatingIInv, UNCHANGED <<entry, jobs, working, aggregate, overtaken>>,
         saving' \in [Tab -> Movie \cup {NoMovie}],
         unsettled \subseteq unsettled', unsettled' \subseteq Movie,
         rating' = [m \in Movie |-> rating'[m]],
         \A m \in Movie \ unsettled' : rating'[m] = rating[m]
  PROVE  RatingIInv'
<1>1. \A m : Aggregate(m)' = Aggregate(m)
  BY AggregateKept
<1>2. ListsShape'
  BY DEF RatingIInv, ListsShape
<1>3. RatingIsComing'
  BY <1>1 DEF RatingIInv, RatingIsComing, Settled, Settling
<1> QED
  BY <1>2, <1>3 DEF RatingIInv

\* The invariant is inductive.
LEMMA RatingStep == RatingIInv /\ [ListsNext]_listsVars => RatingIInv'
<1> SUFFICES ASSUME RatingIInv, [ListsNext]_listsVars PROVE RatingIInv'
  OBVIOUS
<1> USE DEF RatingIInv
<1>1. ASSUME NEW t \in Tab,
             (\E m \in Movie : add_to_list(t, m)) \/ Award(t) \/ LoadProfile(t) \/ SaveProfile(t)
      PROVE  RatingIInv'
  <2>1. UNCHANGED <<entry, ratingVars>> /\ saving' \in [Tab -> Movie \cup {NoMovie}]
    BY <1>1 DEF add_to_list, Award, LoadProfile, SaveProfile, Done, ListsShape
  <2> QED
    BY <2>1, RatingKept DEF ratingVars, ListsShape
<1>2. ASSUME NEW t \in Tab, NEW s \in Status, NEW c \in Score \cup {NoScore},
             SaveEntry(t, s, c) \/ SaveEntryUnqueued(t, s, c)
      PROVE  RatingIInv'
  <2>1. saving[t] \in Movie /\ Owner(t) \in User
    BY <1>2 DEF SaveEntry, SaveEntryUnqueued, ListsShape
  <2>2. [status |-> s, score |-> CleanScore(s, c)]
          \in [status : Status \cup {0}, score : Score \cup {NoScore}]
    BY DEF CleanScore
  <2>3. /\ entry' = [entry EXCEPT ![Owner(t)][saving[t]]
                       = [status |-> s, score |-> CleanScore(s, c)]]
        /\ \/ Enqueue(saving[t])
           \/ (unsettled' = unsettled \cup {saving[t]} /\ jobs' = jobs)
        /\ UNCHANGED <<rating, working, aggregate, overtaken>>
    BY <1>2 DEF SaveEntry, SaveEntryUnqueued
  <2>4. saving' \in [Tab -> Movie \cup {NoMovie}]
    BY <1>2 DEF SaveEntry, SaveEntryUnqueued, Done, ListsShape
  <2> QED
    BY <2>1, <2>2, <2>3, <2>4, RowStep
<1>3. ASSUME NEW u \in User, NEW m \in Movie,
             \/ DeleteEntry(u, m)
             \/ \E s \in Status, c \in Score \cup {NoScore} : ApiSaveEntry(u, m, s, c)
      PROVE  RatingIInv'
  <2>1. PICK e \in [status : Status \cup {0}, score : Score \cup {NoScore}] :
          entry' = [entry EXCEPT ![u][m] = e]
    BY <1>3 DEF DeleteEntry, ApiSaveEntry, NoEntry
  <2>2. Enqueue(m) /\ UNCHANGED <<rating, working, aggregate, overtaken, saving>>
    BY <1>3 DEF DeleteEntry, ApiSaveEntry, xpVars
  <2> QED
    BY <2>1, <2>2, RowStep DEF ListsShape
<1>4. ASSUME NEW m \in Movie, NEW r, SaveMovieRow(m, r) PROVE RatingIInv'
  BY <1>4, RatingKept DEF SaveMovieRow, xpVars, ListsShape
<1>5. CASE UNCHANGED listsVars
  BY <1>5, RatingKept DEF listsVars, ListsShape
<1> QED
  BY <1>1, <1>2, <1>3, <1>4, <1>5, MoveStep, ReadStep, WriteStep DEF ListsNext

\* recompute_movie_rating: once no recomputation waits or runs, the rating of a movie is
\* the one of the scores in the lists, in every reachable state.
THEOREM RatingAgreesHolds == ListsInit /\ [][ListsNext]_listsVars => []RatingAgrees
<1>1. RatingIInv => RatingAgrees
  BY DEF RatingIInv, RatingIsComing, Settled, Settling, RatingAgrees
<1> QED
  BY <1>1, RatingInit, RatingStep, PTL

\* The awards that are still to be written.
Awarding(u) == {t \in Tab : Owner(t) = u /\ award[t]}

XpShape ==
    /\ xp \in [User -> Int] /\ earned \in [User -> Int] /\ lost \in [User -> Int]
    /\ loaded \in [Tab -> Int] /\ award \in [Tab -> BOOLEAN]

XpBalanced == \A u \in User : xp[u] + lost[u] + Cardinality(Awarding(u)) = earned[u]

XpIInv == XpShape /\ XpBalanced /\ \A u \in User : IsFiniteSet(Awarding(u))

\* Steps that write one user's numbers and keep their balance.
LEMMA XpMoved ==
  ASSUME XpIInv, XpShape', NEW u \in User, NEW n \in Int,
         xp'[u] + lost'[u] + n = xp[u] + lost[u] + (earned'[u] - earned[u]),
         IsFiniteSet(Awarding(u)'), Cardinality(Awarding(u)') = Cardinality(Awarding(u)) + n,
         \A v \in User \ {u} : xp'[v] = xp[v] /\ lost'[v] = lost[v] /\ earned'[v] = earned[v],
         \A v \in User \ {u} : Awarding(v)' = Awarding(v)
  PROVE  XpIInv'
<1>1. ASSUME NEW v \in User
      PROVE  xp'[v] + lost'[v] + Cardinality(Awarding(v)') = earned'[v]
  <2>1. xp[v] + lost[v] + Cardinality(Awarding(v)) = earned[v]
    BY DEF XpIInv, XpBalanced
  <2>2. Cardinality(Awarding(v)) \in Nat
    BY FS_CardinalityType DEF XpIInv
  <2> QED
    BY <2>1, <2>2 DEF XpIInv, XpShape
<1>2. XpBalanced'
  BY <1>1 DEF XpBalanced
<1>3. \A v \in User : IsFiniteSet(Awarding(v)')
  BY DEF XpIInv
<1> QED
  BY <1>2, <1>3 DEF XpIInv

\* Steps that write none of them.
LEMMA XpKept ==
  ASSUME XpIInv, XpShape', UNCHANGED <<xp, earned, lost, award>>
  PROVE  XpIInv'
<1>1. \A u : Awarding(u)' = Awarding(u)
  BY DEF Awarding
<1> QED
  BY <1>1 DEF XpIInv, XpBalanced

\* The invariant is inductive: an award is earned, then awaited, then in xp or lost.
LEMMA XpStep == XpIInv /\ [ListsNext]_listsVars => XpIInv'
<1> SUFFICES ASSUME XpIInv, [ListsNext]_listsVars PROVE XpIInv'
  OBVIOUS
<1> USE DEF XpIInv
<1>1. ASSUME NEW t \in Tab, NEW m \in Movie, add_to_list(t, m) PROVE XpIInv'
  BY <1>1, XpKept DEF add_to_list, XpShape
<1>2. ASSUME NEW t \in Tab, NEW s \in Status, NEW c \in Score \cup {NoScore},
             SaveEntry(t, s, c)
      PROVE  XpIInv'
  <2>1. PICK u \in User : u = Owner(t)
    OBVIOUS
  <2>2. CASE s = COMPLETED /\ entry[u][saving[t]] = NoEntry
    <3>1. /\ earned' = [earned EXCEPT ![u] = @ + 1] /\ award' = [award EXCEPT ![t] = TRUE]
          /\ ~award[t] /\ UNCHANGED <<xp, lost, loaded>>
      BY <1>2, <2>1, <2>2 DEF SaveEntry, Awarded
    <3>2. XpShape'
      BY <3>1 DEF XpShape
    <3>3. award'[t] /\ \A b \in Tab \ {t} : award'[b] = award[b]
      BY <3>1 DEF XpShape
    <3>4. /\ Awarding(u)' = Awarding(u) \cup {t} /\ t \notin Awarding(u)
          /\ \A v \in User \ {u} : Awarding(v)' = Awarding(v)
      BY <2>1, <3>1, <3>3 DEF Awarding
    <3>5. IsFiniteSet(Awarding(u)') /\ Cardinality(Awarding(u)') = Cardinality(Awarding(u)) + 1
      BY <3>4, FS_AddElement
    <3>6. xp'[u] + lost'[u] + 1 = xp[u] + lost[u] + (earned'[u] - earned[u])
      BY <3>1 DEF XpShape
    <3>7. \A v \in User \ {u} : /\ xp'[v] = xp[v] /\ lost'[v] = lost[v]
                                 /\ earned'[v] = earned[v]
      BY <3>1 DEF XpShape
    <3>8. \A v \in User \ {u} : Awarding(v)' = Awarding(v)
      BY <3>4
    <3> QED
      BY <3>2, <3>5, <3>6, <3>7, <3>8, XpMoved
  <2>3. CASE ~(s = COMPLETED /\ entry[u][saving[t]] = NoEntry)
    <3>1. UNCHANGED <<xp, lost, award>> /\ earned' = [earned EXCEPT ![u] = @]
          /\ loaded' = [loaded EXCEPT ![t] = 0]
      BY <1>2, <2>1, <2>3 DEF SaveEntry, Awarded, Done
    <3> QED
      BY <3>1, XpKept DEF XpShape
  <2> QED
    BY <2>2, <2>3
<1>3. ASSUME NEW t \in Tab, NEW s \in Status, NEW c \in Score \cup {NoScore},
             SaveEntryUnqueued(t, s, c)
      PROVE  XpIInv'
  <2>1. PICK u \in User, one \in {0, 1} :
          /\ u = Owner(t) /\ earned' = [earned EXCEPT ![u] = @ + one]
          /\ lost' = [lost EXCEPT ![u] = @ + one] /\ UNCHANGED <<xp, award>>
          /\ loaded' = [loaded EXCEPT ![t] = 0]
    BY <1>3 DEF SaveEntryUnqueued, Done
  <2>2. XpShape'
    BY <2>1 DEF XpShape
  <2>3. \A v : Awarding(v)' = Awarding(v)
    BY <2>1 DEF Awarding
  <2>4. xp'[u] + lost'[u] + 0 = xp[u] + lost[u] + (earned'[u] - earned[u])
    BY <2>1 DEF XpShape
  <2>5. \A v \in User \ {u} : xp'[v] = xp[v] /\ lost'[v] = lost[v] /\ earned'[v] = earned[v]
    BY <2>1 DEF XpShape
  <2>6. Cardinality(Awarding(u)) = Cardinality(Awarding(u)) + 0
    BY FS_CardinalityType
  <2> QED
    BY <2>2, <2>3, <2>4, <2>5, <2>6, XpMoved
<1>4. ASSUME NEW t \in Tab, Award(t) PROVE XpIInv'
  <2>1. PICK u \in User : u = Owner(t)
    OBVIOUS
  <2>2. /\ award[t] /\ xp' = [xp EXCEPT ![u] = loaded[t] + 1]
        /\ lost' = [lost EXCEPT ![u] = @ + xp[u] - loaded[t]]
        /\ award' = [award EXCEPT ![t] = FALSE]
        /\ loaded' = [loaded EXCEPT ![t] = 0] /\ earned' = earned
    BY <1>4, <2>1 DEF Award, Done
  <2>3. XpShape'
    BY <2>2 DEF XpShape
  <2>4. ~award'[t] /\ \A b \in Tab \ {t} : award'[b] = award[b]
    BY <2>2 DEF XpShape
  <2>5. /\ Awarding(u)' = Awarding(u) \ {t} /\ t \in Awarding(u)
        /\ \A v \in User \ {u} : Awarding(v)' = Awarding(v)
    BY <2>1, <2>2, <2>4 DEF Awarding
  <2>6. /\ IsFiniteSet(Awarding(u)')
        /\ Cardinality(Awarding(u)') = Cardinality(Awarding(u)) + (-1)
    <3>1. Cardinality(Awarding(u)') = Cardinality(Awarding(u)) - 1 /\ IsFiniteSet(Awarding(u)')
      BY <2>5, FS_RemoveElement
    <3>2. Cardinality(Awarding(u)) \in Nat
      BY FS_CardinalityType
    <3> QED
      BY <3>1, <3>2
  <2>7. xp'[u] + lost'[u] + (-1) = xp[u] + lost[u] + (earned'[u] - earned[u])
    BY <2>2 DEF XpShape
  <2>8. \A v \in User \ {u} : xp'[v] = xp[v] /\ lost'[v] = lost[v] /\ earned'[v] = earned[v]
    BY <2>2 DEF XpShape
  <2>9. \A v \in User \ {u} : Awarding(v)' = Awarding(v)
    BY <2>5
  <2> QED
    BY <2>3, <2>6, <2>7, <2>8, <2>9, XpMoved
<1>5. ASSUME NEW t \in Tab, LoadProfile(t) PROVE XpIInv'
  BY <1>5, XpKept DEF LoadProfile, XpShape
<1>6. ASSUME NEW t \in Tab, SaveProfile(t) PROVE XpIInv'
  <2>1. PICK u \in User : u = Owner(t)
    OBVIOUS
  <2>2. /\ xp' = [xp EXCEPT ![u] = loaded[t]]
        /\ lost' = [lost EXCEPT ![u] = @ + xp[u] - loaded[t]]
        /\ loaded' = [loaded EXCEPT ![t] = 0] /\ UNCHANGED <<award, earned>>
    BY <1>6, <2>1 DEF SaveProfile, Done
  <2>3. XpShape'
    BY <2>2 DEF XpShape
  <2>4. \A v : Awarding(v)' = Awarding(v)
    BY <2>2 DEF Awarding
  <2>5. xp'[u] + lost'[u] + 0 = xp[u] + lost[u] + (earned'[u] - earned[u])
    BY <2>2 DEF XpShape
  <2>6. \A v \in User \ {u} : xp'[v] = xp[v] /\ lost'[v] = lost[v] /\ earned'[v] = earned[v]
    BY <2>2 DEF XpShape
  <2>7. Cardinality(Awarding(u)) = Cardinality(Awarding(u)) + 0
    BY FS_CardinalityType
  <2> QED
    BY <2>3, <2>4, <2>5, <2>6, <2>7, XpMoved
<1>7. CASE \/ \E u \in User, m \in Movie :
               \/ DeleteEntry(u, m)
               \/ \E s \in Status, c \in Score \cup {NoScore} :
                    \/ ApiSaveEntry(u, m, s, c)
                    \/ \E n \in Movie : ApiMoveEntry(u, m, n, s, c)
           \/ \E m \in Movie : \E r \in {Unrated, rating[m]} : SaveMovieRow(m, r)
           \/ \E w \in Worker : (\E m \in Movie : ReadScores(w, m)) \/ WriteRating(w)
           \/ UNCHANGED listsVars
  <2>1. UNCHANGED xpVars
    BY <1>7 DEF DeleteEntry, ApiSaveEntry, ApiMoveEntry, SaveMovieRow, ReadScores,
                WriteRating, listsVars, xpVars
  <2> QED
    BY <2>1, XpKept DEF xpVars, XpShape
<1> QED
  BY <1>1, <1>2, <1>3, <1>4, <1>5, <1>6, <1>7 DEF ListsNext

\* Nobody has earned anything.
LEMMA XpInit == ListsInit => XpIInv
<1> SUFFICES ASSUME ListsInit PROVE XpIInv
  OBVIOUS
<1> USE DEF ListsInit
<1>1. \A u \in User : Awarding(u) = {}
  BY DEF Awarding
<1>2. IsFiniteSet({}) /\ Cardinality({}) = 0
  BY FS_EmptySet
<1>3. XpShape
  BY DEF XpShape
<1>4. XpBalanced
  <2> SUFFICES ASSUME NEW u \in User
               PROVE  xp[u] + lost[u] + Cardinality(Awarding(u)) = earned[u]
    BY DEF XpBalanced
  <2>1. Cardinality(Awarding(u)) = 0
    BY <1>1, <1>2
  <2>2. xp[u] = 0 /\ lost[u] = 0 /\ earned[u] = 0
    OBVIOUS
  <2> QED
    BY <2>1, <2>2
<1> QED
  BY <1>1, <1>2, <1>3, <1>4 DEF XpIInv

\* What requests have loaded, and what there is, came from awards written or lost.
XpBounded ==
    /\ XpShape
    /\ \A u \in User : xp[u] >= 0 /\ lost[u] >= 0
    /\ \A t \in Tab : 0 <= loaded[t] /\ loaded[t] <= xp[Owner(t)] + lost[Owner(t)]

\* Whatever is written over what, awards only pass from xp to lost.
LEMMA XpBoundedStep == XpBounded /\ [ListsNext]_listsVars => XpBounded'
<1> SUFFICES ASSUME XpBounded, [ListsNext]_listsVars PROVE XpBounded'
  OBVIOUS
<1> USE DEF XpBounded
<1>1. ASSUME NEW t \in Tab, (\E m \in Movie : add_to_list(t, m)) \/ LoadProfile(t)
      PROVE  XpBounded'
  <2>1. /\ loaded' = [loaded EXCEPT ![t] = xp[Owner(t)]]
        /\ UNCHANGED <<xp, lost, earned, award>>
    BY <1>1 DEF add_to_list, LoadProfile
  <2> QED
    BY <2>1 DEF XpShape
<1>2. ASSUME NEW t \in Tab, NEW s \in Status, NEW c \in Score \cup {NoScore},
             SaveEntry(t, s, c)
      PROVE  XpBounded'
  <2>1. \/ earned' = [earned EXCEPT ![Owner(t)] = @ + 1]
        \/ earned' = [earned EXCEPT ![Owner(t)] = @]
    BY <1>2 DEF SaveEntry
  <2>2. UNCHANGED <<xp, lost>>
    BY <1>2 DEF SaveEntry
  <2>3. loaded' = loaded \/ loaded' = [loaded EXCEPT ![t] = 0]
    BY <1>2 DEF SaveEntry, Done
  <2>4. award' = award \/ award' = [award EXCEPT ![t] = TRUE]
    BY <1>2 DEF SaveEntry
  <2>5. award' \in [Tab -> BOOLEAN]
    BY <2>4 DEF XpShape
  <2>6. XpShape'
    BY <2>1, <2>2, <2>3, <2>5 DEF XpShape
  <2> QED
    BY <2>2, <2>3, <2>6 DEF XpShape
<1>3. ASSUME NEW t \in Tab, NEW s \in Status, NEW c \in Score \cup {NoScore},
             SaveEntryUnqueued(t, s, c)
      PROVE  XpBounded'
  <2>1. PICK u \in User, one \in {0, 1} :
          /\ u = Owner(t) /\ earned' = [earned EXCEPT ![u] = @ + one]
          /\ lost' = [lost EXCEPT ![u] = @ + one] /\ UNCHANGED <<xp, award>>
          /\ loaded' = [loaded EXCEPT ![t] = 0]
    BY <1>3 DEF SaveEntryUnqueued, Done
  <2> QED
    BY <2>1 DEF XpShape
<1>4. ASSUME NEW t \in Tab, Award(t) PROVE XpBounded'
  <2>1. PICK u \in User : u = Owner(t)
    OBVIOUS
  <2>2. /\ xp' = [xp EXCEPT ![u] = loaded[t] + 1]
        /\ lost' = [lost EXCEPT ![u] = @ + xp[u] - loaded[t]]
        /\ loaded' = [loaded EXCEPT ![t] = 0] /\ earned' = earned
        /\ award' = [award EXCEPT ![t] = FALSE]
    BY <1>4, <2>1 DEF Award, Done
  <2>3. XpShape'
    BY <2>2 DEF XpShape
  <2> QED
    BY <2>1, <2>2, <2>3 DEF XpShape
<1>5. ASSUME NEW t \in Tab, SaveProfile(t) PROVE XpBounded'
  <2>1. PICK u \in User : u = Owner(t)
    OBVIOUS
  <2>2. /\ xp' = [xp EXCEPT ![u] = loaded[t]]
        /\ lost' = [lost EXCEPT ![u] = @ + xp[u] - loaded[t]]
        /\ loaded' = [loaded EXCEPT ![t] = 0] /\ UNCHANGED <<award, earned>>
    BY <1>5, <2>1 DEF SaveProfile, Done
  <2>3. XpShape'
    BY <2>2 DEF XpShape
  <2> QED
    BY <2>1, <2>2, <2>3 DEF XpShape
<1>6. CASE \/ \E u \in User, m \in Movie :
               \/ DeleteEntry(u, m)
               \/ \E s \in Status, c \in Score \cup {NoScore} :
                    \/ ApiSaveEntry(u, m, s, c)
                    \/ \E n \in Movie : ApiMoveEntry(u, m, n, s, c)
           \/ \E m \in Movie : \E r \in {Unrated, rating[m]} : SaveMovieRow(m, r)
           \/ \E w \in Worker : (\E m \in Movie : ReadScores(w, m)) \/ WriteRating(w)
           \/ UNCHANGED listsVars
  <2>1. UNCHANGED xpVars
    BY <1>6 DEF DeleteEntry, ApiSaveEntry, ApiMoveEntry, SaveMovieRow, ReadScores,
                WriteRating, listsVars, xpVars
  <2> QED
    BY <2>1 DEF xpVars, XpShape
<1> QED
  BY <1>1, <1>2, <1>3, <1>4, <1>5, <1>6 DEF ListsNext

\* The XP of a user and the awards under way are never more than one award per row he has
\* created as completed, and less only by the overwritten and the dropped ones.
THEOREM XpAccountedHolds == ListsInit /\ [][ListsNext]_listsVars => []XpAccounted
<1>1. ListsInit => XpBounded
  BY DEF ListsInit, XpBounded, XpShape
<1>2. XpIInv /\ XpBounded => XpAccounted
  BY DEF XpIInv, XpBounded, XpBalanced, XpAccounted, Awarding
<1> QED
  BY <1>1, <1>2, XpInit, XpStep, XpBoundedStep, PTL

-----------------------------------------------------------------------------
(***************************************************************************)
(* Social: followers                                                       *)
(*                                                                         *)
(* A request that has added the follow without seeing one is the one that  *)
(* notifies; a pair's notifications are numbered, so that each counts.     *)
(***************************************************************************)
USE SocialAssumption DEF SocialAssumption

\* The domains of the tables.
SocialShape ==
    /\ begun \in [Pair -> Nat] /\ untold \in [Pair -> Nat]
    /\ \A n \in notes : n = [from |-> n.from, to |-> n.to, is_read |-> n.is_read, id |-> n.id]
    /\ \A a \in asking :
          /\ a = [tab |-> a.tab, pair |-> a.pair, already |-> a.already, done |-> a.done]
          /\ a.pair \in Pair

\* The notifications of a pair are numbered, and the next number is free.
Numbered(p) ==
    /\ IsFiniteSet(NotesOf(p))
    /\ \A n \in NotesOf(p) : n.id \in Nat /\ n.id <= Cardinality(NotesOf(p))
    /\ \A n, o \in NotesOf(p) : n.id = o.id => n = o

AskingOf(p) == {a \in asking : a.pair = p}
Told(p) == {a \in AskingOf(p) : a.done /\ ~a.already}

\* A pair whose requests come one at a time: a request that has not added the follow knows
\* whether it is there, and what is begun has been told or is about to be.
Answered(p) ==
    /\ \A a, b \in AskingOf(p) : a = b
    /\ \A a \in AskingOf(p) : a.done \/ (a.already <=> p \in follows)
    /\ Cardinality(NotesOf(p)) + untold[p] + Cardinality(Told(p)) = begun[p]

FollowIInv ==
    SocialShape /\ (\A p \in Pair : Numbered(p)) /\ \A p \in Pair \ interleaved : Answered(p)

\* Nobody follows and nobody is told.
LEMMA FollowInit == SocialInit => FollowIInv
<1> SUFFICES ASSUME SocialInit PROVE FollowIInv
  OBVIOUS
<1>1. \A p : NotesOf(p) = {} /\ AskingOf(p) = {} /\ Told(p) = {}
  BY DEF SocialInit, NotesOf, AskingOf, Told
<1>2. IsFiniteSet({}) /\ Cardinality({}) = 0
  BY FS_EmptySet
<1>3. \A p \in Pair : begun[p] = 0 /\ untold[p] = 0
  BY DEF SocialInit
<1>4. SocialShape
  BY DEF SocialInit, SocialShape
<1>5. ASSUME NEW p \in Pair PROVE Numbered(p)
  BY <1>1, <1>2 DEF Numbered
<1>6. ASSUME NEW p \in Pair PROVE Answered(p)
  <2>1. Cardinality(NotesOf(p)) = 0 /\ Cardinality(Told(p)) = 0
    BY <1>1, <1>2
  <2> QED
    BY <1>1, <1>3, <2>1 DEF Answered
<1> QED
  BY <1>4, <1>5, <1>6 DEF FollowIInv

\* A step that answers for one pair and leaves the requests of the others alone.
LEMMA OnePair ==
  ASSUME FollowIInv, SocialShape', NEW p \in Pair,
         interleaved \subseteq interleaved', Numbered(p)',
         p \notin interleaved' => Answered(p)',
         \A q \in Pair \ {p} : /\ NotesOf(q)' = NotesOf(q) /\ AskingOf(q)' = AskingOf(q)
                               /\ untold'[q] = untold[q] /\ begun'[q] = begun[q]
                               /\ q \in follows' <=> q \in follows
  PROVE  FollowIInv'
<1>1. ASSUME NEW q \in Pair \ {p} PROVE Numbered(q)'
  BY DEF FollowIInv, Numbered
<1>2. ASSUME NEW q \in Pair \ {p}, q \notin interleaved' PROVE Answered(q)'
  <2>1. Told(q)' = Told(q)
    BY DEF Told
  <2> QED
    BY <1>2, <2>1 DEF FollowIInv, Answered
<1> QED
  BY <1>1, <1>2 DEF FollowIInv

\* A request looks the follow up, or takes it back.
LEMMA AskStep ==
  ASSUME FollowIInv, NEW t \in Tab, NEW v \in Member,
         follow_user(t, v) \/ unfollow_user(t, v)
  PROVE  FollowIInv'
<1>1. PICK p \in Pair : p = <<Owner(t), v>>
  BY DEF Pair
<1>2. /\ UNCHANGED <<notes, begun, untold>>
      /\ interleaved' = IF \E a \in asking : a.pair = p THEN interleaved \cup {p}
                        ELSE interleaved
  BY <1>1 DEF follow_user, unfollow_user
<1>3. \A q : NotesOf(q)' = NotesOf(q)
  BY <1>2 DEF NotesOf
<1>4. Numbered(p)'
  BY <1>3 DEF FollowIInv, Numbered
<1>5. p \notin interleaved' => AskingOf(p) = {} /\ Told(p) = {} /\ Answered(p)
  BY <1>2 DEF AskingOf, Told, FollowIInv
<1>6. CASE follow_user(t, v)
  <2>1. PICK a : a = [tab |-> t, pair |-> p, already |-> Already(p), done |-> FALSE]
    OBVIOUS
  <2>2. asking' = asking \cup {a} /\ follows' = follows
    BY <1>1, <1>6, <2>1 DEF follow_user
  <2>3. SocialShape'
    BY <1>2, <2>1, <2>2 DEF FollowIInv, SocialShape
  <2>4. \A q \in Pair \ {p} : AskingOf(q)' = AskingOf(q)
    BY <2>1, <2>2 DEF AskingOf
  <2>5. ASSUME p \notin interleaved' PROVE Answered(p)'
    <3>1. AskingOf(p)' = {a}
      BY <1>5, <2>1, <2>2, <2>5 DEF AskingOf
    <3>2. Told(p)' = {}
      BY <2>1, <3>1 DEF Told
    <3>3. a.already <=> p \in follows'
      BY <2>1, <2>2 DEF Already
    <3> QED
      BY <1>2, <1>3, <1>5, <2>5, <3>1, <3>2, <3>3 DEF Answered
  <2> QED
    BY <1>2, <1>3, <1>4, <2>2, <2>3, <2>4, <2>5, OnePair
<1>7. CASE unfollow_user(t, v)
  <2>1. follows' = follows \ {p} /\ asking' = asking
    BY <1>1, <1>7 DEF unfollow_user
  <2>2. SocialShape'
    BY <1>2, <2>1 DEF FollowIInv, SocialShape
  <2>3. \A q : AskingOf(q)' = AskingOf(q)
    BY <2>1 DEF AskingOf
  <2>4. Told(p)' = Told(p)
    BY <2>3 DEF Told
  <2>5. p \notin interleaved' => Answered(p)'
    BY <1>2, <1>3, <1>5, <2>3, <2>4 DEF Answered
  <2> QED
    BY <1>2, <1>3, <1>4, <2>1, <2>2, <2>3, <2>5, OnePair
<1> QED
  BY <1>6, <1>7

\* A request that is marked as done keeps its other fields.
LEMMA Marked ==
  ASSUME NEW a, NEW x,
         a = [tab |-> a.tab, pair |-> a.pair, already |-> a.already, done |-> a.done]
  PROVE  [a EXCEPT !.done = x]
            = [tab |-> a.tab, pair |-> a.pair, already |-> a.already, done |-> x]
OBVIOUS

\* The first request to add a follow is the one that will notify.
LEMMA AddStep == ASSUME FollowIInv, NEW a \in asking, follow(a) PROVE FollowIInv'
<1>1. PICK p \in Pair : p = a.pair
  BY DEF FollowIInv, SocialShape
<1>2. a = [tab |-> a.tab, pair |-> a.pair, already |-> a.already, done |-> a.done]
  BY DEF FollowIInv, SocialShape
<1>3. PICK b : b = [tab |-> a.tab, pair |-> p, already |-> a.already, done |-> TRUE]
  OBVIOUS
<1>4. [a EXCEPT !.done = TRUE] = b
  BY <1>1, <1>2, <1>3, Marked
<1>5. /\ ~a.done /\ follows' = follows \cup {p} /\ asking' = (asking \ {a}) \cup {b}
      /\ begun' = IF p \in follows THEN begun ELSE [begun EXCEPT ![p] = @ + 1]
      /\ UNCHANGED <<notes, untold, interleaved>>
  BY <1>1, <1>4 DEF follow
<1>6. b.pair = p /\ b.done /\ b.already = a.already
  BY <1>3
<1>7. SocialShape'
  BY <1>5, <1>3 DEF FollowIInv, SocialShape
<1>8. \A q : NotesOf(q)' = NotesOf(q)
  BY <1>5 DEF NotesOf
<1>9. \A q \in Pair \ {p} : /\ AskingOf(q)' = AskingOf(q) /\ begun'[q] = begun[q]
                            /\ q \in follows' <=> q \in follows
  BY <1>1, <1>5, <1>6 DEF AskingOf, FollowIInv, SocialShape
<1>10. Numbered(p)'
  BY <1>8 DEF FollowIInv, Numbered
<1>11. ASSUME p \notin interleaved' PROVE Answered(p)'
  <2>1. Answered(p) /\ AskingOf(p) = {a}
    BY <1>1, <1>5, <1>11 DEF FollowIInv, Answered, AskingOf
  <2>2. AskingOf(p)' = {b}
    BY <1>5, <1>6, <2>1 DEF AskingOf
  <2>3. Told(p) = {} /\ Cardinality({}) = 0 /\ Cardinality({b}) = 1
    BY <1>5, <2>1, FS_EmptySet, FS_Singleton DEF Told
  <2>4. a.already <=> p \in follows
    BY <1>5, <2>1 DEF Answered
  <2>5. CASE p \in follows
    <3>1. Told(p)' = {} /\ begun' = begun
      BY <1>5, <1>6, <2>2, <2>4, <2>5 DEF Told
    <3> QED
      BY <1>5, <1>6, <1>8, <2>1, <2>2, <2>3, <3>1 DEF Answered
  <2>6. CASE p \notin follows
    <3>1. Told(p)' = {b}
      BY <1>5, <1>6, <2>2, <2>4, <2>6 DEF Told
    <3>2. begun'[p] = begun[p] + 1
      BY <1>5, <2>6 DEF FollowIInv, SocialShape
    <3>3. Cardinality(NotesOf(p)) \in Nat /\ untold[p] \in Nat /\ begun[p] \in Nat
      BY FS_CardinalityType DEF FollowIInv, Numbered, SocialShape
    <3> QED
      BY <1>5, <1>6, <1>8, <2>1, <2>2, <2>3, <3>1, <3>2, <3>3 DEF Answered
  <2> QED
    BY <2>5, <2>6
<1> QED
  BY <1>5, <1>7, <1>8, <1>9, <1>10, <1>11, OnePair

\* A notification is written with the next number; a request that gives up owes one.
LEMMA EndStep ==
  ASSUME FollowIInv, NEW a \in asking, notify(a) \/ Abort(a) PROVE FollowIInv'
<1>1. PICK p \in Pair : p = a.pair
  BY DEF FollowIInv, SocialShape
<1>2. asking' = asking \ {a} /\ UNCHANGED <<follows, begun, interleaved>>
  BY DEF notify, Abort
<1>3. /\ \A q \in Pair \ {p} : AskingOf(q)' = AskingOf(q)
      /\ p \notin interleaved => AskingOf(p) = {a} /\ AskingOf(p)' = {}
  BY <1>1, <1>2 DEF AskingOf, FollowIInv, Answered
<1>4. /\ Told(p)' = Told(p) \ {a} /\ Told(p) \subseteq AskingOf(p)
      /\ a \in Told(p) <=> (a.done /\ ~a.already)
  BY <1>1, <1>2 DEF Told, AskingOf
<1>5. Cardinality({}) = 0 /\ Cardinality({a}) = 1 /\ IsFiniteSet(NotesOf(p))
  BY FS_EmptySet, FS_Singleton DEF FollowIInv, Numbered
<1>6. Cardinality(NotesOf(p)) \in Nat /\ untold[p] \in Nat /\ begun[p] \in Nat
  BY <1>5, FS_CardinalityType DEF FollowIInv, SocialShape
<1>7. CASE Abort(a)
  <2>1. /\ notes' = notes
        /\ untold' = IF a.done /\ ~a.already THEN [untold EXCEPT ![p] = @ + 1] ELSE untold
    BY <1>1, <1>7 DEF Abort
  <2>2. SocialShape' /\ \A q \in Pair \ {p} : untold'[q] = untold[q]
    BY <1>2, <2>1 DEF FollowIInv, SocialShape
  <2>3. \A q : NotesOf(q)' = NotesOf(q)
    BY <2>1 DEF NotesOf
  <2>4. Numbered(p)'
    BY <2>3 DEF FollowIInv, Numbered
  <2>5. ASSUME p \notin interleaved' PROVE Answered(p)'
    <3>1. Answered(p)
      BY <1>2, <2>5 DEF FollowIInv
    <3>2. CASE a.done /\ ~a.already
      <4>1. Told(p) = {a} /\ Told(p)' = {} /\ untold'[p] = untold[p] + 1
        BY <1>2, <1>3, <1>4, <2>1, <2>5, <3>2 DEF FollowIInv, SocialShape
      <4> QED
        BY <1>2, <1>3, <1>5, <1>6, <2>3, <2>5, <3>1, <4>1 DEF Answered
    <3>3. CASE ~(a.done /\ ~a.already)
      <4>1. Told(p) = {} /\ Told(p)' = {} /\ untold' = untold
        BY <1>2, <1>3, <1>4, <2>1, <2>5, <3>3
      <4> QED
        BY <1>2, <1>3, <2>3, <2>5, <3>1, <4>1 DEF Answered
    <3> QED
      BY <3>2, <3>3
  <2> QED
    BY <1>2, <1>3, <2>2, <2>3, <2>4, <2>5, OnePair
<1>8. CASE notify(a)
  <2>1. PICK n : n = [from |-> p[1], to |-> p[2], is_read |-> FALSE,
                      id |-> Cardinality(NotesOf(p)) + 1]
    OBVIOUS
  <2>2. /\ a.done /\ untold' = untold
        /\ notes' = IF a.already THEN notes ELSE notes \cup {n}
    BY <1>1, <1>8, <2>1 DEF notify
  <2>3. SocialShape'
    BY <1>2, <2>1, <2>2 DEF FollowIInv, SocialShape
  <2>4. \A q \in Pair \ {p} : NotesOf(q)' = NotesOf(q)
    BY <2>1, <2>2 DEF NotesOf, Pair
  <2>5. CASE a.already
    <3>1. NotesOf(p)' = NotesOf(p)
      BY <2>2, <2>5 DEF NotesOf
    <3>2. Numbered(p)'
      BY <3>1 DEF FollowIInv, Numbered
    <3>3. ASSUME p \notin interleaved' PROVE Answered(p)'
      <4>1. Told(p) = {} /\ Told(p)' = {} /\ Answered(p)
        BY <1>2, <1>3, <1>4, <2>5, <3>3 DEF FollowIInv
      <4> QED
        BY <1>2, <1>3, <2>2, <3>1, <3>3, <4>1 DEF Answered
    <3> QED
      BY <1>2, <1>3, <2>2, <2>3, <2>4, <3>2, <3>3, OnePair
  <2>6. CASE ~a.already
    <3>1. NotesOf(p)' = NotesOf(p) \cup {n} /\ n.id = Cardinality(NotesOf(p)) + 1
      BY <2>1, <2>2, <2>6 DEF NotesOf
    <3>2. Numbered(p) /\ \A o \in NotesOf(p) : o.id # n.id
      BY <1>6, <3>1 DEF FollowIInv, Numbered
    <3>3. /\ IsFiniteSet(NotesOf(p)')
          /\ Cardinality(NotesOf(p)') = Cardinality(NotesOf(p)) + 1
      BY <1>5, <3>1, <3>2, FS_AddElement
    <3>4. Numbered(p)'
      <4>1. Cardinality(NotesOf(p)) \in Nat
        BY <1>5, FS_CardinalityType
      <4>2. \A o \in NotesOf(p)' : o \in NotesOf(p) \/ o = n
        BY <3>1
      <4>3. \A o \in NotesOf(p)' : o.id \in Nat /\ o.id <= Cardinality(NotesOf(p)')
        BY <3>1, <3>2, <3>3, <4>1, <4>2 DEF Numbered
      <4>4. \A o, q \in NotesOf(p)' : o.id = q.id => o = q
        BY <3>2, <4>2 DEF Numbered
      <4> QED
        BY <3>3, <4>3, <4>4 DEF Numbered
    <3>5. ASSUME p \notin interleaved' PROVE Answered(p)'
      <4>1. Told(p) = {a} /\ Told(p)' = {} /\ Answered(p)
        BY <1>2, <1>3, <1>4, <2>2, <2>6, <3>5 DEF FollowIInv
      <4> QED
        BY <1>2, <1>3, <1>5, <1>6, <2>2, <3>3, <3>5, <4>1 DEF Answered
    <3> QED
      BY <1>2, <1>3, <2>2, <2>3, <2>4, <3>4, <3>5, OnePair
  <2> QED
    BY <2>5, <2>6
<1> QED
  BY <1>7, <1>8

\* A notification that is read keeps its other fields.
LEMMA Reread ==
  ASSUME NEW n, NEW x, n = [from |-> n.from, to |-> n.to, is_read |-> n.is_read, id |-> n.id]
  PROVE  [n EXCEPT !.is_read = x] = [from |-> n.from, to |-> n.to, is_read |-> x, id |-> n.id]
OBVIOUS

\* Reading a notification keeps its number, so that none is taken for another.
LEMMA OpenStep ==
  ASSUME FollowIInv, NEW some, Read(some),
         UNCHANGED <<follows, asking, begun, untold, interleaved>>
  PROVE  FollowIInv'
<1> DEFINE Opened(n) == IF n \in some THEN [n EXCEPT !.is_read = TRUE] ELSE n
<1>1. notes' = {Opened(n) : n \in notes}
  BY DEF Read
<1>2. ASSUME NEW n \in notes
      PROVE  /\ Opened(n).from = n.from /\ Opened(n).to = n.to /\ Opened(n).id = n.id
             /\ Opened(n) = [from |-> Opened(n).from, to |-> Opened(n).to,
                             is_read |-> Opened(n).is_read, id |-> Opened(n).id]
  <2>1. n = [from |-> n.from, to |-> n.to, is_read |-> n.is_read, id |-> n.id]
    BY DEF FollowIInv, SocialShape
  <2>2. [n EXCEPT !.is_read = TRUE]
           = [from |-> n.from, to |-> n.to, is_read |-> TRUE, id |-> n.id]
    BY <2>1, Reread
  <2> QED
    BY <2>1, <2>2
<1> HIDE DEF Opened
<1>3. SocialShape'
  BY <1>1, <1>2 DEF FollowIInv, SocialShape
<1>4. \A q : AskingOf(q)' = AskingOf(q) /\ Told(q)' = Told(q)
  BY DEF AskingOf, Told
<1>5. ASSUME NEW q \in Pair
      PROVE  Numbered(q)' /\ Cardinality(NotesOf(q)') = Cardinality(NotesOf(q))
  <2> DEFINE f == [n \in NotesOf(q) |-> Opened(n)]
  <2>1. Numbered(q) /\ NotesOf(q) \subseteq notes
    BY DEF FollowIInv, NotesOf
  <2>2. NotesOf(q)' = {Opened(n) : n \in NotesOf(q)}
    BY <1>1, <1>2 DEF NotesOf
  <2>3. \A n, o \in NotesOf(q) : Opened(n) = Opened(o) => n = o
    BY <1>2, <2>1 DEF Numbered
  <2>4. f \in Bijection(NotesOf(q), NotesOf(q)')
    BY <2>2, <2>3 DEF Bijection, Injection, Surjection, IsInjective
  <2>5. IsFiniteSet(NotesOf(q)') /\ Cardinality(NotesOf(q)') = Cardinality(NotesOf(q))
    BY <2>1, <2>4, FS_Bijection DEF ExistsBijection, Numbered
  <2> HIDE DEF f
  <2>6. \A x \in NotesOf(q)' : \E n \in NotesOf(q) : x = Opened(n) /\ x.id = n.id
    BY <1>2, <2>1, <2>2
  <2>7. \A x \in NotesOf(q)' : x.id \in Nat /\ x.id <= Cardinality(NotesOf(q)')
    BY <2>1, <2>5, <2>6 DEF Numbered
  <2>8. \A x, y \in NotesOf(q)' : x.id = y.id => x = y
    BY <2>1, <2>6 DEF Numbered
  <2>9. Numbered(q)'
    BY <2>5, <2>7, <2>8 DEF Numbered
  <2> QED
    BY <2>5, <2>9
<1>6. ASSUME NEW q \in Pair \ interleaved' PROVE Answered(q)'
  <2>1. Answered(q) /\ Cardinality(NotesOf(q)') = Cardinality(NotesOf(q))
    BY <1>5 DEF FollowIInv
  <2> QED
    BY <1>4, <2>1 DEF Answered
<1> QED
  BY <1>3, <1>5, <1>6 DEF FollowIInv

\* The invariant is inductive.
LEMMA FollowStep == FollowIInv /\ [SocialNext]_socialVars => FollowIInv'
<1> SUFFICES ASSUME FollowIInv, [SocialNext]_socialVars PROVE FollowIInv'
  OBVIOUS
<1>1. CASE \/ \E t \in Tab, v \in Member : block_add(t, v) \/ block_remove(t, v)
           \/ UNCHANGED socialVars
  <2>1. UNCHANGED <<follows, notes, asking, begun, untold, interleaved>>
    BY <1>1 DEF block_add, block_remove, socialVars
  <2>2. \A q : NotesOf(q)' = NotesOf(q) /\ AskingOf(q)' = AskingOf(q) /\ Told(q)' = Told(q)
    BY <2>1 DEF NotesOf, AskingOf, Told
  <2>3. SocialShape'
    BY <2>1 DEF FollowIInv, SocialShape
  <2>4. \A q \in Pair : Numbered(q)'
    BY <2>2 DEF FollowIInv, Numbered
  <2>5. \A q \in Pair \ interleaved' : Answered(q)'
    BY <2>1, <2>2 DEF FollowIInv, Answered
  <2> QED
    BY <2>3, <2>4, <2>5 DEF FollowIInv
<1>2. ASSUME NEW u \in Member,
             \/ \E n \in notes : mark_notification_read(u, n)
             \/ mark_all_notifications_read(u)
      PROVE  FollowIInv'
  BY <1>2, OpenStep DEF mark_notification_read, mark_all_notifications_read
<1> QED
  BY <1>1, <1>2, AskStep, AddStep, EndStep DEF SocialNext

\* follow_user: a member is notified once for each time another begins to follow him, but
\* for requests that died or met on one pair, in every reachable state.
THEOREM FollowersAreToldHolds == SocialInit /\ [][SocialNext]_socialVars => []FollowersAreTold
<1>1. FollowIInv => FollowersAreTold
  <2> SUFFICES ASSUME FollowIInv, NEW p \in Pair \ interleaved
               PROVE  Cardinality(NotesOf(p)) + untold[p]
                        + Cardinality({a \in asking : a.pair = p /\ a.done /\ ~a.already})
                          = begun[p]
    BY DEF FollowersAreTold
  <2>1. Told(p) = {a \in asking : a.pair = p /\ a.done /\ ~a.already}
    BY DEF Told, AskingOf
  <2> QED
    BY <2>1 DEF FollowIInv, Answered
<1> QED
  BY <1>1, FollowInit, FollowStep, PTL
-----------------------------------------------------------------------------
(***************************************************************************)
(* Pictures: what rows refer to is stored                                  *)
(*                                                                         *)
(* A file shows what was uploaded or downloaded for its row, and no other  *)
(* row's unless a name was stored twice. What a worker is to store under a *)
(* new name has not been deleted, and what it is to delete its row refers  *)
(* to no more. The first download of a row is under a name of its own.     *)
(***************************************************************************)
HIDE DEF SiteAssumption, ListsAssumption, SocialAssumption

PicturesSpec == PicturesInit /\ [][PicturesNext]_picturesVars

\* What a file shows, whoever has shrunk it.
Core(f) == f.of \ Optimizer

\* The files a row, an open form or a task with the row refers to.
HeldBy(r) ==
    {picture[r]} \cup {e.picture : e \in {x \in editing : x.row = r}}
        \cup {doing[w].seen : w \in {v \in Optimizer : doing[v].job = "shrink" /\ doing[v].row = r}}

\* The cards of a movie, in its row or in an open form.
CardsOf(m) == {card[m]} \cup {e.card : e \in {x \in editing : x.row = m}}

ShrunkOf(r, f, w) ==
    [of |-> f.of \cup (IF r \in User THEN {w} ELSE {}) \cup (IF f = Default THEN {r} ELSE {}),
     form |-> "webp"]

\* A download is for a movie's poster or an actor's photo.
Asks(r) == r \in Movie \cup Cast

ShrinkJob(r, f, c, at) == [job |-> "shrink", row |-> r, seen |-> f, card |-> c, at |-> at]
DownloadJob(r, d, at, left) == [job |-> "download", row |-> r, asked |-> d, at |-> at, left |-> left]

Fetching(w) == doing[w].job = "download" /\ doing[w].at = "fetch"
Shrinking(w, r) == doing[w].job = "shrink" /\ doing[w].row = r /\ doing[w].at \in {"open", "update"}

Import(d) == d.movie \in Movie /\ d.actors \subseteq Cast

\* A task a worker can have.
Task(k) ==
    /\ k.job \in {"none", "shrink", "download"}
    /\ k.job = "none" => k = Free
    /\ k.job = "shrink" =>
          /\ k = ShrinkJob(k.row, k.seen, k.card, k.at)
          /\ k.row \in Row /\ k.seen # NoFile
          /\ k.at \in {"open", "update", "delete"} => k.seen.form = "raw"
          /\ k.at = "write" => k.row \in Movie
    /\ k.job = "download" =>
          /\ k = DownloadJob(k.row, k.asked, k.at, k.left)
          /\ Asks(k.row) /\ Import(k.asked) /\ k.left \subseteq Cast

Tasks ==
    /\ doing = [w \in Optimizer |-> doing[w]]
    /\ \A w \in Optimizer : Task(doing[w])
    /\ \A d \in downloads : Import(d)

RowTypes ==
    /\ there \in [Row -> {"no", "yes", "gone"}]
    /\ picture = [r \in Row |-> picture[r]]
    /\ card = [m \in Movie |-> card[m]]
    /\ chosen \in [Row -> SUBSET Picture] /\ given \in [Row -> SUBSET Picture]
    /\ \A r \in Row : chosen[r] \subseteq given[r]
    /\ \A m \in Movie : card[m].form \in {"card", "none"}
    /\ \A e \in editing : e.row \in Row /\ e.card.form \in {"card", "none"}
    /\ \A r \in Row : there[r] # "yes" => picture[r] = NoFile
    /\ \A r \in Row : there[r] = "no" => chosen[r] = {}

\* A file that a row may refer to.
Stored(f) ==
    /\ f = NoFile \/ f.form \in {"raw", "webp"}
    /\ f.form = "raw" => f.of \cap Optimizer = {}
    /\ f = [of |-> f.of, form |-> f.form]

FileTypes ==
    /\ \A r \in Row : \A f \in HeldBy(r) : Stored(f)
    /\ \A f \in deleted : f.form \in {"raw", "webp"}

\* What a file of a row shows.
Mine(r, f) ==
    \/ f = NoFile
    \/ f = Default /\ r \in User
    \/ \E p \in given[r] : Core(f) = {p}
    \/ Core(f) = {r}

\* A name was stored once, or its rows are counted out.
GivenOnce ==
    \A r, q \in Row : \A p \in given[r] : p \in given[q] /\ r # q => r \in reused

Owned ==
    /\ \A r \in Row : \A f \in HeldBy(r) : Mine(r, f)
    /\ \A f \in deleted : \E r \in Row : Mine(r, f)
    /\ GivenOnce

\* No file is called as the download of a row that none was stored for.
FirstDownload ==
    \A r \in Row \ User : r \notin fetched =>
        \A f \in HeldBy(r) \cup deleted : Core(f) # {r}

\* A card shows a picture that was uploaded for the movie.
Card(m, c) == c = NoFile \/ \E p \in given[m] : c.of \cap Picture = {p}
Cards == \A m \in Movie \ fetched : \A c \in CardsOf(m) : Card(m, c)

\* What a worker stores has never been there, and what it deletes is not there any more.
Sound(r) ==
    /\ picture[r].form = "raw" => \A w \in Optimizer : ShrunkOf(r, picture[r], w) \notin deleted
    /\ \A w \in Optimizer : Shrinking(w, r) =>
          /\ ShrunkOf(r, doing[w].seen, w) \notin deleted
          /\ r \in User => ShrunkOf(r, doing[w].seen, w) # picture[r]
    /\ \A w \in Optimizer : At(w, "delete") /\ doing[w].row = r => picture[r] # doing[w].seen
    /\ picture[r] \notin deleted \ {Default}

FirstShrunk == \A r \in Row \ (spoilt \cup reused) : Sound(r)

\* A task with a row whose picture was uploaded works on that picture.
Latest(r) ==
    there[r] = "yes" /\ chosen[r] # {} =>
        /\ picture[r].of \cap Picture = chosen[r]
        /\ \A w \in Optimizer :
              /\ doing[w].job = "shrink" /\ doing[w].row = r => doing[w].seen.of \cap Picture = chosen[r]
              /\ Fetching(w) => doing[w].row # r

OnLatest == \A r \in Row \ (rushed \cup spoilt) : Latest(r)

PicIInv ==
    RowTypes /\ FileTypes /\ Tasks /\ Owned /\ FirstDownload /\ Cards /\ FirstShrunk /\ OnLatest

USE PicturesAssumption DEF PicturesAssumption, Row

-----------------------------------------------------------------------------
\* Whose file it is

\* What a file of a row shows is uploaded for that row or is the row itself.
LEMMA MineCore ==
  ASSUME RowTypes, NEW r \in Row, NEW f, Mine(r, f)
  PROVE  Core(f) = {} \/ Core(f) = {r} \/ \E p \in given[r] : Core(f) = {p} /\ p \in Picture
<1>1. Core(NoFile) = {} /\ Core(Default) = {}
  BY DEF NoFile, Default, Core
<1>2. given[r] \subseteq Picture
  BY DEF RowTypes
<1> QED
  BY <1>1, <1>2 DEF Mine

\* Two rows with files that show the same: a name was stored twice.
LEMMA SameOwner ==
  ASSUME RowTypes, GivenOnce, NEW r \in Row, NEW q \in Row, NEW f, NEW g,
         Mine(r, f), Mine(q, g), Core(f) = Core(g), Core(f) # {}, r \notin reused
  PROVE  r = q
<1>1. Core(f) = {r} \/ \E p \in given[r] : Core(f) = {p} /\ p \in Picture
  BY MineCore
<1>2. Core(g) = {q} \/ \E p \in given[q] : Core(g) = {p} /\ p \in Picture
  BY MineCore
<1>3. r \notin Picture /\ q \notin Picture
  OBVIOUS
<1>4. CASE Core(f) = {r}
  BY <1>2, <1>3, <1>4
<1>5. CASE \E p \in given[r] : Core(f) = {p} /\ p \in Picture
  BY <1>2, <1>3, <1>5 DEF GivenOnce
<1> QED
  BY <1>1, <1>4, <1>5

\* A shrunk file shows what the original shows, the shared avatar that of its row.
LEMMA ShrunkCore ==
  ASSUME NEW r \in Row, NEW f, NEW w \in Optimizer
  PROVE  /\ ShrunkOf(r, f, w).form = "webp" /\ ShrunkOf(r, f, w) # NoFile
         /\ ShrunkOf(r, f, w).of = f.of \cup (IF r \in User THEN {w} ELSE {})
                                        \cup (IF f = Default THEN {r} ELSE {})
         /\ f # Default => Core(ShrunkOf(r, f, w)) = Core(f)
         /\ f = Default => Core(ShrunkOf(r, f, w)) = {r}
         /\ ShrunkOf(r, f, w).of \cap Picture = f.of \cap Picture
<1>1. /\ ShrunkOf(r, f, w).form = "webp"
      /\ ShrunkOf(r, f, w).of = f.of \cup (IF r \in User THEN {w} ELSE {})
                                     \cup (IF f = Default THEN {r} ELSE {})
  BY DEF ShrunkOf
<1>2. Default.of = {} /\ NoFile.form = "none"
  BY DEF Default, NoFile
<1>3. ShrunkOf(r, f, w) # NoFile
  BY <1>1, <1>2
<1>4. r \notin Optimizer /\ r \notin Picture /\ w \notin Picture
  OBVIOUS
<1>5. CASE f = Default
  BY <1>1, <1>2, <1>3, <1>4, <1>5 DEF Core
<1>6. CASE f # Default
  BY <1>1, <1>2, <1>3, <1>4, <1>6 DEF Core
<1> QED
  BY <1>5, <1>6

\* A file of a row, shrunk, is a file of that row.
LEMMA ShrunkMine ==
  ASSUME RowTypes, NEW r \in Row, NEW f, Mine(r, f), f # NoFile, NEW w \in Optimizer
  PROVE  Mine(r, ShrunkOf(r, f, w)) /\ Core(ShrunkOf(r, f, w)) # {}
<1>1. CASE f = Default
  BY <1>1, ShrunkCore DEF Mine
<1>2. CASE f # Default
  <2>1. Core(ShrunkOf(r, f, w)) = Core(f)
    BY <1>2, ShrunkCore
  <2> QED
    BY <1>2, <2>1 DEF Mine
<1> QED
  BY <1>1, <1>2

\* A file that shows what a shrunk one is to show belongs to the same row.
LEMMA ShrunkOwner ==
  ASSUME RowTypes, Owned, NEW r \in Row \ reused, NEW x \in Row, NEW f, Mine(r, f), f # NoFile,
         NEW g, Mine(x, g), NEW w \in Optimizer, Core(g) = Core(ShrunkOf(r, f, w))
  PROVE  x = r
  BY ShrunkMine, SameOwner DEF Owned

-----------------------------------------------------------------------------
\* What a step leaves as it was

\* A task is where it was, or has just been taken for the picture there is.
Advances(v, x) ==
    doing'[v].job = "shrink" /\ doing'[v].row = x =>
        \/ /\ doing[v].job = "shrink" /\ doing[v].row = x /\ doing'[v].seen = doing[v].seen
           /\ doing'[v].at \in {"open", "update"} => doing[v].at \in {"open", "update"}
           /\ doing'[v].at = "delete" => doing[v].at = "delete"
        \/ doing'[v].seen = picture[x] /\ doing'[v].at # "delete"

\* A download was fetching, or has just seen that its row has no picture.
Fetches(v) ==
    Fetching(v)' =>
        /\ doing'[v].row = doing[v].row
        /\ \/ Fetching(v)
           \/ /\ doing[v].job = "download"
              /\ there[doing[v].row] = "yes" /\ picture[doing[v].row] = NoFile

\* Names are only ever added, and the rows counted out.
Given ==
    /\ \A r \in Row : given[r] \subseteq given'[r]
    /\ GivenOnce' /\ fetched \subseteq fetched'

\* No row but q has a new file, and q at most F; what is deleted has belonged to a row.
NewFile(q, F) ==
    /\ \A x \in Row : HeldBy(x)' \subseteq HeldBy(x) \cup {NoFile} \cup (IF x = q THEN {F} ELSE {})
    /\ \A f \in deleted' : f \in deleted \/ \E x \in Row : f \in HeldBy(x)
    /\ Given

\* A file of a row remains that row's.
LEMMA MineKept == ASSUME Given, NEW r \in Row, NEW f, Mine(r, f) PROVE Mine(r, f)'
  BY DEF Mine, Given

\* A file of its row leaves every row its own files.
LEMMA OwnedKept ==
  ASSUME RowTypes, Owned, NEW q \in Row, NEW F, NewFile(q, F), Mine(q, F)'
  PROVE  Owned'
<1> USE DEF NewFile
<1>1. \A x \in Row : Mine(x, NoFile)'
  BY DEF Mine
<1>2. \A x \in Row : \A f : Mine(x, f) => Mine(x, f)'
  BY MineKept
<1>3. \A x \in Row : \A f \in HeldBy(x)' : Mine(x, f)'
  BY <1>1, <1>2 DEF Owned
<1>4. \A f \in deleted' : \E x \in Row : Mine(x, f)'
  BY <1>2 DEF Owned
<1> QED
  BY <1>3, <1>4 DEF Owned, Given

\* A file that is no download, or of a row counted as fetched, leaves the names of downloads.
LEMMA DownloadKept ==
  ASSUME RowTypes, Owned, FirstDownload, NEW q \in Row, NEW F, NewFile(q, F),
         Core(F) # {q} \/ q \in User \/ q \in fetched'
  PROVE  FirstDownload'
<1> USE DEF NewFile
<1>1. Core(NoFile) = {}
  BY DEF NoFile, Core
<1>2. SUFFICES ASSUME NEW r \in Row \ User, r \notin fetched', NEW f \in HeldBy(r)' \cup deleted',
                      Core(f) = {r}
               PROVE  FALSE
  BY DEF FirstDownload
<1>3. \A g \in HeldBy(r) \cup deleted : Core(g) # {r}
  BY <1>2 DEF FirstDownload, Given
<1>4. CASE f \in HeldBy(r)'
  BY <1>1, <1>2, <1>3, <1>4
<1>5. ASSUME f \in deleted', NEW x \in Row, f \in HeldBy(x) PROVE FALSE
  <2>1. Mine(x, f)
    BY <1>5 DEF Owned
  <2>2. Core(f) = {x} \/ \E p \in given[x] : Core(f) = {p} /\ p \in Picture
    BY <1>2, <2>1, MineCore
  <2>3. x = r
    BY <1>2, <2>2
  <2> QED
    BY <1>2, <1>3, <1>5, <2>3
<1> QED
  BY <1>2, <1>3, <1>4, <1>5

\* Cards that were there remain pictures of their movie, and new ones are.
LEMMA CardsKept ==
  ASSUME Cards, Given,
         \A m \in Movie \ fetched' : \A c \in CardsOf(m)' : c \in CardsOf(m) \/ Card(m, c)
  PROVE  Cards'
<1>1. \A m \in Movie : \A c : Card(m, c) => Card(m, c)'
  BY DEF Card, Given
<1> QED
  BY <1>1 DEF Cards, Given

\* A file a movie refers to shows what was uploaded for it, before any download.
LEMMA HeldCard ==
  ASSUME RowTypes, Owned, FirstDownload, NEW m \in Movie \ fetched, NEW f \in HeldBy(m), f # NoFile
  PROVE  \E p \in given[m] : f.of \cap Picture = {p}
<1>1. Mine(m, f) /\ Core(f) # {m} /\ m \notin User
  BY DEF Owned, FirstDownload
<1>2. PICK p \in given[m] : Core(f) = {p}
  BY <1>1 DEF Mine
<1>3. p \in Picture /\ p \notin Optimizer /\ Picture \cap Optimizer = {}
  BY DEF RowTypes
<1>4. f.of \cap Picture = {p}
  BY <1>2, <1>3 DEF Core
<1> QED
  BY <1>4

\* A row whose picture is untouched, and is not the one whose file is deleted.
LEMMA SoundKept ==
  ASSUME RowTypes, FileTypes, Tasks, Tasks', Owned, NEW r \in Row \ reused, Sound(r),
         picture'[r] = picture[r], NoFile \notin deleted',
         \A v \in Optimizer : Advances(v, r),
         \A f \in deleted' : f \in deleted \/ \E x \in Row \ {r} : f \in HeldBy(x)
  PROVE  Sound(r)'
<1>1. picture[r] \in HeldBy(r) /\ \A x \in Row : \A f \in HeldBy(x) : Mine(x, f)
  BY DEF HeldBy, Owned
<1>2. ASSUME NEW f \in HeldBy(r), f.form = "raw", NEW w \in Optimizer,
             ShrunkOf(r, f, w) \notin deleted
      PROVE  ShrunkOf(r, f, w) \notin deleted'
  <2>1. f # NoFile
    BY <1>2 DEF NoFile
  <2>2. \A x \in Row : \A g \in HeldBy(x) : g = ShrunkOf(r, f, w) => x = r
    BY <1>1, <1>2, <2>1, ShrunkOwner
  <2> QED
    BY <1>2, <2>2
<1>3. picture'[r].form = "raw" => \A w \in Optimizer : ShrunkOf(r, picture'[r], w) \notin deleted'
  BY <1>1, <1>2 DEF Sound
<1>4. ASSUME NEW w \in Optimizer, Shrinking(w, r)'
      PROVE  /\ ShrunkOf(r, doing'[w].seen, w) \notin deleted'
             /\ r \in User => ShrunkOf(r, doing'[w].seen, w) # picture'[r]
  <2>1. doing'[w].seen.form = "raw"
    BY <1>4 DEF Tasks, Task, Shrinking
  <2>2. CASE Shrinking(w, r) /\ doing'[w].seen = doing[w].seen
    <3>1. doing[w].seen \in HeldBy(r)
      BY <2>2 DEF HeldBy, Shrinking
    <3> QED
      BY <1>2, <2>1, <2>2, <3>1 DEF Sound
  <2>3. CASE doing'[w].seen = picture[r]
    <3>1. ShrunkOf(r, picture[r], w).form = "webp"
      BY DEF ShrunkOf
    <3> QED
      BY <1>1, <1>2, <2>1, <2>3, <3>1 DEF Sound
  <2> QED
    BY <1>4, <2>2, <2>3 DEF Advances, Shrinking
<1>5. ASSUME NEW w \in Optimizer, At(w, "delete")', doing'[w].row = r
      PROVE  picture'[r] # doing'[w].seen
  BY <1>5 DEF Advances, At, Sound
<1>6. picture'[r] \notin deleted' \ {Default}
  <2>1. ASSUME NEW x \in Row \ {r}, picture[r] \in HeldBy(x), picture[r] # NoFile
        PROVE  picture[r] = Default
    <3>1. Core(picture[r]) = {}
      BY <1>1, <2>1, SameOwner DEF Owned
    <3> QED
      BY <1>1, <2>1, <3>1 DEF Mine
  <2> QED
    BY <2>1 DEF Sound
<1> QED
  BY <1>3, <1>4, <1>5, <1>6 DEF Sound
\* A row that is not uploaded to still shows the upload it showed.
LEMMA LatestKept ==
  ASSUME RowTypes, Tasks, NEW r \in Row, Latest(r),
         picture'[r] = picture[r], chosen'[r] = chosen[r],
         there'[r] = "yes" => there[r] \in {"no", "yes"},
         \A v \in Optimizer : Advances(v, r) /\ Fetches(v)
  PROVE  Latest(r)'
<1> SUFFICES ASSUME there'[r] = "yes", chosen[r] # {} PROVE Latest(r)'
  BY DEF Latest
<1>1. there[r] = "yes" /\ picture[r].of \cap Picture = chosen[r]
  BY DEF RowTypes, Latest
<1>2. NoFile.of \cap Picture = {}
  BY DEF NoFile
<1>3. ASSUME NEW w \in Optimizer, doing'[w].job = "shrink", doing'[w].row = r
      PROVE  doing'[w].seen.of \cap Picture = chosen[r]
  BY <1>1, <1>3 DEF Latest, Advances
<1>4. ASSUME NEW w \in Optimizer, Fetching(w)', doing'[w].row = r PROVE FALSE
  BY <1>1, <1>2, <1>4 DEF Latest, Fetches
<1> QED
  BY <1>1, <1>3, <1>4 DEF Latest

\* Files that rows refer to stay what rows may refer to.
LEMMA FilesKept ==
  ASSUME FileTypes, NEW q, NEW F, NewFile(q, F), Stored(F), NoFile \notin deleted'
  PROVE  FileTypes'
<1>1. Stored(NoFile)
  <2>1. NoFile.form # "raw" /\ NoFile = [of |-> NoFile.of, form |-> NoFile.form]
    BY DEF NoFile
  <2> QED
    BY <2>1 DEF Stored
<1>2. \A r \in Row : \A f \in HeldBy(r)' : Stored(f)
  BY <1>1 DEF FileTypes, NewFile
<1>3. \A f \in deleted' : f.form \in {"raw", "webp"}
  BY DEF FileTypes, NewFile, Stored
<1> QED
  BY <1>2, <1>3 DEF FileTypes

\* A task is put into the place of another.
LEMMA TaskSet ==
  ASSUME Tasks, NEW w \in Optimizer, NEW k, Task(k), doing' = [doing EXCEPT ![w] = k],
         downloads' \subseteq downloads
  PROVE  Tasks'
<1>1. doing'[w] = k /\ \A v \in Optimizer \ {w} : doing'[v] = doing[v]
  BY DEF Tasks
<1>2. doing' = [v \in Optimizer |-> doing'[v]]
  BY DEF Tasks
<1>3. \A v \in Optimizer : Task(doing'[v])
  BY <1>1 DEF Tasks
<1> QED
  BY <1>2, <1>3 DEF Tasks

\* A worker without a task.
LEMMA FreeTask == Free.job = "none" /\ Task(Free)
  BY DEF Free, Task

\* Records of tasks, one field changed.
LEMMA ShrinkAt ==
  ASSUME NEW j, NEW r, NEW f, NEW c, NEW a, j = ShrinkJob(r, f, c, a), NEW at
  PROVE  [j EXCEPT !.at = at] = ShrinkJob(r, f, c, at)
  BY DEF ShrinkJob

\* The same, of the file it has seen.
LEMMA ShrinkSeen ==
  ASSUME NEW j, NEW r, NEW f, NEW c, NEW a, j = ShrinkJob(r, f, c, a), NEW g
  PROVE  [j EXCEPT !.seen = g] = ShrinkJob(r, g, c, a)
  BY DEF ShrinkJob

\* Of a download, where it is,
LEMMA DownloadAt ==
  ASSUME NEW j, NEW r, NEW d, NEW a, NEW l, j = DownloadJob(r, d, a, l), NEW at
  PROVE  [j EXCEPT !.at = at] = DownloadJob(r, d, at, l)
  BY DEF DownloadJob

\* the row it is for
LEMMA DownloadRow ==
  ASSUME NEW j, NEW r, NEW d, NEW a, NEW l, j = DownloadJob(r, d, a, l), NEW q
  PROVE  [j EXCEPT !.row = q] = DownloadJob(q, d, a, l)
  BY DEF DownloadJob

\* and the actors that are left.
LEMMA DownloadLeft ==
  ASSUME NEW j, NEW r, NEW d, NEW a, NEW l, j = DownloadJob(r, d, a, l), NEW q
  PROVE  [j EXCEPT !.left = @ \ {q}] = DownloadJob(r, d, a, l \ {q})
  BY DEF DownloadJob

\* A download goes on to its next row, or fetches.
LEMMA DownloadTask ==
  ASSUME Tasks, NEW w \in Optimizer, doing[w].job = "download",
         NEW r, Asks(r), NEW at, NEW l, l \subseteq doing[w].left
  PROVE  /\ Task(DownloadJob(r, doing[w].asked, at, l))
         /\ DownloadJob(r, doing[w].asked, at, l).job = "download"
         /\ DownloadJob(r, doing[w].asked, at, l).row = r
         /\ DownloadJob(r, doing[w].asked, at, l).asked = doing[w].asked
         /\ DownloadJob(r, doing[w].asked, at, l).at = at
<1>1. Import(doing[w].asked) /\ doing[w].left \subseteq Cast
  BY DEF Tasks, Task
<1>2. PICK k : k = DownloadJob(r, doing[w].asked, at, l)
  OBVIOUS
<1>3. k.job = "download" /\ k.row = r /\ k.asked = doing[w].asked /\ k.at = at /\ k.left = l
  BY <1>2 DEF DownloadJob
<1>4. Task(k)
  BY <1>1, <1>2, <1>3 DEF Task
<1> QED
  BY <1>2, <1>3, <1>4

\* NextRow: the download looks at its next row, or ends.
LEMMA NextRowTask ==
  ASSUME Tasks, NEW w \in Optimizer, doing[w].job = "download", NextRow(w)
  PROVE  \E k : /\ doing' = [doing EXCEPT ![w] = k] /\ Task(k)
                /\ \/ k.job = "none"
                   \/ k.job = "download" /\ k.at = "look"
<1>1. CASE doing' = [doing EXCEPT ![w] = Free]
  BY <1>1, FreeTask
<1>2. ASSUME NEW a \in doing[w].left,
             doing' = [doing EXCEPT ![w] = [doing[w] EXCEPT !.row = a, !.at = "look",
                                                           !.left = @ \ {a}]]
      PROVE  \E k : /\ doing' = [doing EXCEPT ![w] = k] /\ Task(k)
                    /\ k.job = "download" /\ k.asked = doing[w].asked /\ k.at = "look"
  <2>1. /\ doing[w] = DownloadJob(doing[w].row, doing[w].asked, doing[w].at, doing[w].left)
        /\ Asks(doing[w].row) /\ doing[w].left \subseteq Cast
    BY DEF Tasks, Task
  <2>2. PICK j : j = doing[w]
    OBVIOUS
  <2>3. PICK i : i = [j EXCEPT !.row = a]
    OBVIOUS
  <2>4. i = DownloadJob(a, doing[w].asked, doing[w].at, doing[w].left)
    BY <2>1, <2>2, <2>3, DownloadRow
  <2>5. PICK h : h = [i EXCEPT !.at = "look"]
    OBVIOUS
  <2>6. h = DownloadJob(a, doing[w].asked, "look", doing[w].left)
    BY <2>4, <2>5, DownloadAt
  <2>7. [h EXCEPT !.left = @ \ {a}] = DownloadJob(a, doing[w].asked, "look", doing[w].left \ {a})
    BY <2>6, DownloadLeft
  <2>8. [j EXCEPT !.row = a, !.at = "look", !.left = @ \ {a}] = [h EXCEPT !.left = @ \ {a}]
    BY <2>3, <2>5
  <2>9. doing' = [doing EXCEPT ![w] = [j EXCEPT !.row = a, !.at = "look", !.left = @ \ {a}]]
    BY <1>2, <2>2
  <2>10. doing' = [doing EXCEPT ![w] = DownloadJob(a, doing[w].asked, "look", doing[w].left \ {a})]
    BY <2>7, <2>8, <2>9
  <2>11. Asks(a)
    BY <2>1 DEF Asks
  <2>12. PICK k : k = DownloadJob(a, doing[w].asked, "look", doing[w].left \ {a})
    OBVIOUS
  <2>13. doing[w].left \ {a} \subseteq doing[w].left
    OBVIOUS
  <2>14. Task(k) /\ k.job = "download" /\ k.asked = doing[w].asked /\ k.at = "look"
    BY <2>11, <2>12, <2>13, DownloadTask
  <2> QED
    BY <2>10, <2>12, <2>14
<1> QED
  BY <1>1, <1>2 DEF NextRow

\* A shrinking task goes on with the file it has seen.
LEMMA GotoTask ==
  ASSUME Tasks, NEW w \in Optimizer, doing[w].job = "shrink", NEW at, Goto(w, at),
         at \in {"open", "update", "delete"} => doing[w].seen.form = "raw",
         at = "write" => doing[w].row \in Movie
  PROVE  \E k : /\ doing' = [doing EXCEPT ![w] = k] /\ Task(k)
                /\ k.job = "shrink" /\ k.row = doing[w].row /\ k.seen = doing[w].seen /\ k.at = at
<1>1. /\ doing[w] = ShrinkJob(doing[w].row, doing[w].seen, doing[w].card, doing[w].at)
      /\ doing[w].seen # NoFile
  BY DEF Tasks, Task
<1>2. PICK j : j = doing[w]
  OBVIOUS
<1>3. [j EXCEPT !.at = at] = ShrinkJob(doing[w].row, doing[w].seen, doing[w].card, at)
  BY <1>1, <1>2, ShrinkAt
<1>4. doing' = [doing EXCEPT ![w] = [j EXCEPT !.at = at]]
  BY <1>2 DEF Goto
<1>5. doing' = [doing EXCEPT ![w] = ShrinkJob(doing[w].row, doing[w].seen, doing[w].card, at)]
  BY <1>3, <1>4
<1>6. PICK k : k = ShrinkJob(doing[w].row, doing[w].seen, doing[w].card, at)
  OBVIOUS
<1>7. Task(k) /\ k.job = "shrink" /\ k.row = doing[w].row /\ k.seen = doing[w].seen /\ k.at = at
  <2>1. /\ k.job = "shrink" /\ k.row = doing[w].row /\ k.seen = doing[w].seen /\ k.at = at
        /\ k.card = doing[w].card
    BY <1>6 DEF ShrinkJob
  <2>2. doing[w].row \in Row
    BY DEF Tasks, Task
  <2>3. k = ShrinkJob(k.row, k.seen, k.card, k.at)
    BY <1>6, <2>1
  <2> QED
    BY <1>1, <2>1, <2>2, <2>3 DEF Task
<1> QED
  BY <1>5, <1>6, <1>7

\* Where the task that is put into w's place comes from.
Follows(w, k) ==
    /\ k.job = "shrink" =>
          \/ /\ doing[w].job = "shrink" /\ k.row = doing[w].row /\ k.seen = doing[w].seen
             /\ k.at \in {"open", "update"} => doing[w].at \in {"open", "update"}
             /\ k.at = "delete" => doing[w].at = "delete"
          \/ k.seen = picture[k.row] /\ k.at # "delete"
    /\ k.job = "download" /\ k.at = "fetch" =>
          /\ k.row = doing[w].row /\ doing[w].job = "download"
          /\ there[doing[w].row] = "yes" /\ picture[doing[w].row] = NoFile

\* A task that follows another advances it.
LEMMA FollowsFrame ==
  ASSUME Tasks, NEW w \in Optimizer, NEW k, Follows(w, k), doing' = [doing EXCEPT ![w] = k]
  PROVE  \A v \in Optimizer : Fetches(v) /\ \A x : Advances(v, x)
<1>1. doing'[w] = k /\ \A v \in Optimizer \ {w} : doing'[v] = doing[v]
  BY DEF Tasks
<1>2. ASSUME NEW v \in Optimizer \ {w} PROVE Fetches(v) /\ \A x : Advances(v, x)
  BY <1>1 DEF Fetches, Advances, Fetching
<1>3. Fetches(w)
  BY <1>1 DEF Follows, Fetches, Fetching
<1>4. \A x : Advances(w, x)
  BY <1>1 DEF Follows, Advances
<1> QED
  BY <1>2, <1>3, <1>4

\* Tasks that stand still advance.
LEMMA SameTasks ==
  ASSUME doing' = doing
  PROVE  \A v \in Optimizer : Fetches(v) /\ \A x : Advances(v, x)
  BY DEF Fetches, Advances, Fetching

\* The files a row refers to, when tasks go on and forms are loaded or closed.
LEMMA HeldFrame ==
  ASSUME NEW x \in Row, \A v \in Optimizer : Advances(v, x),
         \A e \in editing' : e \in editing \/ e.picture = picture[e.row]
  PROVE  HeldBy(x)' \subseteq HeldBy(x) \cup {picture'[x]}
<1> SUFFICES ASSUME NEW f \in HeldBy(x)', f # picture'[x] PROVE f \in HeldBy(x)
  OBVIOUS
<1>1. ASSUME NEW e \in editing', e.row = x, f = e.picture PROVE f \in HeldBy(x)
  BY <1>1 DEF HeldBy
<1>2. ASSUME NEW v \in Optimizer, doing'[v].job = "shrink", doing'[v].row = x, f = doing'[v].seen
      PROVE  f \in HeldBy(x)
  BY <1>2 DEF HeldBy, Advances
<1> QED
  BY <1>1, <1>2 DEF HeldBy

\* A step that touches no picture and deletes nothing.
Quiet ==
    /\ UNCHANGED <<picture, given, chosen, fetched>>
    /\ deleted' \subseteq deleted
    /\ rushed \subseteq rushed' /\ spoilt \subseteq spoilt' /\ reused \subseteq reused'
    /\ \A e \in editing' : e \in editing \/ e.picture = picture[e.row]
    /\ \A x \in Row : there[x] = "gone" => there'[x] = "gone"
    /\ \A v \in Optimizer : Fetches(v) /\ \A x : Advances(v, x)

\* Where no name is new and no row is counted in again.
LEMMA GivenSame ==
  ASSUME GivenOnce, given' = given, fetched \subseteq fetched', reused \subseteq reused' PROVE Given
  BY DEF GivenOnce, Given

\* A quiet step preserves the invariant.
LEMMA QuietStep == ASSUME PicIInv, RowTypes', Tasks', Cards', Quiet PROVE PicIInv'
<1>1. ASSUME NEW q \in Row PROVE FileTypes' /\ Owned' /\ FirstDownload'
  <2> USE DEF PicIInv, Quiet
  <2>1. \A x \in Row : picture[x] \in HeldBy(x)
    BY DEF HeldBy
  <2>2. \A x \in Row : HeldBy(x)' \subseteq HeldBy(x)
    BY <2>1, HeldFrame
  <2>3. Given
    BY GivenSame DEF Owned
  <2>4. NewFile(q, NoFile)
    BY <2>2, <2>3 DEF NewFile
  <2>5. Core(NoFile) = {} /\ Stored(NoFile) /\ Mine(q, NoFile)'
    <3>1. NoFile.form # "raw" /\ NoFile = [of |-> NoFile.of, form |-> NoFile.form]
      BY DEF NoFile
    <3> QED
      BY <3>1 DEF Mine, Core, NoFile, Stored
  <2>6. NoFile \notin deleted'
    <3>1. NoFile.form = "none"
      BY DEF NoFile
    <3> QED
      BY <3>1 DEF FileTypes
  <2> QED
    BY <2>4, <2>5, <2>6, OwnedKept, FilesKept, DownloadKept
<1>2. FileTypes' /\ Owned' /\ FirstDownload'
  <2>1. CASE Row = {}
    <3>1. \A f \in deleted' : FALSE
      BY <2>1 DEF Quiet, PicIInv, Owned
    <3> QED
      BY <2>1, <3>1 DEF FileTypes, Owned, FirstDownload, GivenOnce
  <2> QED
    BY <1>1, <2>1
<1> USE DEF PicIInv, Quiet
<1>3. NoFile \notin deleted'
  <2>1. NoFile.form = "none"
    BY DEF NoFile
  <2> QED
    BY <2>1 DEF FileTypes
<1>4. FirstShrunk'
  <2>1. ASSUME NEW r \in Row \ (spoilt \cup reused) PROVE Sound(r)'
    BY <1>3, SoundKept DEF FirstShrunk
  <2> QED
    BY <2>1 DEF FirstShrunk
<1>5. OnLatest'
  <2>1. ASSUME NEW r \in Row \ (rushed \cup spoilt) PROVE Latest(r)'
    <3>1. there'[r] = "yes" => there[r] \in {"no", "yes"}
      BY DEF RowTypes
    <3> QED
      BY <3>1, LatestKept DEF OnLatest
  <2> QED
    BY <2>1 DEF OnLatest
<1> QED
  BY <1>2, <1>4, <1>5

\* No card is new.
LEMMA CardsSame ==
  ASSUME Cards, GivenOnce, given' = given, reused \subseteq reused', fetched' = fetched,
         card' = card,
         \A e \in editing' : e \in editing \/ (e.row \in Movie => e.card = card[e.row])
  PROVE  Cards'
<1>1. Given
  BY GivenSame
<1>2. \A m \in Movie : \A c \in CardsOf(m)' : c \in CardsOf(m)
  BY DEF CardsOf
<1> QED
  BY <1>1, <1>2, CardsKept

\* Where no task and no queued import changes.
LEMMA TasksSame == ASSUME Tasks, doing' = doing, downloads' = downloads PROVE Tasks'
  BY DEF Tasks

\* A worker lets its task go.
LEMMA FreeStep ==
  ASSUME Tasks, NEW w \in Optimizer, doing' = [doing EXCEPT ![w] = Free],
         downloads' = downloads
  PROVE  Tasks' /\ \A v \in Optimizer : Fetches(v) /\ \A x : Advances(v, x)
<1>1. Follows(w, Free)
  BY FreeTask DEF Follows
<1> QED
  BY <1>1, FreeTask, FollowsFrame, TaskSet

\* The steps that are quiet.
LEMMA QuietLoad ==
  ASSUME PicIInv, NEW t \in Tab, NEW r \in Row, Load(t, r) PROVE PicIInv'
<1> USE DEF PicIInv, Load, rowVars, past
<1>1. Tasks'
  BY TasksSame
<1>2. NoFile.form = "none"
  BY DEF NoFile
<1>3. PICK e : /\ e = [tab |-> t, row |-> r, picture |-> picture[r],
                       card |-> IF r \in Movie THEN card[r] ELSE NoFile]
               /\ editing' = editing \cup {e}
  OBVIOUS
<1>4. e.row = r /\ e.picture = picture[r] /\ e.card.form \in {"card", "none"}
  BY <1>2, <1>3 DEF RowTypes
<1>5. RowTypes'
  BY <1>3, <1>4 DEF RowTypes
<1>6. Quiet
  BY <1>3, <1>4, SameTasks DEF Quiet
<1>7. Cards'
  <2>1. r \in Movie => e.card = card[r]
    BY <1>3
  <2> QED
    BY <1>3, <1>4, <2>1, CardsSame DEF Owned
<1> QED
  BY <1>1, <1>5, <1>6, <1>7, QuietStep

\* tmdb_import_view: a movie and its actors appear, without pictures.
LEMMA QuietImport ==
  ASSUME PicIInv, NEW m \in Movie, tmdb_import_view(m) PROVE PicIInv'
<1> USE DEF PicIInv, tmdb_import_view, import_movie, past
<1>1. PICK d : d = [movie |-> m, actors |-> Unpictured] /\ downloads' = downloads \cup {d}
  OBVIOUS
<1>2. /\ there[m] = "no" /\ doing' = doing
      /\ there' = [r \in Row |-> IF r \in {m} \cup NewActors THEN "yes" ELSE there[r]]
  OBVIOUS
<1>3. Import(d)
  BY <1>1 DEF Unpictured, Import
<1>4. Tasks'
  BY <1>1, <1>2, <1>3 DEF Tasks
<1>5. RowTypes'
  <2>1. UNCHANGED <<picture, card, chosen, given, editing>>
    OBVIOUS
  <2>2. /\ picture = [r \in Row |-> picture[r]] /\ card = [n \in Movie |-> card[n]]
        /\ chosen \in [Row -> SUBSET Picture] /\ given \in [Row -> SUBSET Picture]
        /\ \A r \in Row : chosen[r] \subseteq given[r]
        /\ \A n \in Movie : card[n].form \in {"card", "none"}
        /\ \A e \in editing : e.row \in Row /\ e.card.form \in {"card", "none"}
    BY DEF RowTypes
  <2>3. /\ picture' = [r \in Row |-> picture'[r]] /\ card' = [n \in Movie |-> card'[n]]
        /\ chosen' \in [Row -> SUBSET Picture] /\ given' \in [Row -> SUBSET Picture]
        /\ \A r \in Row : chosen'[r] \subseteq given'[r]
        /\ \A n \in Movie : card'[n].form \in {"card", "none"}
        /\ \A e \in editing' : e.row \in Row /\ e.card.form \in {"card", "none"}
    BY <2>1, <2>2
  <2>4. \A r \in Row : /\ there'[r] \in {"no", "yes", "gone"}
                       /\ there'[r] = "yes" \/ there'[r] = there[r]
    BY <1>2 DEF RowTypes
  <2>5. there' \in [Row -> {"no", "yes", "gone"}]
    BY <1>2, <2>4
  <2>6. \A r \in Row : there'[r] # "yes" => picture'[r] = NoFile
    BY <2>1, <2>4 DEF RowTypes
  <2>7. \A r \in Row : there'[r] = "no" => chosen'[r] = {}
    BY <2>1, <2>4 DEF RowTypes
  <2> HIDE DEF PicIInv, tmdb_import_view, import_movie, past
  <2> QED
    BY <2>3, <2>5, <2>6, <2>7 DEF RowTypes
<1>6. Quiet
  BY <1>2, SameTasks DEF Quiet, NewActors
<1>7. Cards'
  BY CardsSame DEF Owned
<1> QED
  BY <1>4, <1>5, <1>6, <1>7, QuietStep

\* tmdb_download_images until it stores something, or starts again.
LEMMA QuietTask ==
  ASSUME PicIInv, NEW w \in Optimizer,
         \/ \E d \in downloads : StartDownload(w, d)
         \/ Look(w) \/ RetryDownload(w)
  PROVE  PicIInv'
<1> USE DEF PicIInv, rowVars, past
<1>0. UNCHANGED <<there, picture, card, deleted, past, editing>>
  BY DEF StartDownload, Look, RetryDownload
<1>1. RowTypes' /\ UNCHANGED <<there, picture, card, deleted, past, editing>>
  BY <1>0 DEF RowTypes
<1>2. ASSUME NEW d \in downloads, StartDownload(w, d)
      PROVE  Tasks' /\ \A v \in Optimizer : Fetches(v) /\ \A x : Advances(v, x)
  <2>1. PICK k : /\ doing' = [doing EXCEPT ![w] = k]
                 /\ k = IF there[d.movie] # "yes" THEN Free
                        ELSE DownloadJob(d.movie, d, "look", d.actors)
    BY <1>2 DEF StartDownload, DownloadJob
  <2>2. downloads' = downloads \ {d}
    BY <1>2 DEF StartDownload
  <2>3. Task(k) /\ k.job \in {"none", "download"} /\ (k.job = "download" => k.at = "look")
    <3>1. CASE k = Free
      BY <3>1, FreeTask
    <3>2. CASE k = DownloadJob(d.movie, d, "look", d.actors)
      <4>1. /\ k.job = "download" /\ k.asked = d /\ k.at = "look" /\ k.row = d.movie
            /\ k.left = d.actors
        BY <3>2 DEF DownloadJob
      <4>2. Import(d)
        BY DEF Tasks
      <4> QED
        BY <3>2, <4>1, <4>2 DEF Task, Asks, Import
    <3> QED
      BY <2>1, <3>1, <3>2
  <2>5. Follows(w, k)
    BY <2>3 DEF Follows
  <2>6. Tasks'
    <3>1. downloads' \subseteq downloads
      BY <2>2
    <3> QED
      BY <2>1, <2>3, <3>1, TaskSet
  <2> QED
    BY <2>1, <2>5, <2>6, FollowsFrame
<1>3. ASSUME Look(w)
      PROVE  Tasks' /\ \A v \in Optimizer : Fetches(v) /\ \A x : Advances(v, x)
  <2>1. doing[w].job = "download" /\ downloads' = downloads
    BY <1>3 DEF Look
  <2>2. PICK k : /\ doing' = [doing EXCEPT ![w] = k] /\ Task(k) /\ Follows(w, k)
                 /\ k.job \in {"none", "download"}
    <3>1. CASE ~Missing(doing[w].row)
      <4>1. PICK k : /\ doing' = [doing EXCEPT ![w] = k] /\ Task(k)
                     /\ \/ k.job = "none"
                        \/ k.job = "download" /\ k.at = "look"
        BY <1>3, <2>1, <3>1, NextRowTask DEF Look
      <4>2. Follows(w, k)
        BY <4>1 DEF Follows
      <4> QED
        BY <4>1, <4>2
    <3>2. CASE Missing(doing[w].row)
      <4>1. PICK k : k = DownloadJob(doing[w].row, doing[w].asked, "fetch", doing[w].left)
        OBVIOUS
      <4>2. /\ doing[w] = DownloadJob(doing[w].row, doing[w].asked, doing[w].at, doing[w].left)
            /\ Asks(doing[w].row)
        BY <2>1 DEF Tasks, Task
      <4>3. PICK j : j = doing[w]
        OBVIOUS
      <4>4. [j EXCEPT !.at = "fetch"] = k
        BY <4>1, <4>2, <4>3, DownloadAt
      <4>5. doing' = [doing EXCEPT ![w] = [j EXCEPT !.at = "fetch"]]
        BY <1>3, <3>2, <4>3 DEF Look
      <4>6. Task(k) /\ k.job = "download" /\ k.row = doing[w].row /\ k.at = "fetch"
        BY <2>1, <4>1, <4>2, DownloadTask
      <4>7. Follows(w, k)
        BY <2>1, <3>2, <4>6 DEF Follows, Missing
      <4> QED
        BY <4>4, <4>5, <4>6, <4>7
    <3> QED
      BY <3>1, <3>2
  <2>3. Tasks'
    BY <1>1, <2>1, <2>2, TaskSet
  <2> QED
    BY <2>2, <2>3, FollowsFrame
<1>4. ASSUME RetryDownload(w)
      PROVE  Tasks' /\ \A v \in Optimizer : Fetches(v) /\ \A x : Advances(v, x)
  <2>1. /\ doing[w].job = "download" /\ doing' = [doing EXCEPT ![w] = Free]
        /\ downloads' = downloads \cup {doing[w].asked}
    BY <1>4 DEF RetryDownload
  <2>2. /\ doing'[w] = Free /\ Free.job = "none" /\ Task(Free)
        /\ \A v \in Optimizer \ {w} : doing'[v] = doing[v]
    BY <2>1, FreeTask DEF Tasks
  <2>3. Import(doing[w].asked)
    BY <2>1 DEF Tasks, Task
  <2>4. Follows(w, Free)
    BY <2>2 DEF Follows
  <2>5. Tasks'
    <3>1. doing' = [v \in Optimizer |-> doing'[v]] /\ \A v \in Optimizer : Task(doing'[v])
      BY <2>1, <2>2 DEF Tasks
    <3>2. \A c \in downloads' : Import(c)
      BY <2>1, <2>3 DEF Tasks
    <3> QED
      BY <3>1, <3>2 DEF Tasks
  <2> QED
    BY <2>1, <2>4, <2>5, FollowsFrame
<1>5. Tasks' /\ \A v \in Optimizer : Fetches(v) /\ \A x : Advances(v, x)
  BY <1>2, <1>3, <1>4
<1>6. Quiet
  BY <1>1, <1>5 DEF Quiet
<1>7. Cards'
  BY <1>1, CardsSame DEF Owned
<1> QED
  BY <1>1, <1>5, <1>6, <1>7, QuietStep

\* optimize_image_task where it reads, writes a card or ends.
LEMMA QuietShrink ==
  ASSUME PicIInv, NEW w \in Optimizer,
         Shrink(w) \/ MakeCard(w) \/ WriteCard(w) \/ Retry(w) \/ Die(w)
  PROVE  PicIInv'
<1> USE DEF PicIInv, rowVars, past
<1>1. UNCHANGED <<there, picture, deleted, past, editing, downloads>>
  BY DEF Shrink, MakeCard, WriteCard, Retry, Die
<1>2. RowTypes'
  <2>1. CASE card' = card
    BY <1>1, <2>1 DEF RowTypes
  <2>2. CASE WriteCard(w) /\ there[doing[w].row] = "yes"
    <3>1. PICK f, m : f = doing[w].seen /\ m = doing[w].row
      OBVIOUS
    <3>2. f \in HeldBy(m) /\ m \in Row
      BY <2>2, <3>1 DEF WriteCard, At, HeldBy, Tasks, Task
    <3>3. f = [of |-> f.of, form |-> f.form]
      BY <3>2 DEF FileTypes, Stored
    <3>4. PICK c : c = [f EXCEPT !.form = "card"]
      OBVIOUS
    <3>5. c = [of |-> f.of, form |-> "card"]
      BY <3>3, <3>4
    <3>6. c.form = "card"
      BY <3>5
    <3>7. card' = [card EXCEPT ![m] = c]
      BY <2>2, <3>1, <3>4 DEF WriteCard
    <3> QED
      BY <1>1, <3>6, <3>7 DEF RowTypes
  <2> QED
    BY <1>1, <2>1, <2>2 DEF Shrink, MakeCard, WriteCard, Retry, Die
<1>3. ASSUME doing' = [doing EXCEPT ![w] = Free]
      PROVE  Tasks' /\ \A v \in Optimizer : Fetches(v) /\ \A x : Advances(v, x)
  BY <1>1, <1>3, FreeStep
<1>4. ASSUME NEW at \in {"update", "write"}, doing[w].job = "shrink", Goto(w, at),
             at = "update" => doing[w].at = "open", at = "write" => doing[w].row \in Movie
      PROVE  Tasks' /\ \A v \in Optimizer : Fetches(v) /\ \A x : Advances(v, x)
  <2>1. PICK k : /\ doing' = [doing EXCEPT ![w] = k] /\ Task(k)
                 /\ k.job = "shrink" /\ k.row = doing[w].row /\ k.seen = doing[w].seen /\ k.at = at
    <3>1. at \in {"open", "update", "delete"} => doing[w].seen.form = "raw"
      BY <1>4 DEF Tasks, Task
    <3> QED
      BY <1>4, <3>1, GotoTask
  <2>2. Follows(w, k)
    BY <1>4, <2>1 DEF Follows
  <2>3. Tasks'
    BY <1>1, <2>1, TaskSet
  <2> QED
    BY <2>1, <2>2, <2>3, FollowsFrame
<1>5. \/ doing' = [doing EXCEPT ![w] = Free]
      \/ \E at \in {"update", "write"} :
            /\ doing[w].job = "shrink" /\ Goto(w, at)
            /\ (at = "update" => doing[w].at = "open") /\ (at = "write" => doing[w].row \in Movie)
  BY DEF Shrink, MakeCard, WriteCard, Retry, Die, At
<1>6. Tasks' /\ \A v \in Optimizer : Fetches(v) /\ \A x : Advances(v, x)
  BY <1>3, <1>4, <1>5
<1>7. Quiet
  BY <1>1, <1>6 DEF Quiet
<1>8. Cards'
  <2>1. CASE card' = card
    BY <1>1, <2>1, CardsSame DEF Owned
  <2>2. CASE WriteCard(w) /\ there[doing[w].row] = "yes"
    <3>1. PICK f, m : f = doing[w].seen /\ m = doing[w].row
      OBVIOUS
    <3>2. f \in HeldBy(m) /\ m \in Movie /\ f # NoFile
      BY <2>2, <3>1 DEF WriteCard, At, HeldBy, Tasks, Task
    <3>3. f = [of |-> f.of, form |-> f.form]
      BY <3>2 DEF FileTypes, Stored
    <3>4. PICK c : c = [f EXCEPT !.form = "card"]
      OBVIOUS
    <3>5. c.of = f.of
      BY <3>3, <3>4
    <3>6. card' = [card EXCEPT ![m] = c]
      BY <2>2, <3>1, <3>4 DEF WriteCard
    <3>7. m \notin fetched => Card(m, c)
      BY <3>2, <3>5, HeldCard DEF Card
    <3>8. \A x \in Movie : card'[x] = IF x = m THEN c ELSE card[x]
      BY <3>2, <3>6 DEF RowTypes
    <3>9. \A x \in Movie \ fetched' : \A b \in CardsOf(x)' : b \in CardsOf(x) \/ Card(x, b)
      BY <1>1, <3>7, <3>8 DEF CardsOf
    <3>10. Given
      BY <1>1, GivenSame DEF Owned
    <3> QED
      BY <3>9, <3>10, CardsKept
  <2> QED
    BY <1>1, <2>1, <2>2 DEF Shrink, MakeCard, WriteCard, Retry, Die
<1> QED
  BY <1>2, <1>6, <1>7, <1>8, QuietStep

\* optimize_image_task: a worker takes a task and loads the row.
LEMMA QuietTake ==
  ASSUME PicIInv, NEW w \in Optimizer, NEW r \in Row, optimize_image_task(w, r) PROVE PicIInv'
<1> USE DEF PicIInv, past
<1>1. UNCHANGED <<there, picture, card, deleted, past, editing, downloads>>
  BY DEF optimize_image_task
<1>2. RowTypes'
  BY <1>1 DEF RowTypes
<1>3. ASSUME doing' = [doing EXCEPT ![w] = Free]
      PROVE  Tasks' /\ \A v \in Optimizer : Fetches(v) /\ \A x : Advances(v, x)
  BY <1>1, <1>3, FreeStep
<1>4. ASSUME doing' # [doing EXCEPT ![w] = Free]
      PROVE  Tasks' /\ \A v \in Optimizer : Fetches(v) /\ \A x : Advances(v, x)
  <2>1. picture[r] # NoFile
    BY <1>4 DEF optimize_image_task
  <2>2. PICK c, j : j = ShrinkJob(r, picture[r], c, "open")
                    /\ doing' = [doing EXCEPT ![w] = IF picture[r].form = "webp"
                                                     THEN [j EXCEPT !.at = "card"] ELSE j]
    BY <1>4 DEF optimize_image_task, ShrinkJob
  <2>3. PICK k : /\ k = ShrinkJob(r, picture[r], c,
                                 IF picture[r].form = "webp" THEN "card" ELSE "open")
                 /\ doing' = [doing EXCEPT ![w] = k]
    <3>1. [j EXCEPT !.at = "card"] = ShrinkJob(r, picture[r], c, "card")
      BY <2>2, ShrinkAt
    <3> QED
      BY <2>2, <3>1
  <2>4. /\ k.job = "shrink" /\ k.row = r /\ k.seen = picture[r] /\ k.card = c
        /\ k.at = IF picture[r].form = "webp" THEN "card" ELSE "open"
    BY <2>3 DEF ShrinkJob
  <2>5. picture[r].form = "webp" \/ picture[r].form = "raw"
    BY <2>1 DEF FileTypes, Stored, HeldBy
  <2>6. Task(k)
    BY <2>1, <2>3, <2>4, <2>5 DEF Task
  <2>7. Follows(w, k)
    BY <2>4 DEF Follows
  <2>8. Tasks'
    BY <1>1, <2>3, <2>4, <2>6, TaskSet
  <2> QED
    BY <2>3, <2>7, <2>8, FollowsFrame
<1>5. Tasks' /\ \A v \in Optimizer : Fetches(v) /\ \A x : Advances(v, x)
  BY <1>3, <1>4
<1>6. Quiet
  BY <1>1, <1>5 DEF Quiet
<1>7. Cards'
  BY <1>1, CardsSame DEF Owned
<1> QED
  BY <1>2, <1>5, <1>6, <1>7, QuietStep

\* Where no file was called so before.
LEMMA FreshPicture ==
  ASSUME RowTypes, Owned, NEW p \in Picture, Namesakes(p) = {}
  PROVE  /\ \A x \in Row : \A g \in HeldBy(x) : p \notin g.of
         /\ \A g \in deleted : p \notin g.of
<1>1. p \notin Optimizer /\ p \notin Row /\ \A x \in Row : p \notin given[x]
  BY DEF Namesakes
<1>2. ASSUME NEW x \in Row, NEW g, Mine(x, g), p \in g.of PROVE FALSE
  <2>1. p \in Core(g)
    BY <1>1, <1>2 DEF Core
  <2> QED
    BY <1>1, <1>2, <2>1, MineCore
<1> QED
  BY <1>2 DEF Owned

\* No file shows nothing, and belongs to everyone.
LEMMA NoFileFacts ==
  /\ NoFile.of = {} /\ NoFile.form = "none" /\ Core(NoFile) = {} /\ Stored(NoFile)
  /\ \A r : Mine(r, NoFile)
<1>1. NoFile.of = {} /\ NoFile.form = "none" /\ NoFile = [of |-> NoFile.of, form |-> NoFile.form]
  BY DEF NoFile
<1> QED
  BY <1>1 DEF Core, Stored, Mine

\* A save deletes at most the avatar the row referred to, and not the new one.
LEMMA ReplacedFiles ==
  ASSUME NEW r, NEW f
  PROVE  Replaced(r, f) \subseteq (IF r \in User THEN {picture[r]} \ {NoFile, f} ELSE {})
  BY DEF Replaced

\* A row loses its picture, and with it an avatar its file.
LEMMA SoundCleared ==
  ASSUME Tasks, FileTypes, NEW r \in Row, Sound(r), picture'[r] = NoFile, doing' = doing,
         NoFile \notin deleted', deleted' \subseteq deleted \cup Replaced(r, NoFile)
  PROVE  Sound(r)'
<1>1. picture'[r].form # "raw" /\ picture'[r] \notin deleted' \ {Default}
  BY NoFileFacts
<1>2. ASSUME NEW w \in Optimizer, Shrinking(w, r)
      PROVE  /\ ShrunkOf(r, doing[w].seen, w) \notin deleted'
             /\ ShrunkOf(r, doing[w].seen, w) # NoFile
  BY <1>2, ShrunkCore, ReplacedFiles DEF Sound
<1>3. \A w \in Optimizer : Shrinking(w, r)' => Shrinking(w, r) /\ doing'[w].seen = doing[w].seen
  BY DEF Shrinking
<1>4. \A w \in Optimizer : At(w, "delete")' /\ doing'[w].row = r => NoFile # doing'[w].seen
  BY DEF At, Tasks, Task
<1> QED
  BY <1>1, <1>2, <1>3, <1>4 DEF Sound

\* Cards where a row is saved: it has that of the form, or none.
LEMMA CardsSaved ==
  ASSUME RowTypes, Cards, Given, NEW q \in Row, NEW c, editing' \subseteq editing,
         card' = [m \in Movie |-> IF m = q THEN c ELSE card[m]],
         q \in Movie => c = NoFile \/ c \in CardsOf(q)
  PROVE  Cards'
<1>1. \A m \in Movie : \A b \in CardsOf(m)' : b \in CardsOf(m) \/ b = NoFile
  BY DEF CardsOf
<1> QED
  BY <1>1, CardsKept DEF Card

\* A row is saved or deleted, or fails to be: its picture is the file, tasks go on.
LEMMA SaveStep ==
  ASSUME PicIInv, RowTypes', doing' = doing, downloads' = downloads, Given,
         NEW q \in Row, NEW F, F = NoFile \/ (Stored(F) /\ Core(F) # {q}), Mine(q, F)',
         \A x \in Row \ {q} : picture'[x] = picture[x], editing' \subseteq editing,
         picture'[q] \in HeldBy(q) \cup {NoFile, F},
         \/ deleted' \subseteq deleted \cup Replaced(q, picture'[q])
         \/ deleted' \subseteq deleted \cup Replaced(q, NoFile),
         \A x \in Row : there[x] = "gone" => there'[x] = "gone"
  PROVE  /\ Tasks' /\ FileTypes' /\ Owned' /\ FirstDownload' /\ NoFile \notin deleted'
         /\ \A x \in Row \ {q} : x \notin reused /\ Sound(x) => Sound(x)'
         /\ \A x \in Row \ {q} : Latest(x) /\ chosen'[x] = chosen[x] => Latest(x)'
<1> USE DEF PicIInv
<1>1. Tasks'
  BY TasksSame
<1>2. \A v \in Optimizer : Fetches(v) /\ \A x : Advances(v, x)
  BY SameTasks
<1>3. \A x \in Row : picture[x] \in HeldBy(x)
  BY DEF HeldBy
<1>4. deleted' \subseteq deleted \cup ({picture[q]} \ {NoFile})
  BY ReplacedFiles
<1>5. NewFile(q, F)
  <2>1. \A x \in Row : HeldBy(x)' \subseteq HeldBy(x) \cup {picture'[x]}
    BY <1>2, HeldFrame
  <2>2. \A x \in Row : HeldBy(x)' \subseteq HeldBy(x) \cup {NoFile} \cup (IF x = q THEN {F} ELSE {})
    BY <1>3, <2>1
  <2>3. \A f \in deleted' : f \in deleted \/ \E x \in Row : f \in HeldBy(x)
    BY <1>3, <1>4
  <2> QED
    BY <2>2, <2>3 DEF NewFile
<1>6. NoFile \notin deleted'
  BY <1>4, NoFileFacts DEF FileTypes
<1>7. FileTypes'
  BY <1>5, <1>6, NoFileFacts, FilesKept
<1>8. Owned'
  BY <1>5, OwnedKept
<1>9. FirstDownload'
  BY <1>5, NoFileFacts, DownloadKept
<1>10. ASSUME NEW x \in Row \ {q}, x \notin reused, Sound(x) PROVE Sound(x)'
  <2>1. \A f \in deleted' : f \in deleted \/ \E y \in Row \ {x} : f \in HeldBy(y)
    BY <1>3, <1>4
  <2> QED
    BY <1>1, <1>2, <1>6, <1>10, <2>1, SoundKept
<1>11. ASSUME NEW x \in Row \ {q}, Latest(x), chosen'[x] = chosen[x] PROVE Latest(x)'
  <2>1. there'[x] = "yes" => there[x] \in {"no", "yes"}
    BY DEF RowTypes
  <2> QED
    BY <1>2, <1>11, <2>1, LatestKept
<1> QED
  BY <1>1, <1>6, <1>7, <1>8, <1>9, <1>10, <1>11

\* Upload: the new file is of a picture no file shows yet, or its rows are counted out.
LEMMA UploadStep ==
  ASSUME PicIInv, NEW e \in editing, NEW p \in Picture, NEW form \in {"raw", "webp"}, Upload(e, p, form)
  PROVE  PicIInv'
<1> USE DEF PicIInv
<1>1. PICK q, F : q = e.row /\ F = [of |-> {p}, form |-> form]
  OBVIOUS
<1>2. F.of = {p} /\ F.form = form /\ F # NoFile /\ F # Default
  BY <1>1 DEF NoFile, Default
<1>3. /\ deleted' = (deleted \cup Replaced(q, F)) \ {F}
      /\ editing' = editing \ {e} /\ there[q] = "yes"
      /\ picture' = [picture EXCEPT ![q] = F]
      /\ card' = [m \in Movie |-> IF m = q THEN e.card ELSE card[m]]
      /\ UNCHANGED <<there, downloads, doing, spoilt, fetched>>
      /\ chosen' = [chosen EXCEPT ![q] = {p}]
      /\ given' = [given EXCEPT ![q] = @ \cup {p}]
      /\ rushed' = IF Busy(q) THEN rushed \cup {q} ELSE rushed
      /\ reused' = IF Namesakes(p) = {} THEN reused ELSE reused \cup Namesakes(p) \cup {q}
  BY <1>1 DEF Upload, SaveRow
<1>4. q \in Row /\ e.card.form \in {"card", "none"} /\ p \notin Row /\ p \notin Optimizer
  BY <1>1 DEF RowTypes
<1>5. RowTypes'
  <2>1. /\ picture' = [r \in Row |-> picture'[r]] /\ card' = [m \in Movie |-> card'[m]]
        /\ \A r \in Row : there'[r] # "yes" => picture'[r] = NoFile
    BY <1>3, <1>4 DEF RowTypes
  <2>2. \A m \in Movie : card'[m].form \in {"card", "none"}
    BY <1>3, <1>4 DEF RowTypes
  <2>3. /\ chosen' \in [Row -> SUBSET Picture] /\ given' \in [Row -> SUBSET Picture]
        /\ \A r \in Row : there'[r] = "no" => chosen'[r] = {}
    BY <1>3, <1>4 DEF RowTypes
  <2>4. \A r \in Row : chosen'[r] \subseteq given'[r]
    BY <1>3, <1>4 DEF RowTypes
  <2>5. there' \in [Row -> {"no", "yes", "gone"}]
    BY <1>3 DEF RowTypes
  <2>6. \A x \in editing' : x.row \in Row /\ x.card.form \in {"card", "none"}
    BY <1>3 DEF RowTypes
  <2> QED
    BY <2>1, <2>2, <2>3, <2>4, <2>5, <2>6 DEF RowTypes
<1>6. picture'[q] = F /\ \A x \in Row \ {q} : picture'[x] = picture[x]
  BY <1>3, <1>4 DEF RowTypes
<1>7. Stored(F) /\ Core(F) = {p}
  <2>1. F = [of |-> F.of, form |-> F.form]
    BY <1>1
  <2> QED
    BY <1>2, <1>4, <2>1 DEF Stored, Core
<1>8. Given
  <2>1. \A x \in Row : given'[x] = IF x = q THEN given[x] \cup {p} ELSE given[x]
    BY <1>3, <1>4 DEF RowTypes
  <2>2. reused \subseteq reused'
    BY <1>3
  <2>3. ASSUME NEW x \in Row, NEW y \in Row, NEW g \in given'[x], g \in given'[y], x # y
        PROVE  x \in reused'
    <3>1. CASE g \in given[x] /\ g \in given[y]
      BY <2>2, <2>3, <3>1 DEF Owned, GivenOnce
    <3>2. CASE g \notin given[x] \/ g \notin given[y]
      <4>1. g = p /\ (x = q \/ y = q)
        BY <2>1, <2>3, <3>2
      <4>2. CASE x = q
        <5>1. y \in Namesakes(p)
          BY <2>1, <2>3, <4>1, <4>2 DEF Namesakes
        <5> QED
          BY <1>3, <4>2, <5>1
      <4>3. CASE y = q
        <5>1. x \in Namesakes(p)
          BY <2>1, <2>3, <4>1, <4>3 DEF Namesakes
        <5> QED
          BY <1>3, <5>1
      <4> QED
        BY <4>1, <4>2, <4>3
    <3> QED
      BY <3>1, <3>2
  <2>4. GivenOnce'
    BY <2>3 DEF GivenOnce
  <2> QED
    BY <1>3, <2>1, <2>4 DEF Given
<1>9. /\ Tasks' /\ FileTypes' /\ Owned' /\ FirstDownload' /\ NoFile \notin deleted'
      /\ \A x \in Row \ {q} : x \notin reused /\ Sound(x) => Sound(x)'
      /\ \A x \in Row \ {q} : Latest(x) /\ chosen'[x] = chosen[x] => Latest(x)'
  <2>1. Mine(q, F)'
    <3>1. p \in given'[q]
      BY <1>3, <1>4 DEF RowTypes
    <3> QED
      BY <1>7, <3>1 DEF Mine
  <2>2. Core(F) # {q} /\ \A x \in Row : there[x] = "gone" => there'[x] = "gone"
    BY <1>3, <1>4, <1>7
  <2>3. deleted' \subseteq deleted \cup Replaced(q, picture'[q])
    BY <1>3, <1>6
  <2>4. picture'[q] \in HeldBy(q) \cup {NoFile, F} /\ editing' \subseteq editing
    BY <1>3, <1>6
  <2> QED
    BY <1>3, <1>4, <1>5, <1>6, <1>7, <1>8, <2>1, <2>2, <2>3, <2>4, SaveStep
<1>10. ASSUME Sound(q), q \notin reused' PROVE Sound(q)'
  <2>0. /\ \A x \in Row : \A g \in HeldBy(x) : p \notin g.of
        /\ \A g \in deleted : p \notin g.of
    BY <1>3, <1>10, FreshPicture
  <2>1. \A f \in deleted' : p \notin f.of
    BY <1>3, <1>4, <2>0, ReplacedFiles DEF HeldBy
  <2>2. \A w \in Optimizer : ShrunkOf(q, F, w) \notin deleted'
    BY <1>2, <1>4, <2>1, ShrunkCore
  <2>3. ASSUME NEW w \in Optimizer, Shrinking(w, q)
        PROVE  /\ ShrunkOf(q, doing[w].seen, w) \notin deleted'
               /\ q \in User => ShrunkOf(q, doing[w].seen, w) # F
    <3>1. /\ ShrunkOf(q, doing[w].seen, w) \notin deleted
          /\ q \in User => ShrunkOf(q, doing[w].seen, w) # picture[q]
      BY <1>10, <2>3 DEF Sound
    <3>2. q \in User => w \in ShrunkOf(q, doing[w].seen, w).of /\ w # p
      BY <1>4, ShrunkCore
    <3> QED
      BY <1>2, <1>3, <3>1, <3>2, ReplacedFiles
  <2>4. \A w \in Optimizer : Shrinking(w, q)' => Shrinking(w, q) /\ doing'[w] = doing[w]
    BY <1>3 DEF Shrinking
  <2>5. ASSUME NEW w \in Optimizer, At(w, "delete")', doing'[w].row = q PROVE F # doing'[w].seen
    <3>1. doing[w].seen \in HeldBy(q) /\ doing'[w] = doing[w]
      BY <1>3, <2>5 DEF At, HeldBy
    <3> QED
      BY <1>2, <1>4, <2>0, <3>1
  <2>6. F \notin deleted' \ {Default}
    BY <1>2, <2>1
  <2> QED
    BY <1>6, <2>2, <2>3, <2>4, <2>5, <2>6 DEF Sound
<1>11. FirstShrunk'
  BY <1>3, <1>9, <1>10 DEF FirstShrunk
<1>12. ASSUME q \notin rushed' PROVE Latest(q)'
  <2>1. chosen'[q] = {p} /\ F.of \cap Picture = {p}
    BY <1>2, <1>3, <1>4 DEF RowTypes
  <2>2. \A w \in Optimizer : doing[w].job # "none" => doing[w].row # q
    BY <1>3, <1>12 DEF Busy
  <2>3. ASSUME NEW w \in Optimizer
        PROVE  /\ ~(doing'[w].job = "shrink" /\ doing'[w].row = q)
               /\ Fetching(w)' => doing'[w].row # q
    BY <1>3, <2>2 DEF Fetching
  <2> QED
    BY <1>6, <2>1, <2>3 DEF Latest
<1>13. OnLatest'
  <2>1. ASSUME NEW x \in Row \ (rushed' \cup spoilt'), x # q PROVE Latest(x)'
    <3>1. chosen'[x] = chosen[x] /\ x \notin rushed /\ x \notin spoilt
      BY <1>3, <2>1 DEF RowTypes
    <3> QED
      BY <1>9, <2>1, <3>1 DEF OnLatest
  <2> QED
    BY <1>12, <2>1 DEF OnLatest
<1>14. Cards'
  <2>1. e.card \in CardsOf(q) /\ editing' \subseteq editing
    BY <1>1, <1>3 DEF CardsOf
  <2> QED
    BY <1>3, <1>4, <1>8, <2>1, CardsSaved
<1> QED
  BY <1>5, <1>9, <1>11, <1>13, <1>14

\* FailUpload: no row changes; whose file was written over is counted out.
LEMMA FailUploadStep ==
  ASSUME PicIInv, NEW e \in editing, NEW p, NEW form, FailUpload(e, p, form) PROVE PicIInv'
<1> USE DEF PicIInv
<1>1. /\ UNCHANGED <<there, picture, card, downloads, doing, chosen, given, fetched, rushed, spoilt>>
      /\ editing' \subseteq editing /\ deleted' \subseteq deleted /\ reused \subseteq reused'
  BY DEF FailUpload
<1>2. RowTypes'
  BY <1>1 DEF RowTypes
<1>3. Tasks'
  BY <1>1, TasksSame
<1>4. Quiet
  BY <1>1, SameTasks DEF Quiet
<1>5. Cards'
  BY <1>1, CardsSame DEF Owned
<1> QED
  BY <1>2, <1>3, <1>4, <1>5, QuietStep

\* Keep: the row gets the picture that was loaded, or none.
LEMMA KeepStep ==
  ASSUME PicIInv, NEW e \in editing, NEW file \in {e.picture, NoFile}, Keep(e, file)
  PROVE  PicIInv'
<1> USE DEF PicIInv
<1>1. PICK q : q = e.row
  OBVIOUS
<1>2. /\ deleted' = deleted \cup Replaced(q, file)
      /\ editing' = editing \ {e} /\ there[q] = "yes"
      /\ picture' = [picture EXCEPT ![q] = file]
      /\ card' = [m \in Movie |-> IF m = q THEN e.card ELSE card[m]]
      /\ UNCHANGED <<there, downloads, doing, given, fetched, rushed, reused>>
      /\ spoilt' = IF file \notin {picture[q], NoFile} THEN spoilt \cup {q} ELSE spoilt
      /\ chosen' = IF file = NoFile THEN [chosen EXCEPT ![q] = {}] ELSE chosen
  BY <1>1 DEF Keep, SaveRow
<1>3. q \in Row /\ e.card.form \in {"card", "none"}
  BY <1>1 DEF RowTypes
<1>4. RowTypes'
  BY <1>2, <1>3 DEF RowTypes
<1>5. /\ picture'[q] = file /\ file \in HeldBy(q) \cup {NoFile}
      /\ \A x \in Row \ {q} : picture'[x] = picture[x]
  BY <1>1, <1>2, <1>3 DEF RowTypes, HeldBy
<1>6. Given /\ editing' \subseteq editing
  BY <1>2, GivenSame DEF Owned
<1>7. /\ Tasks' /\ FileTypes' /\ Owned' /\ FirstDownload' /\ NoFile \notin deleted'
      /\ \A x \in Row \ {q} : x \notin reused /\ Sound(x) => Sound(x)'
      /\ \A x \in Row \ {q} : Latest(x) /\ chosen'[x] = chosen[x] => Latest(x)'
  <2>1. PICK F : F = NoFile
    OBVIOUS
  <2>2. Mine(q, F)'
    BY <2>1 DEF Mine
  <2>3. \A x \in Row : there[x] = "gone" => there'[x] = "gone"
    BY <1>2
  <2>4. picture'[q] \in HeldBy(q) \cup {NoFile, F} /\ deleted' \subseteq deleted \cup Replaced(q, picture'[q])
    BY <1>2, <1>5
  <2> QED
    BY <1>2, <1>3, <1>4, <1>5, <1>6, <2>1, <2>2, <2>3, <2>4, SaveStep
<1>8. ASSUME q \notin spoilt', q \notin reused, Sound(q) PROVE Sound(q)'
  <2>1. CASE file = picture[q]
    <3>1. deleted' = deleted
      BY <1>2, <2>1, ReplacedFiles
    <3> QED
      BY <1>2, <1>3, <1>5, <1>7, <1>8, <2>1, <3>1, SameTasks, SoundKept
  <2>2. CASE file = NoFile
    BY <1>2, <1>3, <1>5, <1>7, <1>8, <2>2, SoundCleared
  <2> QED
    BY <1>2, <1>8, <2>1, <2>2
<1>9. FirstShrunk'
  BY <1>2, <1>7, <1>8 DEF FirstShrunk
<1>10. ASSUME q \notin spoilt', Latest(q) PROVE Latest(q)'
  <2>1. CASE file = NoFile
    <3>1. chosen'[q] = {}
      BY <1>2, <1>3, <2>1 DEF RowTypes
    <3> QED
      BY <3>1 DEF Latest
  <2>2. CASE file = picture[q] /\ file # NoFile
    <3>1. there'[q] = "yes" => there[q] \in {"no", "yes"}
      BY <1>2
    <3> QED
      BY <1>2, <1>3, <1>5, <1>10, <2>2, <3>1, SameTasks, LatestKept
  <2> QED
    BY <1>2, <1>10, <2>1, <2>2
<1>11. OnLatest'
  <2>1. \A x \in Row \ {q} : chosen'[x] = chosen[x]
    BY <1>2 DEF RowTypes
  <2> QED
    BY <1>2, <1>7, <1>10, <2>1 DEF OnLatest
<1>12. Cards'
  <2>1. e.card \in CardsOf(q)
    BY <1>1 DEF CardsOf
  <2> QED
    BY <1>2, <1>3, <1>6, <2>1, CardsSaved
<1> QED
  BY <1>4, <1>7, <1>9, <1>11, <1>12

\* Fail: rolled back, the row keeps its picture; the file may be gone.
LEMMA FailStep ==
  ASSUME PicIInv, NEW e \in editing, Fail(e) PROVE PicIInv'
<1> USE DEF PicIInv
<1>1. PICK q : q = e.row
  OBVIOUS
<1>2. PICK taken : taken \in {{}, Replaced(q, NoFile)} /\ deleted' = deleted \cup taken
                  /\ spoilt' = IF taken = {} THEN spoilt ELSE spoilt \cup {q}
  BY <1>1 DEF Fail
<1>3. /\ editing' \subseteq editing
      /\ UNCHANGED <<there, picture, card, downloads, doing, given, chosen, fetched, rushed, reused>>
  BY DEF Fail
<1>4. q \in Row
  BY <1>1 DEF RowTypes
<1>5. RowTypes'
  BY <1>3 DEF RowTypes
<1>6. Given
  BY <1>3, GivenSame DEF Owned
<1>7. /\ Tasks' /\ FileTypes' /\ Owned' /\ FirstDownload' /\ NoFile \notin deleted'
      /\ \A x \in Row \ {q} : x \notin reused /\ Sound(x) => Sound(x)'
      /\ \A x \in Row \ {q} : Latest(x) /\ chosen'[x] = chosen[x] => Latest(x)'
  <2>1. PICK F : F = NoFile
    OBVIOUS
  <2>2. Mine(q, F)'
    BY <2>1 DEF Mine
  <2>3. \A x \in Row : there[x] = "gone" => there'[x] = "gone"
    BY <1>3
  <2>4. picture'[q] \in HeldBy(q) /\ \A x \in Row \ {q} : picture'[x] = picture[x]
    BY <1>3, <1>4 DEF HeldBy
  <2>5. deleted' \subseteq deleted \cup Replaced(q, NoFile)
    BY <1>2
  <2> QED
    BY <1>3, <1>4, <1>5, <1>6, <2>1, <2>2, <2>3, <2>4, <2>5, SaveStep
<1>8. ASSUME q \notin spoilt', q \notin reused, Sound(q) PROVE Sound(q)'
  <2>1. deleted' = deleted
    BY <1>2, <1>8
  <2> QED
    BY <1>3, <1>4, <1>7, <1>8, <2>1, SameTasks, SoundKept
<1>9. FirstShrunk'
  BY <1>2, <1>3, <1>7, <1>8 DEF FirstShrunk
<1>10. ASSUME Latest(q) PROVE Latest(q)'
  <2>1. there'[q] = "yes" => there[q] \in {"no", "yes"}
    BY <1>3
  <2> QED
    BY <1>3, <1>4, <1>10, <2>1, SameTasks, LatestKept
<1>11. OnLatest'
  BY <1>2, <1>3, <1>7, <1>10 DEF OnLatest
<1>12. Cards'
  BY <1>3, CardsSame DEF Owned
<1> QED
  BY <1>5, <1>7, <1>9, <1>11, <1>12

\* Delete: the row and its picture go.
LEMMA DeleteStep ==
  ASSUME PicIInv, NEW q \in Row, Delete(q) PROVE PicIInv'
<1> USE DEF PicIInv
<1>1. /\ there[q] = "yes" /\ there' = [there EXCEPT ![q] = "gone"]
      /\ picture' = [picture EXCEPT ![q] = NoFile]
      /\ deleted' = deleted \cup Replaced(q, NoFile)
      /\ card' = [m \in Movie |-> IF m = q THEN NoFile ELSE card[m]]
      /\ UNCHANGED <<downloads, doing, editing, given, chosen, fetched, rushed, spoilt, reused>>
  BY DEF Delete, past
<1>2. there'[q] = "gone" /\ picture'[q] = NoFile /\ \A x \in Row \ {q} : picture'[x] = picture[x]
  BY <1>1 DEF RowTypes
<1>3. RowTypes'
  BY <1>1, NoFileFacts DEF RowTypes
<1>4. Given
  BY <1>1, GivenSame DEF Owned
<1>5. /\ Tasks' /\ FileTypes' /\ Owned' /\ FirstDownload' /\ NoFile \notin deleted'
      /\ \A x \in Row \ {q} : x \notin reused /\ Sound(x) => Sound(x)'
      /\ \A x \in Row \ {q} : Latest(x) /\ chosen'[x] = chosen[x] => Latest(x)'
  <2>1. PICK F : F = NoFile
    OBVIOUS
  <2>2. Mine(q, F)'
    BY <2>1 DEF Mine
  <2>3. \A x \in Row : there[x] = "gone" => there'[x] = "gone"
    BY <1>1 DEF RowTypes
  <2>4. picture'[q] \in HeldBy(q) \cup {NoFile, F} /\ editing' \subseteq editing
    BY <1>1, <1>2
  <2>5. deleted' \subseteq deleted \cup Replaced(q, NoFile)
    BY <1>1
  <2> QED
    BY <1>1, <1>2, <1>3, <1>4, <2>1, <2>2, <2>3, <2>4, <2>5, SaveStep
<1>6. Sound(q) => Sound(q)'
  BY <1>1, <1>2, <1>5, SoundCleared
<1>7. FirstShrunk'
  BY <1>1, <1>5, <1>6 DEF FirstShrunk
<1>8. Latest(q)'
  BY <1>2 DEF Latest
<1>9. OnLatest'
  BY <1>1, <1>5, <1>8 DEF OnLatest
<1>10. Cards'
  <2>1. PICK c : c = NoFile
    OBVIOUS
  <2>2. editing' \subseteq editing /\ card' = [m \in Movie |-> IF m = q THEN c ELSE card[m]]
    BY <1>1, <2>1
  <2> QED
    BY <1>4, <2>1, <2>2, CardsSaved
<1> QED
  BY <1>3, <1>5, <1>7, <1>9, <1>10

\* StoreDownload: the file is the first under its row's name, or the row is counted out.
LEMMA StoreStep ==
  ASSUME PicIInv, NEW w \in Optimizer, StoreDownload(w) PROVE PicIInv'
<1> USE DEF PicIInv
<1>1. PICK r : r = doing[w].row
  OBVIOUS
<1>2. PICK F : F = [of |-> {r}, form |-> "raw"]
  OBVIOUS
<1>3. /\ doing[w].job = "download" /\ Fetching(w) /\ NextRow(w)
      /\ UNCHANGED <<there, card, downloads, editing, given, chosen, rushed, spoilt>>
  BY <1>1 DEF StoreDownload, Fetching
<1>4. r \in Row \ User
  BY <1>1, <1>3 DEF Tasks, Task, Asks
<1>5. PICK k : /\ doing' = [doing EXCEPT ![w] = k] /\ Task(k)
               /\ \/ k.job = "none"
                  \/ k.job = "download" /\ k.at = "look"
  BY <1>3, NextRowTask
<1>6. Tasks'
  <2>1. downloads' \subseteq downloads
    BY <1>3
  <2> QED
    BY <1>5, <2>1, TaskSet
<1>7. \A v \in Optimizer : Fetches(v) /\ \A x : Advances(v, x)
  <2>1. Follows(w, k)
    BY <1>5 DEF Follows
  <2> QED
    BY <1>5, <2>1, FollowsFrame
<1>8. ASSUME there[r] # "yes" PROVE PicIInv'
  <2>0. UNCHANGED <<picture, deleted, fetched, reused>>
    BY <1>1, <1>8 DEF StoreDownload
  <2>1. RowTypes'
    BY <1>3, <2>0 DEF RowTypes
  <2>2. Quiet
    BY <1>3, <1>7, <2>0 DEF Quiet
  <2>3. Cards'
    BY <1>3, <2>0, CardsSame DEF Owned
  <2> QED
    BY <1>6, <2>1, <2>2, <2>3, QuietStep
<1>9. ASSUME there[r] = "yes" PROVE PicIInv'
  <2>0. /\ picture' = [picture EXCEPT ![r] = F] /\ deleted' = deleted \ {F}
        /\ fetched' = fetched \cup {r}
        /\ reused' = IF r \in fetched THEN reused \cup {r} ELSE reused
    BY <1>1, <1>2, <1>9 DEF StoreDownload
  <2>1. picture'[r] = F /\ \A x \in Row \ {r} : picture'[x] = picture[x]
    BY <1>4, <2>0 DEF RowTypes
  <2>2. RowTypes'
    BY <1>3, <1>4, <1>9, <2>0, <2>1 DEF RowTypes
  <2>3. /\ F.of = {r} /\ F.form = "raw" /\ F # NoFile /\ F # Default /\ Core(F) = {r}
        /\ F = [of |-> F.of, form |-> F.form]
    BY <1>2, <1>4 DEF NoFile, Default, Core
  <2>4. Stored(F) /\ Mine(r, F)'
    <3>1. F.of \cap Optimizer = {}
      BY <1>4, <2>3
    <3> QED
      BY <2>3, <3>1 DEF Stored, Mine
  <2>5. Given
    BY <1>3, <2>0, GivenSame DEF Owned
  <2>6. NewFile(r, F)
    <3>1. \A x \in Row : HeldBy(x)' \subseteq HeldBy(x) \cup {picture'[x]}
      BY <1>3, <1>7, HeldFrame
    <3>2. \A x \in Row : picture[x] \in HeldBy(x)
      BY DEF HeldBy
    <3>3. \A x \in Row : HeldBy(x)' \subseteq HeldBy(x) \cup {NoFile} \cup (IF x = r THEN {F} ELSE {})
      BY <2>1, <3>1, <3>2
    <3> QED
      BY <2>0, <2>5, <3>3 DEF NewFile
  <2>7. NoFile \notin deleted'
    BY <2>0, NoFileFacts DEF FileTypes
  <2>8. r \notin reused' => \A f \in HeldBy(r) \cup deleted : Core(f) # {r}
    BY <1>4, <2>0 DEF FirstDownload
  <2>9. FileTypes' /\ Owned' /\ FirstDownload'
    BY <1>4, <2>0, <2>4, <2>6, <2>7, FilesKept, OwnedKept, DownloadKept
  <2>10. doing'[w].job # "shrink" /\ \A v \in Optimizer \ {w} : doing'[v] = doing[v]
    BY <1>5 DEF Tasks
  <2>11. ASSUME Sound(r), r \notin reused' PROVE Sound(r)'
    <3>1. ASSUME NEW v \in Optimizer PROVE ShrunkOf(r, F, v) \notin deleted'
      <4>1. Core(ShrunkOf(r, F, v)) = {r}
        BY <1>4, <2>3, ShrunkCore
      <4> QED
        BY <2>0, <2>8, <2>11, <4>1
    <3>2. ASSUME NEW v \in Optimizer, Shrinking(v, r)'
          PROVE  ShrunkOf(r, doing'[v].seen, v) \notin deleted' /\ ShrunkOf(r, doing'[v].seen, v) # F
      <4>1. doing'[v] = doing[v] /\ Shrinking(v, r)
        BY <2>10, <3>2 DEF Shrinking
      <4>2. ShrunkOf(r, doing[v].seen, v).form = "webp"
        BY <1>4, ShrunkCore
      <4> QED
        BY <2>0, <2>3, <2>11, <4>1, <4>2 DEF Sound
    <3>3. ASSUME NEW v \in Optimizer, At(v, "delete")', doing'[v].row = r PROVE F # doing'[v].seen
      <4>1. doing'[v] = doing[v] /\ doing[v].seen \in HeldBy(r)
        BY <2>10, <3>3 DEF At, HeldBy
      <4> QED
        BY <2>3, <2>8, <2>11, <4>1
    <3>4. F \notin deleted'
      BY <2>0
    <3> QED
      BY <2>1, <3>1, <3>2, <3>3, <3>4 DEF Sound
  <2>12. ASSUME NEW x \in Row \ {r}, x \notin reused, Sound(x) PROVE Sound(x)'
    BY <1>6, <1>7, <2>0, <2>1, <2>7, <2>12, SoundKept
  <2>13. FirstShrunk'
    BY <1>3, <2>0, <2>11, <2>12 DEF FirstShrunk
  <2>14. ASSUME Latest(r) PROVE Latest(r)'
    BY <1>1, <1>3, <2>14 DEF Latest
  <2>15. ASSUME NEW x \in Row \ {r}, Latest(x) PROVE Latest(x)'
    <3>1. there'[x] = "yes" => there[x] \in {"no", "yes"}
      BY <1>3
    <3> QED
      BY <1>3, <1>7, <2>1, <2>15, <3>1, LatestKept
  <2>16. OnLatest'
    BY <1>3, <2>14, <2>15 DEF OnLatest
  <2>17. Cards'
    <3>1. \A x \in Movie : CardsOf(x)' = CardsOf(x)
      BY <1>3 DEF CardsOf
    <3> QED
      BY <2>5, <3>1, CardsKept
  <2> QED
    BY <1>6, <2>2, <2>9, <2>13, <2>16, <2>17
<1> QED
  BY <1>8, <1>9

\* F is f of row r, as worker w has shrunk it.
ShrunkFile(w, r, f, F) ==
    /\ r \in Row /\ f \in HeldBy(r) /\ f.form = "raw" /\ f # NoFile /\ f.of \cap Optimizer = {}
    /\ F = Shrunk(w) /\ F.form = "webp" /\ F # NoFile /\ F # Default /\ Stored(F) /\ Mine(r, F)
    /\ Core(F) = {r} => r \in User \cup fetched
    /\ r \in User => \A v \in Optimizer \ {w} : v \notin F.of
    /\ F.of \cap Picture = f.of \cap Picture

\* What a task stores, when it has shrunk the picture it has seen.
LEMMA ShrunkNew ==
  ASSUME PicIInv, NEW w \in Optimizer, doing[w].job = "shrink", doing[w].at \in {"update", "delete"}
  PROVE  ShrunkFile(w, doing[w].row, doing[w].seen, ShrunkOf(doing[w].row, doing[w].seen, w))
<1>0. PICK r, f, F : r = doing[w].row /\ f = doing[w].seen /\ F = ShrunkOf(r, f, w)
  OBVIOUS
<1> USE DEF PicIInv
<1>1. r \in Row /\ f \in HeldBy(r) /\ f.form = "raw" /\ f # NoFile
  BY <1>0 DEF Tasks, Task, HeldBy
<1>2. f.of \cap Optimizer = {} /\ Mine(r, f)
  BY <1>1 DEF FileTypes, Stored, Owned
<1>3. F = Shrunk(w) /\ F = [of |-> F.of, form |-> F.form]
  BY <1>0 DEF Shrunk, ShrunkOf
<1>4. /\ F.form = "webp" /\ F # NoFile
      /\ F.of = f.of \cup (IF r \in User THEN {w} ELSE {}) \cup (IF f = Default THEN {r} ELSE {})
      /\ f # Default => Core(F) = Core(f)
      /\ F.of \cap Picture = f.of \cap Picture
  BY <1>0, <1>1, ShrunkCore
<1>5. F # Default /\ Stored(F)
  BY <1>3, <1>4 DEF Default, Stored
<1>6. Mine(r, F)
  BY <1>0, <1>1, <1>2, ShrunkMine
<1>7. ASSUME Core(F) = {r}, r \notin User PROVE r \in fetched
  <2>1. f # Default
    <3>1. Core(Default) = {} /\ Default.of = {}
      BY DEF Default, Core
    <3>2. f = Default => FALSE
      BY <1>1, <1>2, <1>7, <3>1 DEF Mine
    <3> QED
      BY <3>2
  <2> QED
    BY <1>1, <1>4, <1>7, <2>1 DEF FirstDownload
<1>8. r \in User => \A v \in Optimizer \ {w} : v \notin F.of
  BY <1>1, <1>2, <1>4
<1>9. ShrunkFile(w, r, f, F)
  BY <1>1, <1>2, <1>3, <1>4, <1>5, <1>6, <1>7, <1>8 DEF ShrunkFile
<1> QED
  BY <1>0, <1>9

\* UpdateRow: the row refers to the shrunk file, whatever it has referred to.
LEMMA UpdateStep ==
  ASSUME PicIInv, NEW w \in Optimizer, UpdateRow(w) PROVE PicIInv'
<1> USE DEF PicIInv
<1>1. PICK r, f, F : r = doing[w].row /\ f = doing[w].seen /\ F = ShrunkOf(r, f, w)
  OBVIOUS
<1>2. /\ doing[w].job = "shrink" /\ doing[w].at = "update" /\ Goto(w, "delete")
      /\ UNCHANGED <<there, card, deleted, downloads, editing, past>>
  BY DEF UpdateRow, At
<1>3. /\ r \in Row /\ f \in HeldBy(r) /\ f.form = "raw" /\ f # NoFile /\ f.of \cap Optimizer = {}
      /\ F = Shrunk(w) /\ F.form = "webp" /\ F # NoFile /\ F # Default /\ Stored(F) /\ Mine(r, F)
      /\ Core(F) = {r} => r \in User \cup fetched
      /\ r \in User => \A v \in Optimizer \ {w} : v \notin F.of
      /\ F.of \cap Picture = f.of \cap Picture
  <2>1. ShrunkFile(w, r, f, F)
    BY <1>1, <1>2, ShrunkNew
  <2> QED
    BY <2>1 DEF ShrunkFile
<1>4. picture' = IF there[r] = "yes" THEN [picture EXCEPT ![r] = F] ELSE picture
  BY <1>1, <1>3 DEF UpdateRow
<1>5. /\ \A x \in Row \ {r} : picture'[x] = picture[x]
      /\ there[r] = "yes" => picture'[r] = F
      /\ there[r] # "yes" => picture'[r] = NoFile /\ picture[r] = NoFile
  BY <1>3, <1>4 DEF RowTypes
<1>6. RowTypes'
  BY <1>2, <1>3, <1>4, <1>5 DEF RowTypes, past
<1>7. PICK k : /\ doing' = [doing EXCEPT ![w] = k] /\ Task(k)
               /\ k.job = "shrink" /\ k.row = r /\ k.seen = f /\ k.at = "delete"
  BY <1>1, <1>2, <1>3, GotoTask
<1>8. Tasks'
  <2>1. downloads' \subseteq downloads
    BY <1>2
  <2> QED
    BY <1>7, <2>1, TaskSet
<1>9. doing'[w] = k /\ \A v \in Optimizer \ {w} : doing'[v] = doing[v]
  BY <1>7 DEF Tasks
<1>10. \A v \in Optimizer : Fetches(v) /\ \A x \in Row \ {r} : Advances(v, x)
  BY <1>7, <1>9 DEF Fetches, Fetching, Advances
<1>11. NewFile(r, F)
  <2>1. \A x \in Row : picture[x] \in HeldBy(x)
    BY DEF HeldBy
  <2>2. \A x \in Row \ {r} : HeldBy(x)' \subseteq HeldBy(x)
    BY <1>2, <1>5, <1>10, <2>1, HeldFrame
  <2>3. ASSUME NEW g \in HeldBy(r)', g # picture'[r] PROVE g \in HeldBy(r)
    <3>1. ASSUME NEW e \in editing', e.row = r, g = e.picture PROVE g \in HeldBy(r)
      BY <1>2, <3>1 DEF HeldBy
    <3>2. ASSUME NEW v \in Optimizer, doing'[v].job = "shrink", doing'[v].row = r, g = doing'[v].seen
          PROVE  g \in HeldBy(r)
      BY <1>3, <1>7, <1>9, <3>2 DEF HeldBy
    <3> QED
      BY <2>3, <3>1, <3>2 DEF HeldBy
  <2>4. Given
    BY <1>2, GivenSame DEF Owned, past
  <2> QED
    BY <1>2, <1>5, <2>2, <2>3, <2>4 DEF NewFile
<1>12. NoFile \notin deleted'
  BY <1>2, NoFileFacts DEF FileTypes
<1>13. Mine(r, F)'
  BY <1>2, <1>3 DEF Mine, past
<1>14. FileTypes' /\ Owned'
  BY <1>3, <1>11, <1>12, <1>13, FilesKept, OwnedKept
<1>15. FirstDownload'
  BY <1>2, <1>3, <1>11, DownloadKept DEF past
<1>16. ASSUME Sound(r) PROVE Sound(r)'
  <2>1. /\ picture'[r].form # "raw" /\ picture'[r] \in {F, NoFile}
    BY <1>3, <1>5, NoFileFacts
  <2>2. ASSUME NEW v \in Optimizer, Shrinking(v, r)'
        PROVE  /\ ShrunkOf(r, doing'[v].seen, v) \notin deleted'
               /\ r \in User => ShrunkOf(r, doing'[v].seen, v) # picture'[r]
    <3>1. v # w /\ doing'[v] = doing[v] /\ Shrinking(v, r)
      BY <1>7, <1>9, <2>2 DEF Shrinking
    <3>2. ShrunkOf(r, doing[v].seen, v) # NoFile /\ (r \in User => v \in ShrunkOf(r, doing[v].seen, v).of)
      BY <1>3, ShrunkCore
    <3> QED
      BY <1>2, <1>3, <1>16, <2>1, <3>1, <3>2 DEF Sound
  <2>3. ASSUME NEW v \in Optimizer, At(v, "delete")', doing'[v].row = r
        PROVE  picture'[r] # doing'[v].seen
    <3>1. doing'[v].seen.form = "raw"
      BY <1>8, <2>3 DEF At, Tasks, Task
    <3> QED
      BY <2>1, <3>1
  <2>4. picture'[r] \notin deleted'
    <3>1. F \notin deleted
      BY <1>1, <1>2, <1>16 DEF Sound, Shrinking
    <3> QED
      BY <1>2, <1>12, <2>1, <3>1
  <2> QED
    BY <2>1, <2>2, <2>3, <2>4 DEF Sound
<1>17. ASSUME NEW x \in Row \ {r}, x \notin reused, Sound(x) PROVE Sound(x)'
  BY <1>2, <1>5, <1>8, <1>10, <1>12, <1>17, SoundKept
<1>18. FirstShrunk'
  BY <1>2, <1>16, <1>17 DEF FirstShrunk, past
<1>19. ASSUME Latest(r) PROVE Latest(r)'
  <2> SUFFICES ASSUME there[r] = "yes", chosen[r] # {} PROVE Latest(r)'
    BY <1>2 DEF Latest, past
  <2>1. F.of \cap Picture = chosen[r]
    BY <1>1, <1>2, <1>3, <1>19 DEF Latest
  <2>2. ASSUME NEW v \in Optimizer
        PROVE  /\ doing'[v].job = "shrink" /\ doing'[v].row = r => doing'[v].seen.of \cap Picture = chosen[r]
               /\ Fetching(v)' => doing'[v].row # r
    <3>1. CASE v = w
      BY <1>3, <1>7, <1>9, <2>1, <3>1 DEF Fetching
    <3>2. CASE v # w
      BY <1>9, <1>19, <3>2 DEF Fetching, Latest
    <3> QED
      BY <3>1, <3>2
  <2> QED
    BY <1>2, <1>5, <2>1, <2>2 DEF Latest, past
<1>20. ASSUME NEW x \in Row \ {r}, Latest(x) PROVE Latest(x)'
  <2>1. there'[x] = "yes" => there[x] \in {"no", "yes"}
    BY <1>2
  <2> QED
    BY <1>2, <1>5, <1>10, <1>20, <2>1, LatestKept DEF past
<1>21. OnLatest'
  BY <1>2, <1>19, <1>20 DEF OnLatest, past
<1>22. Cards'
  BY <1>2, CardsSame DEF Owned, past
<1> QED
  BY <1>6, <1>8, <1>14, <1>15, <1>18, <1>21, <1>22

\* DeleteOld: the original goes, to which its row refers no more.
LEMMA DeleteOldStep ==
  ASSUME PicIInv, NEW w \in Optimizer, DeleteOld(w) PROVE PicIInv'
<1>1. PICK r, f, F : r = doing[w].row /\ f = doing[w].seen /\ F = ShrunkOf(r, f, w)
  OBVIOUS
<1>2. /\ doing[w].job = "shrink" /\ doing[w].at = "delete" /\ deleted' = deleted \cup {f}
      /\ UNCHANGED <<there, picture, card, downloads, editing, past>>
  BY <1>1 DEF DeleteOld, At
<1>3. /\ r \in Row /\ f \in HeldBy(r) /\ f.form = "raw" /\ f # NoFile /\ f.of \cap Optimizer = {}
      /\ F = Shrunk(w) /\ F.form = "webp" /\ F # NoFile /\ F # Default /\ Stored(F) /\ Mine(r, F)
      /\ Core(F) = {r} => r \in User \cup fetched
      /\ r \in User => \A v \in Optimizer \ {w} : v \notin F.of
      /\ F.of \cap Picture = f.of \cap Picture
  <2>1. ShrunkFile(w, r, f, F)
    BY <1>1, <1>2, ShrunkNew
  <2> QED
    BY <2>1 DEF ShrunkFile
<1> USE DEF PicIInv
<1>4. RowTypes'
  BY <1>2 DEF RowTypes, past
<1>5. PICK k : /\ doing' = [doing EXCEPT ![w] = k] /\ Task(k)
               /\ k.job = "shrink" /\ k.row = r /\ k.seen = F /\ k.at = "card"
  <2>1. PICK j : j = doing[w]
    OBVIOUS
  <2>2. j = ShrinkJob(r, f, j.card, "delete")
    BY <1>1, <1>2, <2>1 DEF Tasks, Task
  <2>3. PICK i : i = [j EXCEPT !.at = "card"]
    OBVIOUS
  <2>4. i = ShrinkJob(r, f, j.card, "card")
    BY <2>2, <2>3, ShrinkAt
  <2>5. [i EXCEPT !.seen = F] = ShrinkJob(r, F, j.card, "card")
    BY <2>4, ShrinkSeen
  <2>6. [j EXCEPT !.at = "card", !.seen = F] = [i EXCEPT !.seen = F]
    BY <2>3
  <2>7. doing' = [doing EXCEPT ![w].at = "card", ![w].seen = F]
    BY <1>3 DEF DeleteOld
  <2>8. doing' = [doing EXCEPT ![w] = [j EXCEPT !.at = "card", !.seen = F]]
    BY <2>1, <2>7
  <2>9. doing' = [doing EXCEPT ![w] = ShrinkJob(r, F, j.card, "card")]
    BY <2>5, <2>6, <2>8
  <2>10. PICK h : h = ShrinkJob(r, F, j.card, "card")
    OBVIOUS
  <2>11. h.job = "shrink" /\ h.row = r /\ h.seen = F /\ h.at = "card" /\ h.card = j.card
    BY <2>10 DEF ShrinkJob
  <2>12. Task(h)
    BY <1>3, <2>10, <2>11 DEF Task
  <2> QED
    BY <2>9, <2>10, <2>11, <2>12
<1>6. Tasks'
  <2>1. downloads' \subseteq downloads
    BY <1>2
  <2> QED
    BY <1>5, <2>1, TaskSet
<1>7. doing'[w] = k /\ \A v \in Optimizer \ {w} : doing'[v] = doing[v]
  BY <1>5 DEF Tasks
<1>8. \A v \in Optimizer : Fetches(v) /\ \A x \in Row \ {r} : Advances(v, x)
  BY <1>5, <1>7 DEF Fetches, Fetching, Advances
<1>9. NewFile(r, F)
  <2>1. \A x \in Row : picture[x] \in HeldBy(x)
    BY DEF HeldBy
  <2>2. \A x \in Row \ {r} : HeldBy(x)' \subseteq HeldBy(x)
    BY <1>2, <1>8, <2>1, HeldFrame
  <2>3. ASSUME NEW g \in HeldBy(r)' PROVE g \in HeldBy(r) \cup {F}
    <3>1. ASSUME NEW e \in editing', e.row = r, g = e.picture PROVE g \in HeldBy(r)
      BY <1>2, <3>1 DEF HeldBy
    <3>2. ASSUME NEW v \in Optimizer, doing'[v].job = "shrink", doing'[v].row = r, g = doing'[v].seen
          PROVE  g \in HeldBy(r) \cup {F}
      BY <1>5, <1>7, <3>2 DEF HeldBy
    <3> QED
      BY <1>2, <2>3, <3>1, <3>2 DEF HeldBy
  <2>4. Given
    BY <1>2, GivenSame DEF Owned, past
  <2> QED
    BY <1>2, <1>3, <2>2, <2>3, <2>4 DEF NewFile
<1>10. NoFile \notin deleted'
  BY <1>2, <1>3, NoFileFacts DEF FileTypes
<1>11. Mine(r, F)'
  BY <1>2, <1>3 DEF Mine, past
<1>12. FileTypes' /\ Owned'
  BY <1>3, <1>9, <1>10, <1>11, FilesKept, OwnedKept
<1>13. FirstDownload'
  BY <1>2, <1>3, <1>9, DownloadKept DEF past
<1>14. ASSUME Sound(r) PROVE Sound(r)'
  <2>1. \A g : \A v \in Optimizer : ShrunkOf(r, g, v) # f
    BY <1>3, ShrunkCore
  <2>2. picture'[r].form = "raw" => \A v \in Optimizer : ShrunkOf(r, picture'[r], v) \notin deleted'
    BY <1>2, <1>14, <2>1 DEF Sound
  <2>3. ASSUME NEW v \in Optimizer, Shrinking(v, r)'
        PROVE  /\ ShrunkOf(r, doing'[v].seen, v) \notin deleted'
               /\ r \in User => ShrunkOf(r, doing'[v].seen, v) # picture'[r]
    <3>1. doing'[v] = doing[v] /\ Shrinking(v, r)
      BY <1>5, <1>7, <2>3 DEF Shrinking
    <3> QED
      BY <1>2, <1>14, <2>1, <3>1 DEF Sound
  <2>4. ASSUME NEW v \in Optimizer, At(v, "delete")', doing'[v].row = r
        PROVE  picture'[r] # doing'[v].seen
    <3>1. doing'[v] = doing[v]
      BY <1>5, <1>7, <2>4 DEF At
    <3> QED
      BY <1>2, <1>14, <2>4, <3>1 DEF Sound, At
  <2>5. picture'[r] \notin deleted' \ {Default}
    BY <1>1, <1>2, <1>14 DEF Sound, At
  <2> QED
    BY <2>2, <2>3, <2>4, <2>5 DEF Sound
<1>15. ASSUME NEW x \in Row \ {r}, x \notin reused, Sound(x) PROVE Sound(x)'
  <2>1. \A g \in deleted' : g \in deleted \/ \E y \in Row \ {x} : g \in HeldBy(y)
    BY <1>2, <1>3, <1>15
  <2> QED
    BY <1>2, <1>6, <1>8, <1>10, <1>15, <2>1, SoundKept
<1>16. FirstShrunk'
  BY <1>2, <1>14, <1>15 DEF FirstShrunk, past
<1>17. ASSUME Latest(r) PROVE Latest(r)'
  <2> SUFFICES ASSUME there[r] = "yes", chosen[r] # {} PROVE Latest(r)'
    BY <1>2 DEF Latest, past
  <2>1. F.of \cap Picture = chosen[r]
    BY <1>1, <1>2, <1>3, <1>17 DEF Latest
  <2>2. ASSUME NEW v \in Optimizer
        PROVE  /\ doing'[v].job = "shrink" /\ doing'[v].row = r => doing'[v].seen.of \cap Picture = chosen[r]
               /\ Fetching(v)' => doing'[v].row # r
    <3>1. CASE v = w
      BY <1>3, <1>5, <1>7, <2>1, <3>1 DEF Fetching
    <3>2. CASE v # w
      BY <1>7, <1>17, <3>2 DEF Fetching, Latest
    <3> QED
      BY <3>1, <3>2
  <2> QED
    BY <1>2, <1>17, <2>2 DEF Latest, past
<1>18. ASSUME NEW x \in Row \ {r}, Latest(x) PROVE Latest(x)'
  <2>1. there'[x] = "yes" => there[x] \in {"no", "yes"}
    BY <1>2
  <2> QED
    BY <1>2, <1>8, <1>18, <2>1, LatestKept DEF past
<1>19. OnLatest'
  BY <1>2, <1>17, <1>18 DEF OnLatest, past
<1>20. Cards'
  BY <1>2, CardsSame DEF Owned, past
<1> QED
  BY <1>4, <1>6, <1>12, <1>13, <1>16, <1>19, <1>20

-----------------------------------------------------------------------------
\* In the beginning there are no files but the shared avatar.
LEMMA PicturesStart == PicturesInit => PicIInv
<1> SUFFICES ASSUME PicturesInit PROVE PicIInv
  OBVIOUS
<1>1. /\ there = [r \in Row |-> IF r \in User THEN "yes" ELSE "no"]
      /\ picture = [r \in Row |-> IF r \in User THEN Default ELSE NoFile]
      /\ card = [m \in Movie |-> NoFile]
      /\ doing = [w \in Optimizer |-> Free]
      /\ chosen = [r \in Row |-> {}]
      /\ given = [r \in Row |-> {}]
      /\ deleted = {} /\ downloads = {} /\ editing = {}
  BY DEF PicturesInit
<1>2. /\ \A w \in Optimizer : doing[w] = Free /\ Free.job = "none" /\ Task(Free)
      /\ \A r \in Row : picture[r] \in {Default, NoFile} /\ (r \notin User => picture[r] = NoFile)
  BY <1>1, FreeTask
<1>3. \A r \in Row : HeldBy(r) \subseteq {picture[r]}
  BY <1>1, <1>2 DEF HeldBy
<1>4. /\ Stored(Default) /\ Core(Default) = {} /\ Default # NoFile
      /\ \A r \in User : Mine(r, Default)
  <2>1. Default.of = {} /\ Default.form = "raw" /\ Default = [of |-> Default.of, form |-> Default.form]
    BY DEF Default
  <2> QED
    BY <2>1, NoFileFacts DEF Stored, Core, Mine
<1>5. RowTypes
  <2>1. /\ there \in [Row -> {"no", "yes", "gone"}]
        /\ chosen \in [Row -> SUBSET Picture] /\ given \in [Row -> SUBSET Picture]
    BY <1>1
  <2>2. picture = [r \in Row |-> picture[r]] /\ card = [m \in Movie |-> card[m]]
    BY <1>1
  <2>3. \A m \in Movie : card[m].form \in {"card", "none"}
    BY <1>1, NoFileFacts
  <2>4. \A r \in Row : (there[r] # "yes" => picture[r] = NoFile) /\ chosen[r] = {} /\ given[r] = {}
    BY <1>1
  <2> QED
    BY <1>1, <2>1, <2>2, <2>3, <2>4 DEF RowTypes
<1>6. FileTypes
  BY <1>1, <1>2, <1>3, <1>4, NoFileFacts DEF FileTypes
<1>7. Tasks
  BY <1>1, <1>2 DEF Tasks
<1>8. Owned
  <2>1. \A r \in Row : \A f \in HeldBy(r) : Core(f) = {} /\ Mine(r, f)
    BY <1>2, <1>3, <1>4, NoFileFacts
  <2> QED
    BY <1>1, <2>1 DEF Owned, GivenOnce
<1>9. FirstDownload
  <2>1. \A r \in Row : \A f \in HeldBy(r) : Core(f) = {}
    BY <1>2, <1>3, <1>4, NoFileFacts
  <2> QED
    BY <1>1, <2>1 DEF FirstDownload
<1>10. FirstShrunk
  BY <1>1, <1>2 DEF FirstShrunk, Sound, Shrinking, At
<1>11. OnLatest
  BY <1>1 DEF OnLatest, Latest
<1>12. Cards
  BY <1>1 DEF Cards, CardsOf, Card
<1> QED
  BY <1>5, <1>6, <1>7, <1>8, <1>9, <1>10, <1>11, <1>12 DEF PicIInv

\* optimize_images queues tasks and changes nothing else.
LEMMA QuietBackfill ==
  ASSUME PicIInv, (\E r \in Row : optimize_images(r)) \/ UNCHANGED picturesVars PROVE PicIInv'
<1> USE DEF PicIInv
<1>1. UNCHANGED <<there, picture, card, deleted, downloads, doing, editing, past>>
  BY DEF optimize_images, picturesVars, past
<1>2. RowTypes'
  BY <1>1 DEF RowTypes, past
<1>3. Tasks'
  BY <1>1, TasksSame
<1>4. Quiet
  BY <1>1, SameTasks DEF Quiet, past
<1>5. Cards'
  BY <1>1, CardsSame DEF Owned, past
<1> QED
  BY <1>2, <1>3, <1>4, <1>5, QuietStep

\* Every step preserves the invariant.
LEMMA PicturesStep ==
  ASSUME PicIInv, [PicturesNext]_picturesVars PROVE PicIInv'
<1>1. ASSUME NEW e \in editing, NEW p \in Picture, NEW form \in {"raw", "webp"},
             Upload(e, p, form) \/ FailUpload(e, p, form)
      PROVE  PicIInv'
  BY <1>1, UploadStep, FailUploadStep
<1>2. ASSUME NEW e \in editing, NEW file \in {e.picture, NoFile}, Keep(e, file) PROVE PicIInv'
  BY <1>2, KeepStep
<1>3. ASSUME NEW e \in editing, Fail(e) PROVE PicIInv'
  BY <1>3, FailStep
<1>4. ASSUME NEW r \in Deletable, Delete(r) PROVE PicIInv'
  BY <1>4, DeleteStep
<1>5. ASSUME NEW r \in Backfilled, optimize_images(r) PROVE PicIInv'
  BY <1>5, QuietBackfill
<1>6. ASSUME NEW t \in Tab, NEW r \in Row, Load(t, r) PROVE PicIInv'
  BY <1>6, QuietLoad
<1>7. ASSUME NEW m \in Movie, tmdb_import_view(m) PROVE PicIInv'
  BY <1>7, QuietImport
<1>8. ASSUME NEW w \in Optimizer,
             \/ \E d \in downloads : StartDownload(w, d)
             \/ Look(w) \/ StoreDownload(w) \/ RetryDownload(w)
             \/ \E r \in Row : optimize_image_task(w, r)
             \/ Shrink(w) \/ UpdateRow(w) \/ DeleteOld(w)
             \/ MakeCard(w) \/ WriteCard(w) \/ Retry(w) \/ Die(w)
      PROVE  PicIInv'
  BY <1>8, QuietTask, StoreStep, QuietTake, QuietShrink, UpdateStep, DeleteOldStep
<1>9. CASE UNCHANGED picturesVars
  BY <1>9, QuietBackfill
<1> QED
  BY <1>1, <1>2, <1>3, <1>4, <1>5, <1>6, <1>7, <1>8, <1>9 DEF PicturesNext

\* The invariant, in every reachable state.
THEOREM PicturesInvariant == PicturesSpec => []PicIInv
  BY PicturesStart, PicturesStep, PTL DEF PicturesSpec

\* core/images.py, drama/tasks.py, users/signals.py: every row refers to a file that is in the
\* storage, but for the shared avatar, rows an outdated or rolled back save has spoilt and rows
\* with a name that was stored twice, in every reachable state.
THEOREM PicturesExistHolds == PicturesSpec => []PicturesExist
<1>1. PicIInv => PicturesExist
  <2> SUFFICES ASSUME PicIInv, NEW r \in Row \ (spoilt \cup reused)
               PROVE  /\ picture[r] \notin deleted \ {Default}
                      /\ r \in Movie => card_image(r) \notin deleted
    BY DEF PicturesExist
  <2> USE DEF PicIInv
  <2>1. picture[r] \notin deleted \ {Default}
    BY DEF FirstShrunk, Sound
  <2>2. ASSUME r \in Movie PROVE card_image(r) \notin deleted
    <3>1. CASE card[r] # NoFile
      <4>1. card[r].form \in {"card", "none"} /\ card_image(r) = card[r]
        BY <2>2, <3>1 DEF card_image, RowTypes
      <4> QED
        BY <4>1 DEF FileTypes
    <3>2. CASE card[r] = NoFile
      <4>1. Mine(r, picture[r]) /\ Core(Default) = {} /\ r \notin User
        BY <2>2 DEF Owned, HeldBy, Default, Core
      <4>2. picture[r] # Default
        BY <4>1, NoFileFacts DEF Mine, Default
      <4> QED
        BY <2>1, <3>2, <4>2 DEF card_image
    <3> QED
      BY <3>1, <3>2
  <2> QED
    BY <2>1, <2>2
<1> QED
  BY <1>1, PicturesInvariant, PTL

\* core/images.py, drama/services/tmdb.py, Movie.card_image: a row shows the picture uploaded
\* last for it, and a movie's card the only one it had, unless a task was busy with the row, a
\* save spoilt it or its name was stored twice, in every reachable state.
THEOREM LatestUploadShownHolds == PicturesSpec => []LatestUploadShown
<1>1. PicIInv => LatestUploadShown
  <2> SUFFICES ASSUME PicIInv, NEW r \in Row \ (rushed \cup spoilt \cup reused),
                      there[r] = "yes", chosen[r] # {}
               PROVE  /\ picture[r].of \cap Picture = chosen[r]
                      /\ r \in Movie \ fetched /\ given[r] = chosen[r] =>
                             card_image(r).of \cap Picture = chosen[r]
    BY DEF LatestUploadShown
  <2> USE DEF PicIInv
  <2>1. picture[r].of \cap Picture = chosen[r]
    BY DEF OnLatest, Latest
  <2>2. ASSUME r \in Movie \ fetched, given[r] = chosen[r]
        PROVE  card_image(r).of \cap Picture = chosen[r]
    <3>1. CASE card[r] = NoFile
      BY <2>1, <3>1 DEF card_image
    <3>2. CASE card[r] # NoFile
      <4>1. PICK p \in given[r] : card[r].of \cap Picture = {p}
        BY <2>2, <3>2 DEF Cards, CardsOf, Card
      <4>2. picture[r] \in HeldBy(r) /\ picture[r] # NoFile
        BY <2>1, NoFileFacts DEF HeldBy
      <4>3. PICK g \in given[r] : picture[r].of \cap Picture = {g}
        BY <2>2, <4>2, HeldCard
      <4> QED
        BY <2>1, <2>2, <3>2, <4>1, <4>3 DEF card_image
    <3> QED
      BY <3>1, <3>2
  <2> QED
    BY <2>1, <2>2
<1> QED
  BY <1>1, PicturesInvariant, PTL

-----------------------------------------------------------------------------
(***************************************************************************)
(* Watching: the next episode is queued                                    *)
(*                                                                         *)
(* After each finished episode the first that is not finished is started,  *)
(* or a request is about to start it: one that has completed an episode in *)
(* between, and has looked for the next not at all or found that one.      *)
(***************************************************************************)
Progress == {"none", "started", "done"}

\* The domains of the tables, and which episodes a request is about.
WatchShape ==
    /\ released \in [Series -> 0..MaxEpisode]
    /\ progress \in [User -> [Series -> [Episode -> Progress]]]
    /\ recent \in [User -> Seq(Series \X Episode)]
    /\ page = [t \in Tab |-> page[t]]
    /\ finishing \in [Tab -> 0..MaxEpisode]
    /\ following \in [Tab -> 0..MaxEpisode]
    /\ \A t \in Tab :
          /\ finishing[t] = 0 => following[t] = 0
          /\ page[t] # NoPage => page[t].movie \in Series /\ page[t].active \in 0..released[page[t].movie]
          /\ finishing[t] # 0 => page[t] # NoPage /\ finishing[t] <= released[page[t].movie]
          /\ following[t] # 0 => following[t] <= released[page[t].movie]

\* A request that will put the next episode after e, which is h, into the queue.
Queueing(u, m, e, h) ==
    \E t \in Tab :
       /\ Owner(t) = u /\ page[t].movie = m
       /\ e <= finishing[t] /\ finishing[t] < h /\ following[t] \in {0, h}

\* The first unfinished episode after e.
IsNext(u, m, e, h) ==
    /\ e < h /\ progress[u][m][e] = "done" /\ progress[u][m][h] # "done"
    /\ \A f \in Episode : e < f /\ f < h => progress[u][m][f] = "done"

NextComes(u, m) ==
    \A e, h \in 1..released[m] :
        IsNext(u, m, e, h) => progress[u][m][h] = "started" \/ Queueing(u, m, e, h)

QueuesFilled == \A u \in User, m \in Series : <<u, m>> \notin unqueued => NextComes(u, m)

Placed(s, r) == \E i \in 1..Len(s) : s[i] = r

\* Every started row has its place.
RowsPlaced ==
    \A u \in User, m \in Series, e \in Episode :
        progress[u][m][e] = "started" => Placed(recent[u], <<m, e>>)

\* A row of progress is written, and no other.
Writes(u, m, e, v) ==
    /\ progress'[u][m][e] = v
    /\ \A x \in User, n \in Series, f \in Episode :
          x # u \/ n # m \/ f # e => progress'[x][n][f] = progress[x][n][f]

WatchIInv == WatchShape /\ QueuesFilled /\ RowsPlaced

HIDE DEF PicturesAssumption, Row
USE SiteAssumption, WatchingAssumption DEF SiteAssumption, WatchingAssumption

\* A set of naturals has a least element.
LEMMA LeastExists ==
  ASSUME NEW S, S \subseteq Nat, S # {}
  PROVE  \E n \in S : \A k \in S : n <= k
<1>1. \E n \in S : \A k \in S : ~(<<k, n>> \in OpToRel(<, Nat))
  BY NatLessThanWellFounded, WFMin
<1>2. PICK n \in S : \A k \in S : ~(k < n)
  BY <1>1 DEF OpToRel
<1> QED
  BY <1>2

\* First: the least of the episodes.
LEMMA FirstIsLeast ==
  ASSUME NEW S, S \subseteq Nat, S # {}
  PROVE  First(S) \in S /\ \A k \in S : First(S) <= k
  BY LeastExists DEF First, Min

\* A row is taken out of its place, the others keep an order.
LEMMA WithoutKeeps ==
  ASSUME NEW S, NEW s \in Seq(S), NEW r
  PROVE  /\ Without(s, r) \in Seq(S)
         /\ \A x : x # r /\ Placed(s, x) => Placed(Without(s, r), x)
<1>1. DOMAIN s = 1..Len(s) /\ Len(s) \in Nat
  OBVIOUS
<1>2. CASE ~\E i \in DOMAIN s : s[i] = r
  BY <1>1, <1>2 DEF Without
<1>3. CASE \E i \in DOMAIN s : s[i] = r
  <2>1. PICK k : k = CHOOSE i \in DOMAIN s : s[i] = r
    OBVIOUS
  <2>2. k \in 1..Len(s) /\ s[k] = r
    BY <1>1, <1>3, <2>1
  <2>3. Without(s, r) = SubSeq(s, 1, k - 1) \o SubSeq(s, k + 1, Len(s))
    BY <1>3, <2>1 DEF Without, RemoveAt
  <2>4. PICK a : a = SubSeq(s, 1, k - 1)
    OBVIOUS
  <2>5. PICK b : b = SubSeq(s, k + 1, Len(s))
    OBVIOUS
  <2>6. a \in Seq(S) /\ Len(a) = k - 1 /\ \A i \in 1..(k - 1) : a[i] = s[i]
    BY <1>1, <2>2, <2>4, SubSeqProperties
  <2>7. b \in Seq(S) /\ Len(b) = Len(s) - k /\ \A i \in 1..(Len(s) - k) : b[i] = s[k + i]
    <3>1. k + 1 \in Int /\ Len(s) \in Int /\ \A i \in (k + 1)..Len(s) : s[i] \in S
      BY <1>1, <2>2
    <3>2. /\ b \in Seq(S) /\ Len(b) = IF k + 1 <= Len(s) THEN Len(s) - (k + 1) + 1 ELSE 0
          /\ \A i \in 1..(Len(s) - (k + 1) + 1) : b[i] = s[k + 1 + i - 1]
      BY <2>5, <3>1, SubSeqProperties
    <3>3. PICK n : n = Len(s)
      OBVIOUS
    <3>4. n \in Nat /\ k \in 1..n
      BY <1>1, <2>2, <3>3
    <3>5. Len(b) = IF k + 1 <= n THEN n - (k + 1) + 1 ELSE 0
      BY <3>2, <3>3
    <3>6. (IF k + 1 <= n THEN n - (k + 1) + 1 ELSE 0) = n - k
      BY <3>4
    <3>7. \A i \in 1..(n - k) : i \in 1..(n - (k + 1) + 1) /\ k + 1 + i - 1 = k + i
      BY <3>4
    <3>8. \A i \in 1..(n - k) : b[i] = s[k + i]
      BY <3>2, <3>3, <3>7
    <3> QED
      BY <3>2, <3>3, <3>5, <3>6, <3>8
  <2>8. PICK c : c = a \o b
    OBVIOUS
  <2>9. c \in Seq(S) /\ Len(c) = Len(s) - 1
    <3>1. c \in Seq(S) /\ Len(c) = Len(a) + Len(b)
      BY <2>6, <2>7, <2>8, ConcatProperties
    <3> QED
      BY <1>1, <2>2, <2>6, <2>7, <3>1
  <2>10. \A j \in 1..(Len(s) - 1) : c[j] = IF j <= k - 1 THEN a[j] ELSE b[j - (k - 1)]
    BY <1>1, <2>2, <2>6, <2>7, <2>8, ConcatProperties
  <2>11. ASSUME NEW i \in 1..Len(s), s[i] # r PROVE \E j \in 1..Len(c) : c[j] = s[i]
    <3>1. CASE i < k
      <4>1. i \in 1..(k - 1) /\ i \in 1..(Len(s) - 1)
        BY <1>1, <2>2, <3>1
      <4>2. c[i] = s[i]
        BY <1>1, <2>2, <2>6, <2>10, <4>1
      <4> QED
        BY <2>9, <4>1, <4>2
    <3>2. CASE i > k
      <4>1. /\ i - 1 \in 1..(Len(s) - 1) /\ ~(i - 1 <= k - 1)
            /\ i - k \in 1..(Len(s) - k) /\ i - 1 - (k - 1) = i - k /\ k + (i - k) = i
        BY <1>1, <2>2, <3>2
      <4>2. c[i - 1] = b[i - k]
        BY <2>10, <4>1
      <4>3. b[i - k] = s[i]
        BY <2>7, <4>1
      <4> QED
        BY <2>9, <4>1, <4>2, <4>3
    <3> QED
      BY <1>1, <2>2, <2>11, <3>1, <3>2
  <2>12. \A x : x # r /\ Placed(s, x) => Placed(c, x)
    BY <2>11 DEF Placed
  <2> QED
    BY <2>3, <2>4, <2>5, <2>8, <2>9, <2>12
<1> QED
  BY <1>2, <1>3

\* A row is put at the end.
LEMMA AppendKeeps ==
  ASSUME NEW S, NEW s \in Seq(S), NEW r \in S
  PROVE  /\ Append(s, r) \in Seq(S) /\ Placed(Append(s, r), r)
         /\ \A x : Placed(s, x) => Placed(Append(s, r), x)
<1>1. /\ Append(s, r) \in Seq(S) /\ Len(Append(s, r)) = Len(s) + 1
      /\ \A j \in 1..Len(s) : Append(s, r)[j] = s[j]
      /\ Append(s, r)[Len(s) + 1] = r /\ Len(s) \in Nat
  OBVIOUS
<1> QED
  BY <1>1 DEF Placed

\* Touched: a row goes to the end, the others keep an order.
LEMMA TouchedKeeps ==
  ASSUME NEW S, NEW s \in Seq(S), NEW r \in S
  PROVE  /\ Touched(s, r) \in Seq(S) /\ Placed(Touched(s, r), r)
         /\ \A x : Placed(s, x) => Placed(Touched(s, r), x)
<1>1. PICK w : w = Without(s, r)
  OBVIOUS
<1>2. w \in Seq(S) /\ \A x : x # r /\ Placed(s, x) => Placed(w, x)
  BY <1>1, WithoutKeeps
<1>3. /\ Append(w, r) \in Seq(S) /\ Placed(Append(w, r), r)
      /\ \A x : Placed(w, x) => Placed(Append(w, r), x)
  BY <1>2, AppendKeeps
<1>4. Touched(s, r) = Append(w, r)
  BY <1>1 DEF Touched
<1> QED
  BY <1>2, <1>3, <1>4

\* One row is written.
LEMMA RowWritten ==
  ASSUME WatchShape, NEW u \in User, NEW m \in Series, NEW e \in Episode, NEW v \in Progress,
         progress' = [progress EXCEPT ![u][m][e] = v]
  PROVE  progress' \in [User -> [Series -> [Episode -> Progress]]] /\ Writes(u, m, e, v)
  BY DEF WatchShape, Writes

\* A row that is written goes to the end, or goes away if it is not started.
LEMMA PlacedTouched ==
  ASSUME WatchShape, RowsPlaced, NEW u \in User, NEW m \in Series, NEW e \in Episode, NEW v,
         Writes(u, m, e, v),
         NEW s, recent' = [recent EXCEPT ![u] = s], s \in Seq(Series \X Episode),
         \A x : x # <<m, e>> /\ Placed(recent[u], x) => Placed(s, x),
         v = "started" => Placed(s, <<m, e>>)
  PROVE  recent' \in [User -> Seq(Series \X Episode)] /\ RowsPlaced'
<1>1. /\ recent' \in [User -> Seq(Series \X Episode)] /\ recent'[u] = s
      /\ \A x \in User \ {u} : recent'[x] = recent[x]
  BY DEF WatchShape
<1>2. ASSUME NEW x \in User, NEW n \in Series, NEW f \in Episode, progress'[x][n][f] = "started"
      PROVE  Placed(recent'[x], <<n, f>>)
  <2>1. CASE x = u /\ n = m /\ f = e
    <3>1. v = "started"
      BY <1>2, <2>1 DEF Writes
    <3> QED
      BY <1>1, <2>1, <3>1
  <2>2. CASE x # u \/ n # m \/ f # e
    <3>1. progress[x][n][f] = "started"
      BY <1>2, <2>2 DEF Writes
    <3>2. Placed(recent[x], <<n, f>>) /\ (x = u => <<n, f>> # <<m, e>>)
      BY <2>2, <3>1 DEF RowsPlaced
    <3> QED
      BY <1>1, <3>2
  <2> QED
    BY <2>1, <2>2
<1>3. RowsPlaced'
  BY <1>2 DEF RowsPlaced
<1> QED
  BY <1>1, <1>3

\* save_watch_progress and the API: a row that is not done any more is started.
LEMMA Reopened ==
  ASSUME WatchShape, NEW u \in User, NEW m \in Series, NEW e \in Episode,
         Writes(u, m, e, "started"), released' = released,
         page' = page, finishing' = finishing, following' = following,
         NEW x \in User, NEW n \in Series, NextComes(x, n)
  PROVE  NextComes(x, n)'
<1>1. released[n] \in 0..MaxEpisode
  BY DEF WatchShape
<1>2. ASSUME NEW d \in 1..released[n], NEW h \in 1..released[n], IsNext(x, n, d, h)'
      PROVE  progress'[x][n][h] = "started" \/ Queueing(x, n, d, h)'
  <2>1. d \in Episode /\ h \in Episode
    BY <1>1 DEF Episode
  <2>2. CASE x = u /\ n = m /\ h = e
    BY <2>2 DEF Writes
  <2>3. CASE ~(x = u /\ n = m /\ h = e)
    <3>1. IsNext(x, n, d, h)
      BY <1>2, <2>1, <2>3 DEF IsNext, Writes
    <3>2. progress[x][n][h] = "started" \/ Queueing(x, n, d, h)
      BY <3>1 DEF NextComes
    <3>3. Queueing(x, n, d, h) => Queueing(x, n, d, h)'
      BY DEF Queueing
    <3> QED
      BY <2>1, <2>3, <3>2, <3>3 DEF Writes
  <2> QED
    BY <2>2, <2>3
<1> QED
  BY <1>2 DEF NextComes

\* The same, for anyone whose rows and requests are as they were.
LEMMA OthersFilled ==
  ASSUME WatchShape, NEW u \in User, NEW m \in Series, NextComes(u, m), released'[m] = released[m],
         \A e \in Episode : progress'[u][m][e] = progress[u][m][e],
         \A t \in Tab : finishing[t] # 0 /\ Owner(t) = u /\ page[t].movie = m =>
             finishing'[t] = finishing[t] /\ following'[t] = following[t] /\ page'[t] = page[t]
  PROVE  NextComes(u, m)'
<1>1. released[m] \in 0..MaxEpisode
  BY DEF WatchShape
<1>2. ASSUME NEW e \in 1..released[m], NEW h \in 1..released[m], IsNext(u, m, e, h)'
      PROVE  progress'[u][m][h] = "started" \/ Queueing(u, m, e, h)'
  <2>1. e \in Episode /\ h \in Episode
    BY <1>1 DEF Episode
  <2>2. IsNext(u, m, e, h)
    BY <1>2, <2>1 DEF IsNext
  <2>3. Queueing(u, m, e, h) => Queueing(u, m, e, h)'
    <3> SUFFICES ASSUME NEW t \in Tab, Owner(t) = u, page[t].movie = m, e <= finishing[t],
                        finishing[t] < h, following[t] \in {0, h}
                 PROVE  Queueing(u, m, e, h)'
      BY DEF Queueing
    <3>1. finishing[t] # 0
      BY <1>1 DEF WatchShape
    <3> QED
      BY <3>1 DEF Queueing
  <2> QED
    BY <2>1, <2>2, <2>3 DEF NextComes
<1> QED
  BY <1>2 DEF NextComes

\* save_watch_progress: the request that completes an episode is about to queue the next,
\* of what was to come before it as of what comes after it.
LEMMA SaveStepWatch ==
  ASSUME WatchIInv, NEW t \in Tab, NEW completed \in BOOLEAN, save_watch_progress(t, completed)
  PROVE  WatchIInv'
<1> USE DEF WatchIInv
<1>1. PICK u, m, e, v : u = Owner(t) /\ m = page[t].movie /\ e = page[t].active
                          /\ v = IF completed THEN "done" ELSE "started"
  OBVIOUS
<1>2. /\ finishing[t] = 0 /\ following[t] = 0 /\ page[t] # NoPage /\ e # 0
      /\ progress' = [progress EXCEPT ![u][m][e] = v]
      /\ recent' = [recent EXCEPT ![u] = Touched(recent[u], <<m, e>>)]
      /\ finishing' = [finishing EXCEPT ![t] = IF completed THEN e ELSE 0]
      /\ UNCHANGED <<released, page, following, unqueued>>
  BY <1>1 DEF save_watch_progress, WatchShape
<1>3. u \in User /\ m \in Series /\ e \in 1..released[m] /\ e \in Episode /\ v \in Progress
  BY <1>1, <1>2 DEF WatchShape, Episode, Progress
<1>0. WatchShape /\ RowsPlaced
  OBVIOUS
<1>4. progress' \in [User -> [Series -> [Episode -> Progress]]] /\ Writes(u, m, e, v)
  BY <1>0, <1>2, <1>3, RowWritten
<1>5. recent' \in [User -> Seq(Series \X Episode)] /\ RowsPlaced'
  <2>1. PICK s : s = Touched(recent[u], <<m, e>>)
    OBVIOUS
  <2>2. recent[u] \in Seq(Series \X Episode) /\ <<m, e>> \in Series \X Episode
    BY <1>3 DEF WatchShape
  <2>3. /\ s \in Seq(Series \X Episode) /\ Placed(s, <<m, e>>)
        /\ \A x : Placed(recent[u], x) => Placed(s, x)
    BY <2>1, <2>2, TouchedKeeps
  <2>4. recent' = [recent EXCEPT ![u] = s]
    BY <1>2, <2>1
  <2> QED
    BY <1>0, <1>3, <1>4, <2>3, <2>4, PlacedTouched
<1>6. /\ finishing'[t] = IF completed THEN e ELSE 0
      /\ \A x \in Tab \ {t} : finishing'[x] = finishing[x]
      /\ released[m] \in 0..MaxEpisode
  BY <1>2, <1>3 DEF WatchShape
<1>7. WatchShape'
  BY <1>1, <1>2, <1>3, <1>4, <1>5, <1>6 DEF WatchShape, Episode
<1>8. ASSUME NEW x \in User, NEW n \in Series, x # u \/ n # m, NextComes(x, n) PROVE NextComes(x, n)'
  <2>1. \A f \in Episode : progress'[x][n][f] = progress[x][n][f]
    BY <1>3, <1>4, <1>8 DEF Writes
  <2>2. \A k \in Tab : finishing[k] # 0 => finishing'[k] = finishing[k]
    BY <1>2, <1>6
  <2> QED
    BY <1>0, <1>2, <1>8, <2>1, <2>2, OthersFilled
<1>9. ASSUME NextComes(u, m) PROVE NextComes(u, m)'
  <2>1. CASE ~completed
    <3>1. finishing' = finishing
      BY <1>2, <2>1 DEF WatchShape
    <3>2. Writes(u, m, e, "started")
      BY <1>1, <1>4, <2>1
    <3> QED
      BY <1>0, <1>2, <1>3, <1>9, <3>1, <3>2, Reopened
  <2>2. CASE completed
    <3>1. ASSUME NEW d \in 1..released[m], NEW h \in 1..released[m], IsNext(u, m, d, h)'
          PROVE  progress'[u][m][h] = "started" \/ Queueing(u, m, d, h)'
      <4>1. d \in Episode /\ h \in Episode /\ d < h /\ h # e
        BY <1>1, <1>4, <1>6, <2>2, <3>1 DEF Episode, IsNext, Writes
      <4>2. CASE d <= e /\ e < h
        BY <1>1, <1>2, <1>6, <2>2, <4>2 DEF Queueing
      <4>3. CASE ~(d <= e /\ e < h)
        <5>1. IsNext(u, m, d, h)
          <6>1. /\ progress'[u][m][d] = progress[u][m][d] \/ d = e
                /\ progress'[u][m][h] = progress[u][m][h]
                /\ \A f \in Episode : f # e => progress'[u][m][f] = progress[u][m][f]
            BY <1>3, <1>4, <4>1 DEF Writes
          <6>2. d # e /\ \A f \in Episode : d < f /\ f < h => f # e
            BY <1>3, <1>6, <4>1, <4>3 DEF Episode
          <6> QED
            BY <3>1, <4>1, <6>1, <6>2 DEF IsNext
        <5>2. progress[u][m][h] = "started" => progress'[u][m][h] = "started"
          BY <1>3, <1>4, <4>1 DEF Writes
        <5>3. Queueing(u, m, d, h) => Queueing(u, m, d, h)'
          BY <1>2, <1>6 DEF Queueing
        <5> QED
          BY <1>9, <5>1, <5>2, <5>3 DEF NextComes
      <4> QED
        BY <4>2, <4>3
    <3> QED
      BY <1>2, <3>1 DEF NextComes
  <2> QED
    BY <2>1, <2>2
<1>10. QueuesFilled'
  BY <1>2, <1>8, <1>9 DEF QueuesFilled
<1> QED
  BY <1>5, <1>7, <1>10

\* Where no row and no request moves.
LEMMA StillStepWatch ==
  ASSUME WatchIInv, UNCHANGED <<progress, recent, finishing, following, unqueued>>, released' = released,
         page' = page \/ \E t \in Tab, m \in Series, req \in 0..MaxEpisode : OpenEpisode(t, m, req)
  PROVE  WatchIInv'
<1> USE DEF WatchIInv
<1>0. WatchShape
  OBVIOUS
<1>1. ASSUME NEW t \in Tab, NEW m \in Series, NEW req \in 0..MaxEpisode, OpenEpisode(t, m, req)
      PROVE  WatchShape' /\ \A x \in Tab : finishing[x] # 0 => page'[x] = page[x]
  <2>1. PICK p : p = Page(Owner(t), m, req)
    OBVIOUS
  <2>2. released[m] \in 0..MaxEpisode
    BY DEF WatchShape
  <2>3. p.movie = m /\ p.active \in 0..released[m]
    BY <2>1, <2>2 DEF Page
  <2>4. page' = [page EXCEPT ![t] = p] /\ finishing[t] = 0
    BY <1>1, <2>1 DEF OpenEpisode
  <2>5. page'[t] = p /\ \A x \in Tab \ {t} : page'[x] = page[x]
    BY <2>4 DEF WatchShape
  <2> QED
    BY <2>3, <2>4, <2>5 DEF WatchShape
<1>2. WatchShape' /\ \A x \in Tab : finishing[x] # 0 => page'[x] = page[x]
  <2>1. CASE page' = page
    BY <2>1 DEF WatchShape
  <2> QED
    BY <1>1, <2>1
<1>3. ASSUME NEW u \in User, NEW m \in Series, NextComes(u, m) PROVE NextComes(u, m)'
  BY <1>0, <1>2, <1>3, OthersFilled
<1>4. QueuesFilled'
  BY <1>3 DEF QueuesFilled
<1>5. RowsPlaced'
  BY DEF RowsPlaced
<1> QED
  BY <1>2, <1>4, <1>5

\* FindNext: what is the next after an earlier episode is the next after this one.
LEMMA FindStepWatch ==
  ASSUME WatchIInv, NEW t \in Tab, FindNext(t) PROVE WatchIInv'
<1> USE DEF WatchIInv
<1>1. PICK u, m, c, o : u = Owner(t) /\ m = page[t].movie /\ c = finishing[t] /\ o = Unfinished(u, m, c)
  OBVIOUS
<1>2. /\ finishing[t] # 0 /\ following[t] = 0
      /\ UNCHANGED <<released, progress, recent, page, unqueued>>
      /\ \/ o # {} /\ following' = [following EXCEPT ![t] = First(o)] /\ finishing' = finishing
         \/ o = {} /\ finishing' = [finishing EXCEPT ![t] = 0] /\ following' = following
  BY <1>1 DEF FindNext
<1>3. /\ u \in User /\ m \in Series /\ released[m] \in 0..MaxEpisode
      /\ c \in 1..released[m]
  BY <1>1, <1>2 DEF WatchShape
<1>4. /\ \A f \in o : f \in Nat /\ f \in Episode /\ c < f /\ f <= released[m] /\ progress[u][m][f] # "done"
      /\ o \subseteq Nat
  BY <1>1, <1>3 DEF Unfinished, Episode
<1>5. o # {} => First(o) \in o /\ \A k \in o : First(o) <= k
  BY <1>4, FirstIsLeast
<1>6. /\ \A x \in Tab \ {t} : finishing'[x] = finishing[x] /\ following'[x] = following[x]
      /\ o # {} => finishing'[t] = finishing[t] /\ following'[t] = First(o)
      /\ o = {} => finishing'[t] = 0 /\ following'[t] = 0
  BY <1>2 DEF WatchShape
<1>7. WatchShape'
  <2>1. /\ finishing'[t] = 0 => following'[t] = 0
        /\ finishing'[t] \in {0, c}
        /\ following'[t] # 0 => following'[t] \in o
    BY <1>1, <1>3, <1>5, <1>6
  <2>2. following'[t] \in 0..MaxEpisode /\ finishing'[t] \in 0..MaxEpisode
    <3>1. 0 \in 0..MaxEpisode /\ c \in 0..MaxEpisode
      BY <1>3
    <3>2. o \subseteq 0..MaxEpisode
      BY <1>4 DEF Episode
    <3> QED
      BY <2>1, <3>1, <3>2
  <2>3. finishing' \in [Tab -> 0..MaxEpisode] /\ following' \in [Tab -> 0..MaxEpisode]
    BY <1>2, <1>6, <2>2 DEF WatchShape
  <2>4. following'[t] # 0 => following'[t] <= released[m]
    BY <1>4, <2>1
  <2>5. ASSUME NEW x \in Tab
        PROVE  /\ finishing'[x] = 0 => following'[x] = 0
               /\ finishing'[x] # 0 => page[x] # NoPage /\ finishing'[x] <= released[page[x].movie]
               /\ following'[x] # 0 => following'[x] <= released[page[x].movie]
    BY <1>1, <1>2, <1>6, <2>1, <2>4 DEF WatchShape
  <2> QED
    BY <1>2, <2>3, <2>5 DEF WatchShape
<1>8. ASSUME NEW x \in User, NEW n \in Series, NextComes(x, n) PROVE NextComes(x, n)'
  <2>1. ASSUME NEW e \in 1..released[n], NEW h \in 1..released[n], IsNext(x, n, e, h), Queueing(x, n, e, h)
        PROVE  Queueing(x, n, e, h)'
    <3>1. PICK k \in Tab : /\ Owner(k) = x /\ page[k].movie = n
                           /\ e <= finishing[k] /\ finishing[k] < h /\ following[k] \in {0, h}
      BY <2>1 DEF Queueing
    <3>2. CASE k # t
      BY <1>2, <1>6, <3>1, <3>2 DEF Queueing
    <3>3. CASE k = t
      <4>1. x = u /\ n = m /\ released[n] \in 0..MaxEpisode
        BY <1>1, <1>3, <3>1, <3>3
      <4>2. h \in o
        BY <1>1, <1>3, <2>1, <3>1, <3>3, <4>1 DEF Unfinished, IsNext
      <4>3. ASSUME NEW f \in o, f < h PROVE FALSE
        <5>1. f \in Episode /\ e < f /\ progress[u][m][f] # "done"
          <6>1. e <= c /\ c \in Nat /\ e \in Nat
            BY <1>1, <1>3, <3>1, <3>3, <4>1
          <6> QED
            BY <1>4, <4>3, <6>1
        <5> QED
          BY <2>1, <4>1, <4>3, <5>1 DEF IsNext
      <4>4. First(o) = h
        <5>1. PICK g : g = First(o)
          OBVIOUS
        <5>2. g \in o /\ g <= h
          BY <1>5, <4>2, <5>1
        <5>3. g \in Nat /\ h \in Nat /\ ~(g < h)
          BY <1>4, <4>2, <4>3, <5>2
        <5>4. g = h
          BY <5>2, <5>3
        <5> QED
          BY <5>1, <5>4
      <4> QED
        BY <1>2, <1>6, <3>1, <3>3, <4>2, <4>4 DEF Queueing
    <3> QED
      BY <3>2, <3>3
  <2>2. \A e, h : IsNext(x, n, e, h)' => IsNext(x, n, e, h)
    BY <1>2 DEF IsNext
  <2> QED
    BY <1>2, <1>8, <2>1, <2>2 DEF NextComes
<1>9. QueuesFilled'
  BY <1>2, <1>8 DEF QueuesFilled
<1>10. RowsPlaced'
  BY <1>2 DEF RowsPlaced
<1> QED
  BY <1>7, <1>9, <1>10

\* _queue_next_episode: the next episode is started, if it is still to be.
LEMMA QueueStepWatch ==
  ASSUME WatchIInv, NEW t \in Tab, _queue_next_episode(t) PROVE WatchIInv'
<1> USE DEF WatchIInv
<1>0. WatchShape /\ RowsPlaced
  OBVIOUS
<1>1. PICK u, m, f : u = Owner(t) /\ m = page[t].movie /\ f = following[t]
  OBVIOUS
<1>2. /\ f # 0
      /\ IF progress[u][m][f] = "none"
         THEN /\ progress' = [progress EXCEPT ![u][m][f] = "started"]
              /\ recent' = [recent EXCEPT ![u] = Append(recent[u], <<m, f>>)]
         ELSE progress' = progress /\ recent' = recent
      /\ finishing' = [finishing EXCEPT ![t] = 0] /\ following' = [following EXCEPT ![t] = 0]
      /\ UNCHANGED <<released, page, unqueued>>
  BY <1>1 DEF _queue_next_episode
<1>3. /\ finishing[t] # 0 /\ u \in User /\ m \in Series /\ released[m] \in 0..MaxEpisode
      /\ f \in Episode
  BY <1>1, <1>2 DEF WatchShape, Episode
<1>4. /\ finishing'[t] = 0 /\ following'[t] = 0
      /\ \A x \in Tab \ {t} : finishing'[x] = finishing[x] /\ following'[x] = following[x]
  BY <1>2 DEF WatchShape
<1>5. /\ progress' \in [User -> [Series -> [Episode -> Progress]]]
      /\ progress[u][m][f] = "none" => Writes(u, m, f, "started")
      /\ progress[u][m][f] # "none" => progress' = progress
  <2>1. "started" \in Progress
    BY DEF Progress
  <2>2. CASE progress[u][m][f] = "none"
    BY <1>0, <1>2, <1>3, <2>1, <2>2, RowWritten
  <2>3. CASE progress[u][m][f] # "none"
    BY <1>2, <2>3 DEF WatchShape
  <2> QED
    BY <2>2, <2>3
<1>6. recent' \in [User -> Seq(Series \X Episode)] /\ RowsPlaced'
  <2>1. CASE progress[u][m][f] = "none"
    <3>1. PICK s : s = Append(recent[u], <<m, f>>)
      OBVIOUS
    <3>2. recent[u] \in Seq(Series \X Episode) /\ <<m, f>> \in Series \X Episode
      BY <1>3 DEF WatchShape
    <3>3. /\ s \in Seq(Series \X Episode) /\ Placed(s, <<m, f>>)
          /\ \A x : Placed(recent[u], x) => Placed(s, x)
      BY <3>1, <3>2, AppendKeeps
    <3>4. recent' = [recent EXCEPT ![u] = s]
      BY <1>2, <2>1, <3>1
    <3> QED
      BY <1>0, <1>3, <1>5, <2>1, <3>3, <3>4, PlacedTouched
  <2>2. CASE progress[u][m][f] # "none"
    BY <1>2, <2>2 DEF WatchShape, RowsPlaced
  <2> QED
    BY <2>1, <2>2
<1>7. WatchShape'
  BY <1>1, <1>2, <1>3, <1>4, <1>5, <1>6 DEF WatchShape
<1>8. \A x \in User, n \in Series, d \in Episode :
         /\ progress'[x][n][d] = "done" <=> progress[x][n][d] = "done"
         /\ progress[x][n][d] = "started" => progress'[x][n][d] = "started"
  BY <1>3, <1>5 DEF Writes
<1>9. progress[u][m][f] # "done" => progress'[u][m][f] = "started"
  <2>1. progress[u][m][f] \in Progress
    BY <1>3 DEF WatchShape
  <2> QED
    BY <1>5, <2>1 DEF Writes, Progress
<1>10. ASSUME NEW x \in User, NEW n \in Series, NextComes(x, n) PROVE NextComes(x, n)'
  <2>1. released[n] \in 0..MaxEpisode
    BY DEF WatchShape
  <2>2. ASSUME NEW e \in 1..released[n], NEW h \in 1..released[n], IsNext(x, n, e, h)'
        PROVE  progress'[x][n][h] = "started" \/ Queueing(x, n, e, h)'
    <3>1. e \in Episode /\ h \in Episode
      BY <2>1 DEF Episode
    <3>2. IsNext(x, n, e, h)
      BY <1>8, <2>2, <3>1 DEF IsNext
    <3>3. CASE progress[x][n][h] = "started"
      BY <1>8, <3>1, <3>3
    <3>4. ASSUME NEW k \in Tab, Owner(k) = x, page[k].movie = n, e <= finishing[k], finishing[k] < h,
                 following[k] \in {0, h}
          PROVE  progress'[x][n][h] = "started" \/ Queueing(x, n, e, h)'
      <4>1. CASE k # t
        BY <1>2, <1>4, <3>4, <4>1 DEF Queueing
      <4>2. CASE k = t
        <5>1. x = u /\ n = m /\ h = f
          BY <1>1, <1>2, <3>4, <4>2
        <5>2. progress[u][m][f] # "done"
          BY <3>2, <5>1 DEF IsNext
        <5> QED
          BY <1>9, <5>1, <5>2
      <4> QED
        BY <4>1, <4>2
    <3> QED
      BY <1>10, <3>2, <3>3, <3>4 DEF NextComes, Queueing
  <2> QED
    BY <1>2, <2>2 DEF NextComes
<1>11. QueuesFilled'
  BY <1>2, <1>10 DEF QueuesFilled
<1> QED
  BY <1>6, <1>7, <1>11

\* DieFinishing: the queue of the request's series is cut.
LEMMA DieStepWatch ==
  ASSUME WatchIInv, NEW t \in Tab, DieFinishing(t) PROVE WatchIInv'
<1> USE DEF WatchIInv
<1>0. WatchShape
  OBVIOUS
<1>1. /\ unqueued' = unqueued \cup {<<Owner(t), page[t].movie>>}
      /\ finishing' = [finishing EXCEPT ![t] = 0] /\ following' = [following EXCEPT ![t] = 0]
      /\ UNCHANGED <<released, progress, recent, page>>
  BY DEF DieFinishing
<1>2. /\ finishing'[t] = 0 /\ following'[t] = 0
      /\ \A x \in Tab \ {t} : finishing'[x] = finishing[x] /\ following'[x] = following[x]
  BY <1>1 DEF WatchShape
<1>3. finishing' \in [Tab -> 0..MaxEpisode] /\ following' \in [Tab -> 0..MaxEpisode]
  BY <1>1 DEF WatchShape
<1>4. WatchShape'
  BY <1>1, <1>2, <1>3 DEF WatchShape
<1>5. ASSUME NEW u \in User, NEW m \in Series, <<u, m>> \notin unqueued', NextComes(u, m)
      PROVE  NextComes(u, m)'
  <2>1. \A x \in Tab : finishing[x] # 0 /\ Owner(x) = u /\ page[x].movie = m =>
            finishing'[x] = finishing[x] /\ following'[x] = following[x] /\ page'[x] = page[x]
    BY <1>1, <1>2, <1>5
  <2> QED
    BY <1>0, <1>1, <1>5, <2>1, OthersFilled
<1>6. QueuesFilled'
  BY <1>1, <1>5 DEF QueuesFilled
<1>7. RowsPlaced'
  BY <1>1 DEF RowsPlaced
<1> QED
  BY <1>4, <1>6, <1>7

\* The API: a row that it starts is like one the player starts; one that it completes or
\* deletes cuts the queue.
LEMMA ApiStepWatch ==
  ASSUME WatchIInv, NEW u \in User, NEW m \in Series, NEW e \in Episode,
         ApiDelete(u, m, e) \/ \E completed \in BOOLEAN : ApiSave(u, m, e, completed)
  PROVE  WatchIInv'
<1> USE DEF WatchIInv
<1>0. WatchShape /\ RowsPlaced
  OBVIOUS
<1>1. PICK v, s :
        /\ v \in Progress
        /\ progress' = [progress EXCEPT ![u][m][e] = v]
        /\ recent' = [recent EXCEPT ![u] = s]
        /\ (v = "none" /\ s = Without(recent[u], <<m, e>>)) \/ s = Touched(recent[u], <<m, e>>)
        /\ v # "started" => unqueued' = unqueued \cup {<<u, m>>}
        /\ v = "started" => unqueued' = unqueued
        /\ UNCHANGED <<released, page, finishing, following>>
  <2>1. CASE ApiDelete(u, m, e)
    <3>1. "none" \in Progress
      BY DEF Progress
    <3>2. PICK a : a = Without(recent[u], <<m, e>>)
      OBVIOUS
    <3>3. /\ progress' = [progress EXCEPT ![u][m][e] = "none"]
          /\ recent' = [recent EXCEPT ![u] = a]
          /\ unqueued' = unqueued \cup {<<u, m>>}
          /\ UNCHANGED <<released, page, finishing, following>>
      BY <2>1, <3>2 DEF ApiDelete
    <3>4. PICK w : w = "none" /\ w # "started"
      OBVIOUS
    <3> WITNESS w, a
    <3> QED
      BY <3>1, <3>2, <3>3, <3>4
  <2>2. ASSUME NEW completed \in BOOLEAN, ApiSave(u, m, e, completed)
        PROVE  \E v \in Progress :
                 /\ progress' = [progress EXCEPT ![u][m][e] = v]
                 /\ recent' = [recent EXCEPT ![u] = Touched(recent[u], <<m, e>>)]
                 /\ v # "started" => unqueued' = unqueued \cup {<<u, m>>}
                 /\ v = "started" => unqueued' = unqueued
                 /\ UNCHANGED <<released, page, finishing, following>>
    <3>1. CASE completed
      BY <2>2, <3>1 DEF ApiSave, Progress
    <3>2. CASE ~completed
      BY <2>2, <3>2 DEF ApiSave, Progress
    <3> QED
      BY <3>1, <3>2
  <2> QED
    BY <2>1, <2>2
<1>2. progress' \in [User -> [Series -> [Episode -> Progress]]] /\ Writes(u, m, e, v)
  BY <1>0, <1>1, RowWritten
<1>3. recent' \in [User -> Seq(Series \X Episode)] /\ RowsPlaced'
  <2>1. recent[u] \in Seq(Series \X Episode) /\ <<m, e>> \in Series \X Episode
    BY DEF WatchShape
  <2>2. CASE s = Touched(recent[u], <<m, e>>)
    <3>1. /\ s \in Seq(Series \X Episode) /\ Placed(s, <<m, e>>)
          /\ \A x : Placed(recent[u], x) => Placed(s, x)
      BY <2>1, <2>2, TouchedKeeps
    <3> QED
      BY <1>0, <1>1, <1>2, <3>1, PlacedTouched
  <2>3. CASE v = "none" /\ s = Without(recent[u], <<m, e>>)
    <3>1. /\ s \in Seq(Series \X Episode)
          /\ \A x : x # <<m, e>> /\ Placed(recent[u], x) => Placed(s, x)
      BY <2>1, <2>3, WithoutKeeps
    <3>2. v = "started" => Placed(s, <<m, e>>)
      BY <2>3
    <3>3. recent' = [recent EXCEPT ![u] = s]
      BY <1>1
    <3> QED
      BY <1>0, <1>2, <3>1, <3>2, <3>3, PlacedTouched
  <2> QED
    BY <1>1, <2>2, <2>3
<1>4. WatchShape'
  BY <1>1, <1>2, <1>3 DEF WatchShape
<1>5. ASSUME NEW x \in User, NEW n \in Series, <<x, n>> \notin unqueued', NextComes(x, n)
      PROVE  NextComes(x, n)'
  <2>1. CASE v = "started"
    <3>1. Writes(u, m, e, "started")
      BY <1>2, <2>1
    <3> QED
      BY <1>0, <1>1, <1>5, <3>1, Reopened
  <2>2. CASE v # "started"
    <3>1. x # u \/ n # m
      BY <1>1, <1>5, <2>2
    <3>2. \A f \in Episode : progress'[x][n][f] = progress[x][n][f]
      BY <1>2, <3>1 DEF Writes
    <3> QED
      BY <1>0, <1>1, <1>5, <3>2, OthersFilled
  <2> QED
    BY <2>1, <2>2
<1>6. QueuesFilled'
  BY <1>1, <1>5 DEF QueuesFilled
<1> QED
  BY <1>3, <1>4, <1>6

\* Release: only who has finished nothing keeps a queue.
LEMMA ReleaseStepWatch ==
  ASSUME WatchIInv, NEW m \in Series, Release(m) PROVE WatchIInv'
<1> USE DEF WatchIInv
<1>0. WatchShape
  OBVIOUS
<1>1. /\ released[m] < MaxEpisode /\ released' = [released EXCEPT ![m] = released[m] + 1]
      /\ unqueued' = unqueued \cup
             {<<u, m>> : u \in {x \in User : \E e \in Episode : progress[x][m][e] = "done"}}
      /\ UNCHANGED <<progress, recent, page, finishing, following>>
  BY DEF Release
<1>2. /\ released[m] \in 0..MaxEpisode /\ released'[m] = released[m] + 1
      /\ \A n \in Series \ {m} : released'[n] = released[n]
  BY <1>1 DEF WatchShape
<1>3. \A n \in Series : released[n] \in 0..MaxEpisode /\ released[n] <= released'[n]
  <2>1. ASSUME NEW n \in Series PROVE released[n] \in 0..MaxEpisode
    BY DEF WatchShape
  <2>2. ASSUME NEW n \in Series PROVE released[n] <= released'[n]
    <3>1. CASE n = m
      BY <1>2, <3>1
    <3>2. CASE n # m
      <4>1. PICK a : a = released[n]
        OBVIOUS
      <4>2. a \in Int /\ released'[n] = a
        BY <1>2, <2>1, <3>2, <4>1
      <4> QED
        BY <4>1, <4>2
    <3> QED
      BY <3>1, <3>2
  <2> QED
    BY <2>1, <2>2
<1>4. WatchShape'
  <2>1. released' \in [Series -> 0..MaxEpisode]
    BY <1>1, <1>2 DEF WatchShape
  <2>2. ASSUME NEW t \in Tab
        PROVE  /\ page[t] # NoPage => page[t].movie \in Series /\ page[t].active \in 0..released'[page[t].movie]
               /\ finishing[t] # 0 => page[t] # NoPage /\ finishing[t] <= released'[page[t].movie]
               /\ following[t] # 0 => following[t] <= released'[page[t].movie]
    <3>1. page[t] # NoPage => page[t].active \in 0..released'[page[t].movie]
      <4> SUFFICES ASSUME page[t] # NoPage PROVE page[t].active \in 0..released'[page[t].movie]
        OBVIOUS
      <4>1. PICK n, a : n = page[t].movie /\ a = page[t].active
        OBVIOUS
      <4>2. n \in Series /\ a \in 0..released[n]
        BY <4>1 DEF WatchShape
      <4>3. released'[n] \in Nat
        BY <2>1, <4>2
      <4> QED
        BY <1>3, <4>1, <4>2, <4>3
    <3>2. finishing[t] # 0 => finishing[t] <= released'[page[t].movie]
      <4> SUFFICES ASSUME finishing[t] # 0 PROVE finishing[t] <= released'[page[t].movie]
        OBVIOUS
      <4>1. PICK n, a : n = page[t].movie /\ a = finishing[t]
        OBVIOUS
      <4>2. n \in Series /\ a <= released[n] /\ a \in Nat
        BY <4>1 DEF WatchShape
      <4>3. released'[n] \in Nat
        BY <2>1, <4>2
      <4> QED
        BY <1>3, <4>1, <4>2, <4>3
    <3>3. following[t] # 0 => following[t] <= released'[page[t].movie]
      <4> SUFFICES ASSUME following[t] # 0 PROVE following[t] <= released'[page[t].movie]
        OBVIOUS
      <4>1. PICK n, a : n = page[t].movie /\ a = following[t]
        OBVIOUS
      <4>2. n \in Series /\ a <= released[n] /\ a \in Nat
        BY <4>1 DEF WatchShape
      <4>3. released'[n] \in Nat
        BY <2>1, <4>2
      <4> QED
        BY <1>3, <4>1, <4>2, <4>3
    <3> QED
      BY <3>1, <3>2, <3>3 DEF WatchShape
  <2> QED
    BY <1>1, <2>1, <2>2 DEF WatchShape
<1>5. ASSUME NEW u \in User, NEW n \in Series, <<u, n>> \notin unqueued', NextComes(u, n)
      PROVE  NextComes(u, n)'
  <2>1. CASE n # m
    BY <1>0, <1>1, <1>2, <1>5, <2>1, OthersFilled
  <2>2. CASE n = m
    <3>1. \A e \in Episode : progress[u][m][e] # "done"
      BY <1>1, <1>5, <2>2
    <3>2. \A e \in 1..released'[m] : e \in Episode
      BY <1>1, <1>2 DEF Episode
    <3> QED
      BY <1>1, <2>2, <3>1, <3>2 DEF NextComes, IsNext
  <2> QED
    BY <2>1, <2>2
<1>6. QueuesFilled'
  BY <1>1, <1>5 DEF QueuesFilled
<1>7. RowsPlaced'
  BY <1>1 DEF RowsPlaced
<1> QED
  BY <1>4, <1>6, <1>7

\* In the beginning nothing is watched.
LEMMA WatchStart == WatchingInit => WatchIInv
<1> SUFFICES ASSUME WatchingInit PROVE WatchIInv
  OBVIOUS
<1>1. /\ released = [m \in Series |-> IF MaxEpisode = 0 THEN 0 ELSE MaxEpisode - 1]
      /\ progress = [u \in User |-> [m \in Series |-> [e \in Episode |-> "none"]]]
      /\ recent = [u \in User |-> << >>]
      /\ page = [t \in Tab |-> NoPage]
      /\ finishing = [t \in Tab |-> 0] /\ following = [t \in Tab |-> 0]
  BY DEF WatchingInit
<1>2. WatchShape
  <2>1. (IF MaxEpisode = 0 THEN 0 ELSE MaxEpisode - 1) \in 0..MaxEpisode /\ 0 \in 0..MaxEpisode
    OBVIOUS
  <2>2. released \in [Series -> 0..MaxEpisode]
    BY <1>1, <2>1
  <2>3. progress \in [User -> [Series -> [Episode -> Progress]]]
    BY <1>1 DEF Progress
  <2>4. recent \in [User -> Seq(Series \X Episode)]
    BY <1>1
  <2> QED
    BY <1>1, <2>1, <2>2, <2>3, <2>4 DEF WatchShape
<1>3. \A u \in User, m \in Series, e \in Episode : progress[u][m][e] = "none"
  BY <1>1
<1>4. \A m \in Series : \A e \in 1..released[m] : e \in Episode
  BY <1>2 DEF WatchShape, Episode
<1>5. QueuesFilled
  BY <1>3, <1>4 DEF QueuesFilled, NextComes, IsNext
<1>6. RowsPlaced
  BY <1>3 DEF RowsPlaced
<1> QED
  BY <1>2, <1>5, <1>6 DEF WatchIInv

\* Every step preserves the invariant.
LEMMA WatchStep == WatchIInv /\ [WatchingNext]_watchingVars => WatchIInv'
<1> SUFFICES ASSUME WatchIInv, [WatchingNext]_watchingVars PROVE WatchIInv'
  OBVIOUS
<1>1. ASSUME NEW t \in Tab, NEW m \in Series, NEW req \in 0..MaxEpisode, OpenEpisode(t, m, req)
      PROVE  WatchIInv'
  <2>1. UNCHANGED <<progress, recent, finishing, following, unqueued>> /\ released' = released
    BY <1>1 DEF OpenEpisode
  <2> QED
    BY <1>1, <2>1, StillStepWatch
<1>2. ASSUME NEW t \in Tab, NEW completed \in BOOLEAN, save_watch_progress(t, completed) PROVE WatchIInv'
  BY <1>2, SaveStepWatch
<1>3. ASSUME NEW t \in Tab, FindNext(t) \/ _queue_next_episode(t) \/ DieFinishing(t) PROVE WatchIInv'
  BY <1>3, FindStepWatch, QueueStepWatch, DieStepWatch
<1>4. ASSUME NEW m \in Series, Release(m) PROVE WatchIInv'
  BY <1>4, ReleaseStepWatch
<1>5. ASSUME NEW u \in User, ChangeAccess(u) PROVE WatchIInv'
  BY <1>5, StillStepWatch DEF ChangeAccess
<1>6. ASSUME NEW u \in User, NEW m \in Series, NEW e \in Episode,
             ApiDelete(u, m, e) \/ \E completed \in BOOLEAN : ApiSave(u, m, e, completed)
      PROVE  WatchIInv'
  BY <1>6, ApiStepWatch
<1>7. CASE UNCHANGED watchingVars
  BY <1>7, StillStepWatch DEF watchingVars
<1> QED
  BY <1>1, <1>2, <1>3, <1>4, <1>5, <1>6, <1>7 DEF WatchingNext

\* Of the places of a movie's started rows one is the last: that row is listed.
LEMMA StartedIsListed ==
  ASSUME WatchIInv, NEW u \in User, NEW m \in Series, NEW g \in Episode, progress[u][m][g] = "started"
  PROVE  \E i \in DOMAIN continue_watching(u) : continue_watching(u)[i][1] = m
<1>1. PICK s, p : s = recent[u] /\ p = progress[u]
  OBVIOUS
<1>2. Len(s) \in Nat /\ DOMAIN s = 1..Len(s)
  BY <1>1 DEF WatchIInv, WatchShape
<1>3. PICK I : I = {i \in DOMAIN s : s[i][1] = m /\ p[s[i][1]][s[i][2]] = "started"}
  OBVIOUS
<1>4. PICK c \in I : TRUE
  <2>1. PICK i \in 1..Len(s) : s[i] = <<m, g>>
    BY <1>1 DEF WatchIInv, RowsPlaced, Placed
  <2>2. i \in I
    BY <1>1, <1>2, <1>3, <2>1
  <2> QED
    BY <2>2
<1>5. PICK L : L = Len(s)
  OBVIOUS
<1>6. L \in Nat /\ I \subseteq 1..L
  BY <1>2, <1>3, <1>5
<1>7. PICK d \in I : \A j \in I : j <= d
  <2>1. PICK N : N = {n \in Nat : \E i \in I : n = L - i}
    OBVIOUS
  <2>2. \A i \in I : L - i \in N
    BY <1>6, <2>1
  <2>3. N \subseteq Nat /\ N # {}
    BY <1>4, <2>1, <2>2
  <2>4. PICK n \in N : \A k \in N : n <= k
    BY <2>3, LeastExists
  <2>5. PICK i \in I : n = L - i
    BY <2>1, <2>4
  <2>6. ASSUME NEW j \in I PROVE j <= i
    <3>1. i \in 1..L /\ j \in 1..L
      BY <1>6
    <3>2. L - i <= L - j
      BY <2>2, <2>4, <2>5
    <3> QED
      BY <1>6, <3>1, <3>2
  <2> QED
    BY <2>6
<1>8. PICK latest : latest = {i \in DOMAIN recent[u] :
                /\ progress[u][recent[u][i][1]][recent[u][i][2]] = "started"
                /\ \A j \in DOMAIN recent[u] :
                      j > i /\ recent[u][j][1] = recent[u][i][1] =>
                          ~(progress[u][recent[u][j][1]][recent[u][j][2]] = "started")}
  OBVIOUS
<1>9. d \in latest
  <2>1. d \in DOMAIN s /\ s[d][1] = m /\ p[s[d][1]][s[d][2]] = "started"
    BY <1>3
  <2>2. ASSUME NEW j \in DOMAIN s, j > d, s[j][1] = m, p[s[j][1]][s[j][2]] = "started" PROVE FALSE
    <3>1. j \in I
      BY <1>3, <2>2
    <3>2. j <= d /\ j \in Nat /\ d \in Nat
      BY <1>6, <1>7, <3>1
    <3> QED
      BY <2>2, <3>2
  <2> QED
    BY <1>1, <1>8, <2>1, <2>2
<1>10. continue_watching(u) = [i \in latest |-> recent[u][i]]
  BY <1>8 DEF continue_watching
<1>11. recent[u][d][1] = m
  BY <1>1, <1>3
<1> QED
  BY <1>9, <1>10, <1>11

\* save_watch_progress, _queue_next_episode, continue_watching: after a finished episode the
\* viewer finds a later one in his list, in every reachable state.
THEOREM NextIsQueuedHolds == WatchingInit /\ [][WatchingNext]_watchingVars => []NextIsQueued
<1>1. WatchIInv => NextIsQueued
  <2> SUFFICES ASSUME WatchIInv, NEW u \in User, NEW m \in Series, <<u, m>> \notin unqueued,
                      \A t \in Tab : Owner(t) = u /\ finishing[t] # 0 => page[t].movie # m,
                      NEW e \in 1..released[m], NEW f \in 1..released[m],
                      e < f, progress[u][m][e] = "done", progress[u][m][f] # "done"
               PROVE  /\ \E i \in DOMAIN continue_watching(u) : continue_watching(u)[i][1] = m
                      /\ \E g \in (e + 1)..released[m] : progress[u][m][g] = "started"
    BY DEF NextIsQueued
  <2>1. released[m] \in 0..MaxEpisode
    BY DEF WatchIInv, WatchShape
  <2>2. PICK o : o = {x \in Nat : e < x /\ x \in Episode /\ progress[u][m][x] # "done"}
    OBVIOUS
  <2>3. o \subseteq Nat /\ f \in o
    BY <2>1, <2>2 DEF Episode
  <2>4. PICK h \in o : \A k \in o : h <= k
    BY <2>3, LeastExists
  <2>5. h <= f /\ e < h /\ progress[u][m][h] # "done" /\ h \in Nat /\ h \in Episode
    BY <2>2, <2>3, <2>4
  <2>6. h \in 1..released[m] /\ h \in (e + 1)..released[m]
    BY <2>1, <2>5 DEF Episode
  <2>7. ASSUME NEW x \in Episode, e < x, x < h PROVE progress[u][m][x] = "done"
    <3>1. x \in Nat /\ x \notin o
      BY <2>4, <2>5, <2>7 DEF Episode
    <3> QED
      BY <2>2, <2>7, <3>1
  <2>8. IsNext(u, m, e, h)
    BY <2>5, <2>7 DEF IsNext
  <2>9. ~Queueing(u, m, e, h)
    <3>1. \A t \in Tab : e <= finishing[t] => finishing[t] # 0
      BY <2>1 DEF WatchIInv, WatchShape
    <3> QED
      BY <3>1 DEF Queueing
  <2>10. progress[u][m][h] = "started"
    BY <2>6, <2>8, <2>9 DEF WatchIInv, QueuesFilled, NextComes
  <2>11. \E i \in DOMAIN continue_watching(u) : continue_watching(u)[i][1] = m
    BY <2>5, <2>10, StartedIsListed
  <2> QED
    BY <2>6, <2>10, <2>11
<1> QED
  BY <1>1, WatchStart, WatchStep, PTL
=============================================================================
