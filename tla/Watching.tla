------------------------------ MODULE Watching ------------------------------
(***************************************************************************)
(* Watching a series: the player's page and what it may play               *)
(* (MovieDetailView, drama/services/playback.py), the progress the player  *)
(* reports (save_watch_progress), the next episode that is put into the    *)
(* "continue watching" list (_queue_next_episode, users/selectors.py).     *)
(*                                                                         *)
(* Episodes of a movie are numbered from 1; a progress row is "none",      *)
(* "started" or "done", and positions within an episode are left out.      *)
(***************************************************************************)
EXTENDS Site, FiniteSetsExt, SequencesExt

CONSTANTS
    Series,              \* the movies that are watched here
    MaxEpisode,          \* bound: episodes of a movie
    FREE_EPISODE_LIMIT,  \* episodes up to this one are free
    Vip, Funded,         \* movies for VIPs, and for contributors
    Superuser,
    Hosted,              \* pairs of a movie and an episode that have a GUID
    NoPage

ASSUME WatchingAssumption ==
    /\ MaxEpisode \in Nat /\ FREE_EPISODE_LIMIT \in Nat
    /\ Series \subseteq Movie /\ Vip \subseteq Movie /\ Funded \subseteq Movie /\ Superuser \subseteq User
    /\ Hosted \subseteq Movie \X Nat

VARIABLES
    released,   \* per movie: its episodes are 1..released[m]
    progress,   \* per user, movie and episode: his WatchProgress row
    recent,     \* per user: his rows in the order of updated_at
    premium,    \* users whose VIP runs
    backed,     \* users who have contributed enough to the funded movies
    page,       \* per tab: the page of a series, as it was rendered
    finishing,  \* per tab: the episode whose completion its request has just saved
    following,  \* per tab: the next episode it has found, 0 before
    unqueued    \* history: users and movies whose queue was cut short: a request died, an
                \* episode was released to someone who had finished one, or the API wrote

watchingVars == <<released, progress, recent, premium, backed, page, finishing, following,
                  unqueued>>

Episode == 1..MaxEpisode

WatchingInit ==
    /\ released = [m \in Series |-> IF MaxEpisode = 0 THEN 0 ELSE MaxEpisode - 1]
    /\ progress = [u \in User |-> [m \in Series |-> [e \in Episode |-> "none"]]]
    /\ recent = [u \in User |-> << >>]
    /\ premium = {} /\ backed = {}
    /\ page = [t \in Tab |-> NoPage]
    /\ finishing = [t \in Tab |-> 0]
    /\ following = [t \in Tab |-> 0]
    /\ unqueued = {}

-----------------------------------------------------------------------------
(* What may be played                                                      *)

\* get_episode_access: the reason an episode is refused, or "allowed".
get_episode_access(u, m, e) ==
    IF e <= FREE_EPISODE_LIMIT \/ u \in Superuser THEN "allowed"
    ELSE IF m \in Funded THEN (IF u \in backed THEN "allowed" ELSE "funding")
    ELSE IF m \in Vip /\ u \notin premium THEN "vip"
    ELSE "allowed"

\* The first episode after e, 0 if there is none.
After(m, e) == IF e < released[m] THEN e + 1 ELSE 0

\* MovieDetailView.get_context_data: the episode asked for (0 for none, which shows the
\* first), the one after it, whether it may be played, from where, and whether playback
\* resumes where the viewer stopped.
Page(u, m, req) ==
    LET active == IF req = 0 THEN (IF released[m] = 0 THEN 0 ELSE 1)
                  ELSE IF req <= released[m] THEN req ELSE 0
        access == IF active = 0 THEN "allowed" ELSE get_episode_access(u, m, active)
    IN [movie |-> m, active |-> active,
        next |-> IF active = 0 THEN 0 ELSE After(m, active),
        access |-> access,
        source |-> IF access # "allowed" THEN "none"
                   ELSE IF <<m, active>> \in Hosted THEN "stream" ELSE "embedded",
        resume |-> active # 0 /\ progress[u][m][active] = "started"]

OpenEpisode(t, m, req) ==
    /\ finishing[t] = 0
    /\ page' = [page EXCEPT ![t] = Page(Owner(t), m, req)]
    /\ UNCHANGED <<released, progress, recent, premium, backed, finishing, following, unqueued>>

\* continue_watching: per movie the latest row that is not done, at its place among the
\* user's rows; the last place is shown first.
continue_watching(u) ==
    LET Open(i) == progress[u][recent[u][i][1]][recent[u][i][2]] = "started"
        latest == {i \in DOMAIN recent[u] : Open(i) /\
                      \A j \in DOMAIN recent[u] :
                         j > i /\ recent[u][j][1] = recent[u][i][1] => ~Open(j)}
    IN [i \in latest |-> recent[u][i]]

-----------------------------------------------------------------------------
(* Progress                                                                *)

Without(s, r) ==
    IF \E i \in DOMAIN s : s[i] = r THEN RemoveAt(s, CHOOSE i \in DOMAIN s : s[i] = r) ELSE s

Touched(s, r) == Append(Without(s, r), r)

\* save_watch_progress: the page reports on its episode, which is done when the player says so
\* or 90 % of it have been played; a row that was done is reopened by a report that is not.
\* Nothing asks whether the viewer may play it.
save_watch_progress(t, completed) ==
    LET u == Owner(t)  m == page[t].movie  e == page[t].active IN
    /\ finishing[t] = 0 /\ page[t] # NoPage
    /\ e # 0
    /\ progress' = [progress EXCEPT ![u][m][e] = IF completed THEN "done" ELSE "started"]
    /\ recent' = [recent EXCEPT ![u] = Touched(@, <<m, e>>)]
    /\ finishing' = [finishing EXCEPT ![t] = IF completed THEN e ELSE 0]
    /\ UNCHANGED <<released, premium, backed, page, following, unqueued>>

\* The episodes after e that the user has not finished.
Unfinished(u, m, e) == {f \in (e + 1)..released[m] : progress[u][m][f] # "done"}

\* Mutant: ordered the other way round.
First_Last(open) == Max(open)

First(open) == Min(open)

\* _queue_next_episode: the first of them ...
FindNext(t) ==
    LET open == Unfinished(Owner(t), page[t].movie, finishing[t]) IN
    /\ finishing[t] # 0 /\ following[t] = 0
    /\ \/ open # {} /\ following' = [following EXCEPT ![t] = First(open)] /\ UNCHANGED finishing
       \/ open = {} /\ finishing' = [finishing EXCEPT ![t] = 0] /\ UNCHANGED following
    /\ UNCHANGED <<released, progress, recent, premium, backed, page, unqueued>>

\* ... gets a row if it has none (get_or_create).
_queue_next_episode(t) ==
    LET u == Owner(t)  m == page[t].movie  f == following[t] IN
    /\ f # 0
    /\ IF progress[u][m][f] = "none"
       THEN /\ progress' = [progress EXCEPT ![u][m][f] = "started"]
            /\ recent' = [recent EXCEPT ![u] = Append(@, <<m, f>>)]
       ELSE UNCHANGED <<progress, recent>>
    /\ finishing' = [finishing EXCEPT ![t] = 0]
    /\ following' = [following EXCEPT ![t] = 0]
    /\ UNCHANGED <<released, premium, backed, page, unqueued>>

\* The request dies after it has saved the completion.
DieFinishing(t) ==
    /\ finishing[t] # 0
    /\ unqueued' = unqueued \cup {<<Owner(t), page[t].movie>>}
    /\ finishing' = [finishing EXCEPT ![t] = 0]
    /\ following' = [following EXCEPT ![t] = 0]
    /\ UNCHANGED <<released, progress, recent, premium, backed, page>>

\* The API (WatchProgressViewSet) writes a row of any episode, played on the site or not,
\* without queueing what follows, and deletes rows.
ApiSave(u, m, e, completed) ==
    /\ e <= released[m]
    /\ progress' = [progress EXCEPT ![u][m][e] = IF completed THEN "done" ELSE "started"]
    /\ recent' = [recent EXCEPT ![u] = Touched(@, <<m, e>>)]
    /\ unqueued' = IF completed THEN unqueued \cup {<<u, m>>} ELSE unqueued
    /\ UNCHANGED <<released, premium, backed, page, finishing, following>>

ApiDelete(u, m, e) ==
    /\ progress[u][m][e] # "none"
    /\ progress' = [progress EXCEPT ![u][m][e] = "none"]
    /\ recent' = [recent EXCEPT ![u] = Without(@, <<m, e>>)]
    /\ unqueued' = unqueued \cup {<<u, m>>}
    /\ UNCHANGED <<released, premium, backed, page, finishing, following>>

-----------------------------------------------------------------------------
(* The world around                                                        *)

\* Followers are told of a new episode (see Videos); nobody's queue is touched.
Release(m) ==
    /\ released[m] < MaxEpisode
    /\ released' = [released EXCEPT ![m] = @ + 1]
    /\ unqueued' = unqueued \cup
           {<<u, m>> : u \in {v \in User : \E e \in Episode : progress[v][m][e] = "done"}}
    /\ UNCHANGED <<progress, recent, premium, backed, page, finishing, following>>

\* VIP is bought or runs out, a contribution makes a backer or is refunded.
ChangeAccess(u) ==
    /\ \/ premium' = SymDiff(premium, {u}) /\ UNCHANGED backed
       \/ backed' = SymDiff(backed, {u}) /\ UNCHANGED premium
    /\ UNCHANGED <<released, progress, recent, page, finishing, following, unqueued>>

WatchingNext ==
    \/ \E t \in Tab :
          \/ \E m \in Series, req \in 0..MaxEpisode : OpenEpisode(t, m, req)
          \/ \E completed \in BOOLEAN : save_watch_progress(t, completed)
          \/ FindNext(t) \/ _queue_next_episode(t) \/ DieFinishing(t)
    \/ \E m \in Series : Release(m)
    \/ \E u \in User : \/ ChangeAccess(u)
                       \/ \E m \in Series, e \in Episode :
                             ApiDelete(u, m, e) \/ \E completed \in BOOLEAN : ApiSave(u, m, e, completed)

-----------------------------------------------------------------------------
(* Properties                                                              *)

\* Whoever has finished an episode and not all that follow has an episode after it in
\* "continue watching", once his requests are answered: finishing episodes in any order,
\* again, or in two tabs at once never leaves a series without its next episode.
NextIsQueued ==
    \A u \in User, m \in Series :
        /\ <<u, m>> \notin unqueued
        /\ \A t \in Tab : Owner(t) = u /\ finishing[t] # 0 => page[t].movie # m
        => \A e, f \in 1..released[m] :
               e < f /\ progress[u][m][e] = "done" /\ progress[u][m][f] # "done" =>
                   /\ \E i \in DOMAIN continue_watching(u) : continue_watching(u)[i][1] = m
                   /\ \E g \in (e + 1)..released[m] : progress[u][m][g] = "started"
=============================================================================
