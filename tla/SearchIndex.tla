---------------------------- MODULE SearchIndex -----------------------------
(***************************************************************************)
(* The full-text index of movies, Movie.search_vector: signals queue       *)
(* update_search_vector after the commit of whatever changes a movie or    *)
(* its cast, and the task reads the names of the cast and then writes the  *)
(* vector in one UPDATE, which takes the texts as they are at that moment. *)
(*                                                                         *)
(* A renamed or deleted actor, and a movie added from the actor's side,    *)
(* send no signal that queues a task.                                      *)
(***************************************************************************)
EXTENDS FiniteSets, Integers

CONSTANTS
    Film,
    Player,    \* rows of Actor
    Text,      \* titles and descriptions
    Name,      \* Actor.name
    Indexer,   \* Celery workers
    NoFilm,
    Gone,
    MaxJobs    \* bound: tasks waiting for one film

ASSUME SearchIndexAssumption ==
    NoFilm \notin Film /\ Gone \notin Text /\ MaxJobs \in Nat

VARIABLES
    text,       \* per film: title and description, Gone once it is deleted
    cast,       \* Movie.actors
    name,       \* Actor.name
    vector,     \* Movie.search_vector: the texts (weights A, C) and names (B) it indexes
    waiting,    \* update_search_vector tasks in the queue
    indexing,   \* per worker: the film, and what it has read of it
    behind,     \* history: films whose last change has no task, or lost it
    overtaken   \* history: films whose names changed while a task had read them

indexVars == <<text, cast, name, vector, waiting, indexing, behind, overtaken>>

Resting == [film |-> NoFilm, text |-> Gone, names |-> {}]
Indexed(f) == \E w \in Indexer : indexing[w].film = f

Names(f) == {name[a] : a \in cast[f]}

IndexInit ==
    /\ text \in [Film -> Text]
    /\ cast \in [Film -> SUBSET Player]
    /\ name \in [Player -> Name]
    /\ vector = [f \in Film |-> [text |-> text[f], names |-> Names(f)]]
    /\ waiting = [f \in Film |-> 0]
    /\ indexing = [w \in Indexer |-> Resting]
    /\ behind = {} /\ overtaken = {}

-----------------------------------------------------------------------------
(* Changes                                                                 *)

Renamed == {f \in Film : Names(f)' # Names(f)}
NoteRenamed == overtaken' = overtaken \cup {f \in Renamed : Indexed(f)}

\* One task for the save, one for actors added and one for actors removed, all queued
\* after the commit; a broker that fails leaves the rest of them out.
schedule_search_vector_update(f, S) ==
    LET n == 1 + Cardinality({D \in {S \ cast[f], cast[f] \ S} : D # {}}) IN
    \E k \in 0..n :
        /\ waiting[f] + k <= MaxJobs
        /\ waiting' = [waiting EXCEPT ![f] = @ + k]
        /\ behind' = IF k < n THEN behind \cup {f} ELSE behind

\* An editor saves a movie: its texts and its cast in one transaction.
SaveFilm(f, t, S) ==
    /\ text[f] # Gone
    /\ text' = [text EXCEPT ![f] = t]
    /\ cast' = [cast EXCEPT ![f] = S]
    /\ UNCHANGED <<name, vector, indexing>>
    /\ schedule_search_vector_update(f, S)
    /\ NoteRenamed

\* From the actor's side (schedule_on_actors_change), or by the deletion of an actor.
ChangeFromActor(f, S) ==
    /\ text[f] # Gone /\ S # cast[f]
    /\ cast' = [cast EXCEPT ![f] = S]
    /\ UNCHANGED <<text, name, vector, waiting, indexing>>
    /\ behind' = behind \cup {f}
    /\ NoteRenamed

RenameActor(a, n) ==
    /\ n # name[a]
    /\ name' = [name EXCEPT ![a] = n]
    /\ UNCHANGED <<text, cast, vector, waiting, indexing>>
    /\ behind' = behind \cup Renamed
    /\ NoteRenamed

DeleteFilm(f) ==
    /\ text[f] # Gone
    /\ text' = [text EXCEPT ![f] = Gone]
    /\ cast' = [cast EXCEPT ![f] = {}]
    /\ UNCHANGED <<name, vector, waiting, indexing, behind, overtaken>>

-----------------------------------------------------------------------------
(* update_search_vector                                                    *)

ReadFilm(w, f) ==
    /\ indexing[w] = Resting /\ waiting[f] > 0
    /\ waiting' = [waiting EXCEPT ![f] = @ - 1]
    /\ indexing' = IF text[f] = Gone THEN indexing
                   ELSE [indexing EXCEPT ![w] = [film |-> f, text |-> text[f],
                                                 names |-> Names(f)]]
    /\ behind' = behind \ {f}
    /\ overtaken' = IF Indexed(f) THEN overtaken ELSE overtaken \ {f}
    /\ UNCHANGED <<text, cast, name, vector>>

\* Mutant: the texts are those of the row that was loaded.
Vector_Loaded(w) == [text |-> indexing[w].text, names |-> indexing[w].names]

\* The columns are the database's, the names a value.
Vector(w) == [text |-> text[indexing[w].film], names |-> indexing[w].names]

update_search_vector(w) ==
    LET f == indexing[w].film IN
    /\ f # NoFilm
    /\ vector' = IF text[f] = Gone THEN vector ELSE [vector EXCEPT ![f] = Vector(w)]
    /\ indexing' = [indexing EXCEPT ![w] = Resting]
    /\ UNCHANGED <<text, cast, name, waiting, behind, overtaken>>

\* The worker is killed or the database fails: the task is not retried.
LoseIndexing(w) ==
    /\ indexing[w] # Resting
    /\ behind' = behind \cup {indexing[w].film}
    /\ indexing' = [indexing EXCEPT ![w] = Resting]
    /\ UNCHANGED <<text, cast, name, vector, waiting, overtaken>>

-----------------------------------------------------------------------------
IndexNext ==
    \/ \E f \in Film :
         \/ \E t \in Text, S \in SUBSET Player : SaveFilm(f, t, S)
         \/ \E S \in SUBSET Player : ChangeFromActor(f, S)
         \/ DeleteFilm(f)
         \/ \E w \in Indexer : ReadFilm(w, f)
    \/ \E a \in Player, n \in Name : RenameActor(a, n)
    \/ \E w \in Indexer : update_search_vector(w) \/ LoseIndexing(w)

-----------------------------------------------------------------------------
(* Properties                                                              *)

IndexTypeOK ==
    /\ text \in [Film -> Text \cup {Gone}]
    /\ cast \in [Film -> SUBSET Player]
    /\ name \in [Player -> Name]
    /\ vector \in [Film -> [text : Text, names : SUBSET Name]]
    /\ waiting \in [Film -> 0..MaxJobs]
    /\ indexing \in [Indexer -> [film : Film \cup {NoFilm}, text : Text \cup {Gone},
                                 names : SUBSET Name]]
    /\ behind \subseteq Film /\ overtaken \subseteq Film

\* Once no task is waiting or at work, search finds a movie by its present texts, in
\* whatever order its tasks ran, and by the names of its present cast, unless those changed
\* while a task had already read them.  Excepted are changes that queue no task, and tasks
\* that were lost.
IndexIsCurrent ==
    \A f \in Film \ behind :
        text[f] # Gone /\ waiting[f] = 0 /\ ~Indexed(f) =>
            /\ vector[f].text = text[f]
            /\ f \in overtaken \/ vector[f].names = Names(f)
=============================================================================
