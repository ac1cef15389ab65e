---------------------------- MODULE CatalogCache ----------------------------
(***************************************************************************)
(* The catalogue cache (drama/cache.py): what is derived from the          *)
(* catalogue is cached under keys that carry a version, and a change of    *)
(* the catalogue moves the version on, so that everything cached before is *)
(* out of sight at once.                                                   *)
(*                                                                         *)
(* The catalogue is the number of changes committed so far, and a cached   *)
(* value is the catalogue it was computed from; 0 is "not cached" and      *)
(* "no version".  Changes come in two ways: a model is saved in a          *)
(* transaction, and the post_save signal bumps the version before the      *)
(* commit (drama/signals.py); or rows are updated in bulk, which commits   *)
(* at once and bumps afterwards (publishing, webhook, image task).         *)
(***************************************************************************)
EXTENDS Integers

CONSTANTS
    Name,        \* cached lists: genres, facets, similar:<pk>, ...
    Recomputed,  \* those that a Celery task writes as well: trending movies and tags
    Reader,      \* requests that read a cached list
    Task,        \* recompute tasks
    Saver,       \* transactions that save a model
    Updater,     \* bulk updates
    NoName,
    MaxCatalog,  \* bound: changes of the catalogue
    MaxVersion   \* bound: versions

ASSUME CatalogCacheAssumption ==
    /\ Recomputed \subseteq Name
    /\ NoName \notin Name
    /\ Reader \cap Task = {}
    /\ MaxCatalog \in Nat \ {0}
    /\ MaxVersion \in Nat \ {0, 1}

VARIABLES
    catalog,    \* the committed catalogue
    version,    \* the key catalog:ver
    cache,      \* per list and version: the catalogue it was computed from
    reading,    \* per reader: the list it found missing
    key,        \* per reader: the version in the key it looked under
    fetched,    \* per reader or task: the catalogue it has computed from
    writing,    \* per task: the list it computes
    saver,      \* per saver: "idle", "open", "retrying", "bumped"
    updater,    \* per updater: "idle", "updated", "retrying"
    began,      \* history: per version, the committed catalogue when it began
    rewound     \* history: the version key was lost or set back

vars == <<catalog, version, cache, reading, key, fetched, writing, saver, updater,
          began, rewound>>

Version == 1..MaxVersion

Init ==
    /\ catalog = 1
    /\ version = 0
    /\ cache = [n \in Name |-> [v \in Version |-> 0]]
    /\ reading = [r \in Reader |-> NoName]
    /\ key = [r \in Reader |-> 0]
    /\ fetched = [p \in Reader \cup Task |-> 0]
    /\ writing = [t \in Task |-> NoName]
    /\ saver = [s \in Saver |-> "idle"]
    /\ updater = [u \in Updater |-> "idle"]
    /\ began = [v \in Version |-> 0]
    /\ rewound = FALSE

-----------------------------------------------------------------------------
(* The version                                                             *)

\* catalog_version: a missing key is added with 1.
catalog_version == IF version = 0 THEN 1 ELSE version

Bumped == version + 1

\* bump_catalog_version: incr.
Bump ==
    /\ version # 0 /\ Bumped <= MaxVersion
    /\ version' = Bumped
    /\ began' = [began EXCEPT ![Bumped] = catalog]
    /\ UNCHANGED rewound

\* The key is missing: incr fails, and the version is set to 2 in a second call.
BumpMissing ==
    /\ version' = 2
    /\ began' = [began EXCEPT ![2] = catalog]
    /\ rewound' = (rewound \/ version > 1)

\* The cache is cleared, or evicts the key of the version.
LoseVersion ==
    /\ version # 0
    /\ version' = 0
    /\ rewound' = TRUE
    /\ UNCHANGED <<catalog, cache, reading, key, fetched, writing, saver, updater, began>>

-----------------------------------------------------------------------------
(* Reading: get_or_set_catalog                                             *)

\* The key is made, and the value is served if it is there.
Look(r, n) ==
    /\ reading[r] = NoName
    /\ version' = catalog_version
    /\ IF cache[n][catalog_version] # 0
       THEN UNCHANGED <<reading, key>>
       ELSE /\ reading' = [reading EXCEPT ![r] = n]
            /\ key' = [key EXCEPT ![r] = catalog_version]
    /\ UNCHANGED <<catalog, cache, fetched, writing, saver, updater, began, rewound>>

Produce(r) ==
    /\ reading[r] # NoName /\ fetched[r] = 0
    /\ fetched' = [fetched EXCEPT ![r] = catalog]
    /\ UNCHANGED <<catalog, version, cache, reading, key, writing, saver, updater,
                   began, rewound>>

\* Mutant: the key is made again when the value is stored.
StoreKey_Current(r) == catalog_version

StoreKey(r) == key[r]

Store(r) ==
    /\ fetched[r] # 0
    /\ cache' = [cache EXCEPT ![reading[r]][StoreKey(r)] = fetched[r]]
    /\ reading' = [reading EXCEPT ![r] = NoName]
    /\ key' = [key EXCEPT ![r] = 0]
    /\ fetched' = [fetched EXCEPT ![r] = 0]
    /\ UNCHANGED <<catalog, version, writing, saver, updater, began, rewound>>

\* recompute_trending_movies, recompute_trending_tags: the value first, then the key.
Compute(t, n) ==
    /\ writing[t] = NoName
    /\ writing' = [writing EXCEPT ![t] = n]
    /\ fetched' = [fetched EXCEPT ![t] = catalog]
    /\ UNCHANGED <<catalog, version, cache, reading, key, saver, updater, began, rewound>>

StoreComputed(t) ==
    /\ writing[t] # NoName
    /\ version' = catalog_version
    /\ cache' = [cache EXCEPT ![writing[t]][catalog_version] = fetched[t]]
    /\ writing' = [writing EXCEPT ![t] = NoName]
    /\ fetched' = [fetched EXCEPT ![t] = 0]
    /\ UNCHANGED <<catalog, reading, key, saver, updater, began, rewound>>

\* Mutant: values are stored without a timeout.
MayExpire_Never(n, v) == FALSE

\* Every value has a timeout (6 or 24 hours).
MayExpire(n, v) == cache[n][v] # 0

Expire(n, v) ==
    /\ MayExpire(n, v)
    /\ cache' = [cache EXCEPT ![n][v] = 0]
    /\ UNCHANGED <<catalog, version, reading, key, fetched, writing, saver, updater,
                   began, rewound>>

-----------------------------------------------------------------------------
(* Changing the catalogue                                                  *)

Change == catalog < MaxCatalog /\ catalog' = catalog + 1

\* A transaction saves a Movie, Episode, Season, Genre, Category, Tag or TopSlider, or
\* changes a movie's tags or genres: the signal bumps the version inside it.
BeginSave(s) ==
    /\ saver[s] = "idle" /\ catalog < MaxCatalog
    /\ saver' = [saver EXCEPT ![s] = "open"]
    /\ UNCHANGED <<catalog, version, cache, reading, key, fetched, writing, updater,
                   began, rewound>>

invalidate_catalog_cache(s) ==
    /\ \/ saver[s] = "open" /\ Bump /\ saver' = [saver EXCEPT ![s] = "bumped"]
       \/ /\ saver[s] = "open" /\ version = 0
          /\ saver' = [saver EXCEPT ![s] = "retrying"]
          /\ UNCHANGED <<version, began, rewound>>
       \/ saver[s] = "retrying" /\ BumpMissing /\ saver' = [saver EXCEPT ![s] = "bumped"]
    /\ UNCHANGED <<catalog, cache, reading, key, fetched, writing, updater>>

CommitSave(s) ==
    /\ saver[s] = "bumped" /\ Change
    /\ saver' = [saver EXCEPT ![s] = "idle"]
    /\ UNCHANGED <<version, cache, reading, key, fetched, writing, updater, began, rewound>>

RollBack(s) ==
    /\ saver[s] # "idle"
    /\ saver' = [saver EXCEPT ![s] = "idle"]
    /\ UNCHANGED <<catalog, version, cache, reading, key, fetched, writing, updater,
                   began, rewound>>

\* queryset.update(), which calls no signal, and the bump by hand.
Update(u) ==
    /\ updater[u] = "idle" /\ Change
    /\ updater' = [updater EXCEPT ![u] = "updated"]
    /\ UNCHANGED <<version, cache, reading, key, fetched, writing, saver, began, rewound>>

BumpByHand(u) ==
    /\ \/ updater[u] = "updated" /\ Bump /\ updater' = [updater EXCEPT ![u] = "idle"]
       \/ /\ updater[u] = "updated" /\ version = 0
          /\ updater' = [updater EXCEPT ![u] = "retrying"]
          /\ UNCHANGED <<version, began, rewound>>
       \/ updater[u] = "retrying" /\ BumpMissing /\ updater' = [updater EXCEPT ![u] = "idle"]
    /\ UNCHANGED <<catalog, cache, reading, key, fetched, writing, saver>>

\* The worker or the cache dies between the two: nobody bumps for this change.
CrashUpdate(u) ==
    /\ updater[u] # "idle"
    /\ updater' = [updater EXCEPT ![u] = "idle"]
    /\ UNCHANGED <<catalog, version, cache, reading, key, fetched, writing, saver,
                   began, rewound>>

-----------------------------------------------------------------------------
Next ==
    \/ LoseVersion
    \/ \E r \in Reader : (\E n \in Name : Look(r, n)) \/ Produce(r) \/ Store(r)
    \/ \E t \in Task : (\E n \in Recomputed : Compute(t, n)) \/ StoreComputed(t)
    \/ \E n \in Name, v \in Version : Expire(n, v)
    \/ \E s \in Saver : BeginSave(s) \/ invalidate_catalog_cache(s) \/ CommitSave(s) \/ RollBack(s)
    \/ \E u \in Updater : Update(u) \/ BumpByHand(u) \/ CrashUpdate(u)

Spec == Init /\ [][Next]_vars

\* A request or task that has begun goes on, a transaction ends, and timeouts run out.
\* Nobody has to read or to change anything.
Fairness ==
    /\ \A r \in Reader : WF_vars(Produce(r) \/ Store(r))
    /\ \A t \in Task : WF_vars(StoreComputed(t))
    /\ \A n \in Name, v \in Version : WF_vars(Expire(n, v))
    /\ \A s \in Saver : WF_vars(RollBack(s))

FairSpec == Spec /\ Fairness

-----------------------------------------------------------------------------
(* Properties                                                              *)

\* What a reader can be served was computed from a catalogue at least as new as the one
\* of the latest bump: once a bulk update and its bump are through, no slow producer
\* brings the old lists back.  Excepted are the lists the tasks write, and a version key
\* that was lost.
FreshSinceBump ==
    ~rewound /\ version # 0 =>
        \A n \in Name \ Recomputed :
            cache[n][version] # 0 => cache[n][version] >= began[version]

\* A reader's answer is stale only while the change it misses has not been followed by a
\* bump; once changes stop, every list becomes current for good, the lists of the tasks,
\* bumps before the commit, forgotten bumps and a lost version key included.
EventuallyCurrent ==
    <>[](\A n \in Name, v \in Version : cache[n][v] \in {0, catalog})
=============================================================================
