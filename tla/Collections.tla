---------------------------- MODULE Collections ----------------------------
(***************************************************************************)
(* Collections (users/views.py, users/models.py): ordered lists of movies  *)
(* that a user may publish.  The item list of a collection's page is kept  *)
(* in the cache under the collection's updated_at, which every change of   *)
(* the items must therefore move (_touch_collection); the change and the   *)
(* touch are two statements, and so are the counts before an insert.       *)
(***************************************************************************)
EXTENDS Site, SequencesExt

CONSTANTS
    Collection,
    Holder,        \* the user a collection belongs to
    MAX_ITEMS,
    MaxUpdates,    \* bound: the times a collection is touched
    NoCollection,
    Absent         \* what an empty slot of the cache returns

ASSUME CollectionsAssumption ==
    /\ Holder \in [Collection -> User]
    /\ MAX_ITEMS \in Nat \ {0} /\ MaxUpdates \in Nat
    /\ NoCollection \notin Collection

VARIABLES
    sort,        \* per collection: "none", "private", "public" or "deleted"
    items,       \* its CollectionItems in order of id: <<movie, position>>
    updated,     \* Collection.updated_at
    fragment,    \* the cached item list of a page, per collection and updated_at
    catalog,     \* movies there are
    visible,     \* those that are published
    act,         \* per tab: its request, the collection, and what it has read
    unsure       \* history: collections whose items changed without a touch to come

collectionVars == <<sort, items, updated, fragment, catalog, visible, act, unsure>>

NoRequest == [step |-> "idle", on |-> NoCollection, movie |-> {}, read |-> <<>>, at |-> 0]

CollectionsInit ==
    /\ sort = [c \in Collection |-> "none"]
    /\ items = [c \in Collection |-> <<>>]
    /\ updated = [c \in Collection |-> 0]
    /\ fragment = [c \in Collection |-> [n \in 0..MaxUpdates |-> Absent]]
    /\ catalog = Movie /\ visible = Movie
    /\ act = [t \in Tab |-> NoRequest]
    /\ unsure = {}

Living(c) == sort[c] \in {"private", "public"}
Mine(t, c) == Living(c) /\ Holder[c] = Owner(t)

Titles(s) == {s[i][1] : i \in DOMAIN s}

\* Meta.ordering: by position, then by id.
Sorted(s) ==
    LET rank == SetToSortSeq(DOMAIN s, LAMBDA i, j :
                    s[i][2] < s[j][2] \/ (s[i][2] = s[j][2] /\ i < j))
    IN  [n \in DOMAIN s |-> s[rank[n]]]

\* What collection_detail shows: the published items in order.
Listed(s, public) == SelectSeq([n \in DOMAIN s |-> Sorted(s)[n][1]],
                               LAMBDA m : m \in public)
Shown(c) == Listed(items[c], Titles(items[c]) \cap visible)

Begin(t, c, step, m, read) ==
    act' = [act EXCEPT ![t] =
              [step |-> step, on |-> c, movie |-> m, read |-> read, at |-> updated[c]]]

End(t) == act' = [act EXCEPT ![t] = NoRequest]

\* Mutant: auto_now is trusted to move updated_at.
Changed_Untouched(t) == End(t)

\* The request has changed items, and touches the collection next.
Changed(t) == act' = [act EXCEPT ![t].step = "touch"]

Awaited(c) == \E t \in Tab : act[t].step = "touch" /\ act[t].on = c

-----------------------------------------------------------------------------
(* The owner's requests                                                    *)

\* Creating one, and saving its form (auto_now moves updated_at).
my_collections(t, c) ==
    /\ sort[c] = "none" /\ Holder[c] = Owner(t)
    /\ sort' = [sort EXCEPT ![c] = "private"]
    /\ UNCHANGED <<items, updated, fragment, catalog, visible, act, unsure>>

collection_edit(t, c, s) ==
    /\ Mine(t, c) /\ updated[c] < MaxUpdates
    /\ sort' = [sort EXCEPT ![c] = s]
    /\ updated' = [updated EXCEPT ![c] = @ + 1]
    /\ unsure' = unsure \ {c}
    /\ UNCHANGED <<items, fragment, catalog, visible, act>>

collection_delete(t, c) ==
    /\ Mine(t, c)
    /\ sort' = [sort EXCEPT ![c] = "deleted"]
    /\ items' = [items EXCEPT ![c] = <<>>]
    /\ UNCHANGED <<updated, fragment, catalog, visible, act, unsure>>

collection_add(t, c, m) ==
    /\ act[t].step = "idle" /\ Mine(t, c)
    /\ Len(items[c]) < MAX_ITEMS /\ m \in visible
    /\ Begin(t, c, "add", {m}, items[c])
    /\ UNCHANGED <<sort, items, updated, fragment, catalog, visible, unsure>>

\* get_or_create: the position is the number of items counted before, and one.  Of a movie
\* that has been deleted since, the database takes no item.
InsertItem(t) ==
    LET c == act[t].on IN
    /\ act[t].step = "add" /\ Living(c)
    /\ \E m \in act[t].movie :
         IF m \in Titles(items[c]) \/ m \notin catalog THEN items' = items /\ End(t)
         ELSE /\ items' = [items EXCEPT ![c] = Append(@, <<m, Len(act[t].read) + 1>>)]
              /\ Changed(t)
    /\ UNCHANGED <<sort, updated, fragment, catalog, visible, unsure>>

collection_item_remove(t, c, m) ==
    /\ act[t].step = "idle" /\ Mine(t, c) /\ m \in Titles(items[c])
    /\ items' = [items EXCEPT ![c] = SelectSeq(@, LAMBDA i : i[1] # m)]
    /\ act' = [act EXCEPT ![t] = [NoRequest EXCEPT !.step = "touch", !.on = c]]
    /\ UNCHANGED <<sort, updated, fragment, catalog, visible, unsure>>

Swapped(s, i, j) == [s EXCEPT ![i] = s[j], ![j] = s[i]]

\* The list is loaded in order, the item and its neighbour change places.
collection_item_move(t, c, i, j) ==
    LET loaded == Sorted(items[c]) IN
    /\ act[t].step = "idle" /\ Mine(t, c)
    /\ {i, j} \subseteq DOMAIN loaded
    /\ Begin(t, c, "move", {}, Swapped(loaded, i, j))
    /\ UNCHANGED <<sort, items, updated, fragment, catalog, visible, unsure>>

\* bulk_update renumbers the loaded items that still exist.
Renumber(t) ==
    LET c == act[t].on
        order == act[t].read
        Place(i) == CHOOSE n \in DOMAIN order : order[n][1] = i[1]
    IN
    /\ act[t].step = "move"
    /\ items' = [items EXCEPT ![c] =
                   [n \in DOMAIN @ |-> IF @[n][1] \in Titles(order)
                                       THEN <<@[n][1], Place(@[n])>> ELSE @[n]]]
    /\ Changed(t)
    /\ UNCHANGED <<sort, updated, fragment, catalog, visible, unsure>>

_touch_collection(t) ==
    LET c == act[t].on IN
    /\ act[t].step = "touch" /\ updated[c] < MaxUpdates
    /\ updated' = [updated EXCEPT ![c] = @ + 1]
    /\ unsure' = unsure \ {c}
    /\ End(t)
    /\ UNCHANGED <<sort, items, fragment, catalog, visible>>

\* The worker dies: what it had changed stays, untouched.
DieEditing(t) ==
    /\ act[t].step # "idle"
    /\ unsure' = IF act[t].step = "touch" THEN unsure \cup {act[t].on} ELSE unsure
    /\ End(t)
    /\ UNCHANGED <<sort, items, updated, fragment, catalog, visible>>

-----------------------------------------------------------------------------
(* The page, and what changes behind it                                    *)

\* The collection is read first: a private one is a 404 to others than its owner.
collection_detail(t, c) ==
    /\ act[t].step = "idle"
    /\ sort[c] = "public" \/ Mine(t, c)
    /\ Begin(t, c, "view", {}, <<>>)
    /\ UNCHANGED <<sort, items, updated, fragment, catalog, visible, unsure>>

ReadItems(t) ==
    /\ act[t].step = "view"
    /\ act' = [act EXCEPT ![t].step = "render", ![t].read = Shown(act[t].on)]
    /\ UNCHANGED <<sort, items, updated, fragment, catalog, visible, unsure>>

\* {% cache 600 %}: the list is rendered and stored if the key is absent.
Render(t) ==
    LET c == act[t].on
        n == act[t].at
    IN
    /\ act[t].step = "render"
    /\ fragment' = IF fragment[c][n] = Absent
                   THEN [fragment EXCEPT ![c][n] = act[t].read] ELSE fragment
    /\ End(t)
    /\ UNCHANGED <<sort, items, updated, catalog, visible, unsure>>

ExpireFragment(c, n) ==
    /\ fragment[c][n] # Absent
    /\ fragment' = [fragment EXCEPT ![c][n] = Absent]
    /\ UNCHANGED <<sort, items, updated, catalog, visible, act, unsure>>

\* A movie is published or taken down, which touches no collection.
Publish(m) ==
    /\ m \in catalog
    /\ visible' = IF m \in visible THEN visible \ {m} ELSE visible \cup {m}
    /\ unsure' = unsure \cup {c \in Collection : m \in Titles(items[c])}
    /\ UNCHANGED <<sort, items, updated, fragment, catalog, act>>

\* An editor deletes a movie, and with it every item that lists it; that touches no
\* collection either.
DeleteMovie(m) ==
    /\ m \in catalog
    /\ catalog' = catalog \ {m} /\ visible' = visible \ {m}
    /\ items' = [c \in Collection |-> IF m \in Titles(items[c])
                                      THEN SelectSeq(items[c], LAMBDA i : i[1] # m)
                                      ELSE items[c]]
    /\ unsure' = unsure \cup {c \in Collection : m \in Titles(items[c])}
    /\ UNCHANGED <<sort, updated, fragment, act>>

-----------------------------------------------------------------------------
CollectionsNext ==
    \/ \E t \in Tab :
         \/ \E c \in Collection :
              \/ my_collections(t, c)
              \/ \E s \in {"private", "public"} : collection_edit(t, c, s)
              \/ collection_delete(t, c)
              \/ \E m \in Movie : collection_add(t, c, m)
              \/ \E m \in Movie : collection_item_remove(t, c, m)
              \/ \E i \in DOMAIN items[c] : collection_item_move(t, c, i, i + 1)
              \/ collection_detail(t, c)
         \/ InsertItem(t)
         \/ Renumber(t)
         \/ _touch_collection(t)
         \/ DieEditing(t)
         \/ ReadItems(t)
         \/ Render(t)
    \/ \E c \in Collection, n \in 0..MaxUpdates : ExpireFragment(c, n)
    \/ \E m \in Movie : Publish(m) \/ DeleteMovie(m)

-----------------------------------------------------------------------------
(* Properties                                                              *)

CollectionsTypeOK ==
    /\ sort \in [Collection -> {"none", "private", "public", "deleted"}]
    /\ \A c \in Collection : items[c] \in Seq(Movie \X Nat)
    /\ updated \in [Collection -> 0..MaxUpdates]
    /\ visible \subseteq catalog /\ catalog \subseteq Movie /\ unsure \subseteq Collection
    /\ \A t \in Tab :
         act[t].step \in {"idle", "add", "move", "touch", "view", "render"}

\* The item list that the cache holds under a collection's updated_at is its list, or a
\* request is about to touch it: every request of the owner that changes the items moves
\* the key, after the change, and no page that was being rendered meanwhile is stored
\* under the new one.  Excepted until the next touch are collections whose owner's
\* request died between change and touch, and those that list a movie which was
\* published, withdrawn or deleted: none of these moves the key.
PageIsCurrent ==
    \A c \in Collection :
        Living(c) => \/ fragment[c][updated[c]] \in {Absent, Shown(c)}
                     \/ Awaited(c) \/ c \in unsure
=============================================================================
