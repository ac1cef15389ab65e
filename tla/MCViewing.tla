----------------------------- MODULE MCViewing -----------------------------
(***************************************************************************)
(* Instances of Lists, Gifts, Watching, Pictures and Social for TLC.  They *)
(* share no variable, so one run checks them side by side: part says which *)
(* of them moves.                                                          *)
(***************************************************************************)
EXTENDS Lists, Gifts, Watching, Pictures, Social, TLC

CONSTANTS u1, u2, t1, t2, m1, m2, rose, crown, thistle

VARIABLE part

MCOwner(t) == u1
MCPrice(g) == CASE g = rose -> 1 [] g = crown -> 2 [] g = thistle -> 0
MCHosted == {<<m1, 1>>, <<m1, 2>>, <<m1, 3>>}

Init ==
    /\ ListsInit /\ GiftsInit /\ WatchingInit /\ PicturesInit
    /\ SocialInit
    /\ part \in {"lists", "gifts", "watching", "pictures", "social"}

Next ==
    /\ UNCHANGED part
    /\ \/ part = "lists" /\ ListsNext
          /\ UNCHANGED <<giftsVars, watchingVars, picturesVars, socialVars>>
       \/ part = "gifts" /\ GiftsNext
          /\ UNCHANGED <<listsVars, watchingVars, picturesVars, socialVars>>
       \/ part = "watching" /\ WatchingNext
          /\ UNCHANGED <<listsVars, giftsVars, picturesVars, socialVars>>
       \/ part = "pictures" /\ PicturesNext
          /\ UNCHANGED <<listsVars, giftsVars, watchingVars, socialVars>>
       \/ part = "social" /\ SocialNext
          /\ UNCHANGED <<listsVars, giftsVars, watchingVars, picturesVars>>

vars == <<listsVars, giftsVars, watchingVars, picturesVars, socialVars, part>>
Spec == Init /\ [][Next]_vars

\* What is behind a second unsettled rating, a cut queue, a third award, a twice
\* overwritten one, a spoilt picture, a name stored twice or a lost default avatar is
\* not looked at; behind an unsettled rating, neither awards nor profile forms; ratings
\* are recomputed of one movie at a time.  Of pictures, one row gets all the uploads,
\* imports and avatars are looked at apart, and two imports with the photos of the
\* actors they share.
Undisturbed ==
    /\ unqueued = {} /\ Cardinality(unsettled) <= 1
    /\ unsettled # {} => profiled = {} /\ \A u \in User : earned[u] = 0
    /\ Cardinality({m \in Movie : jobs[m] > 0 \/ \E w \in Worker : working[w] = m}) <= 1
    /\ \A u \in User : earned[u] <= 2 /\ lost[u] <= 1
    /\ \A a \in Actor : overwritten[a] \in -1..1
    /\ spoilt = {} /\ reused = {} /\ Default \notin deleted
    /\ LET edited == {r \in Row : chosen[r] # {}} \cup {e.row : e \in editing}
           known == {m \in Movie : there[m] # "no"}
           uploaded == UNION {given[r] : r \in Row}
           edits == Cardinality(editing) + Cardinality(uploaded) IN
          /\ Cardinality(edited) <= 1 /\ edits <= 2
          /\ known # {} =>
                /\ edited \cap User = {} /\ (uploaded # {} => edited # {})
                /\ \A u \in User : picture[u] = Default /\ shrinks[u] = 0 /\ ~Busy(u)
                /\ edited = {} \/ (Cardinality(known) <= 1 /\ edits <= 1)
          /\ Cardinality(known) = 2 =>
                \A w \in Optimizer : doing[w].job = "shrink" => doing[w].row \in Cast

Alike == Permutations(Optimizer) \cup Permutations(Picture) \cup Permutations(Tab)
=============================================================================
