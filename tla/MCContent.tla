----------------------------- MODULE MCContent -----------------------------
(***************************************************************************)
(* Instances of Videos and Reviews for TLC.  They share no variable: part  *)
(* says which of them moves.                                               *)
(***************************************************************************)
EXTENDS Videos, Reviews, TLC

CONSTANTS u1, u2, t1, t2, t3

VARIABLE part

\* u1 has two tabs open.
MCOwner(t) == IF t = t3 THEN u2 ELSE u1
MCBlocks == {<<u2, u1>>}

Init == VideosInit /\ ReviewsInit /\ part \in {"videos", "reviews"}

Next ==
    /\ UNCHANGED part
    /\ \/ part = "videos" /\ VideosNext /\ UNCHANGED reviewsVars
       \/ part = "reviews" /\ ReviewsNext /\ UNCHANGED videosVars

Spec == Init /\ [][Next]_<<videosVars, reviewsVars, part>>

\* No property says anything of a comment that was edited, overtaken or had a mishap,
\* nor of an episode that was forgotten: those states are checked but not continued.  Forms
\* are open while the movie is public; an episode that was crossed is followed on while the
\* movie is public, when its followers may be told, and no form is open.
Undisturbed ==
    /\ part = "reviews" => movie = "draft"
    /\ edited \cup mishap \cup overtaken = {}
    /\ forgotten = {}
    /\ crossed # {} => movie = "published"
    /\ crossed # {} \/ movie # "published" => \A a \in Editor : page[a] = NoPage

\* The tabs of one user are alike.
Symmetry ==
    Permutations(Guid) \cup Permutations(File) \cup Permutations(Worker)
        \cup Permutations({t1, t2})
=============================================================================
