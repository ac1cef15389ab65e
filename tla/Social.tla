------------------------------- MODULE Social -------------------------------
(***************************************************************************)
(* Who follows and who has blocked whom, and the notifications of the      *)
(* cabinet (users/views.py, users/services/notifications.py).  A follow    *)
(* checks, adds and notifies in three statements; a request that dies in   *)
(* between leaves what it has written.                                     *)
(***************************************************************************)
EXTENDS Site

CONSTANTS
    Member,   \* users, with those who have no tab
    MaxFollows \* bound: how often one member begins to follow another

ASSUME SocialAssumption == User \subseteq Member /\ MaxFollows \in Nat

VARIABLES
    follows,     \* Profile.following: pairs of follower and followed
    blocks,      \* UserBlock: pairs of blocker and blocked
    notes,       \* Notification rows of kind "follow"
    asking,      \* follow requests that have looked whether the follow is there
    begun,       \* history: how often a pair has come into follows
    untold,      \* history: how often its request then died without a notification
    interleaved  \* history: pairs two requests were busy with at the same time

socialVars == <<follows, blocks, notes, asking, begun, untold, interleaved>>

Pair == Member \X Member
NotesOf(p) == {n \in notes : n.from = p[1] /\ n.to = p[2]}

SocialInit ==
    /\ follows = {} /\ blocks = {} /\ notes = {} /\ asking = {} /\ interleaved = {}
    /\ begun = [p \in Pair |-> 0]
    /\ untold = [p \in Pair |-> 0]

-----------------------------------------------------------------------------
(* Following                                                               *)

\* Mutant: a repeated POST is not told from the first.
Already_Never(p) == FALSE

Already(p) == p \in follows

\* Nobody follows himself.  The follow is looked up first, so that a repeated POST does
\* not notify again.
follow_user(t, v) ==
    LET p == <<Owner(t), v>> IN
    /\ v # Owner(t) /\ ~\E a \in asking : a.tab = t
    /\ begun[p] < MaxFollows /\ Cardinality(NotesOf(p)) < MaxFollows
    /\ asking' = asking \cup {[tab |-> t, pair |-> p, already |-> Already(p), done |-> FALSE]}
    /\ interleaved' = IF \E a \in asking : a.pair = p THEN interleaved \cup {p} ELSE interleaved
    /\ UNCHANGED <<follows, blocks, notes, begun, untold>>

\* following.add: a pair that is there stays.
follow(a) ==
    /\ ~a.done
    /\ follows' = follows \cup {a.pair}
    /\ begun' = IF a.pair \in follows THEN begun ELSE [begun EXCEPT ![a.pair] = @ + 1]
    /\ asking' = (asking \ {a}) \cup {[a EXCEPT !.done = TRUE]}
    /\ UNCHANGED <<blocks, notes, untold, interleaved>>

notify(a) ==
    /\ a.done
    /\ notes' = IF a.already THEN notes
                ELSE notes \cup {[from |-> a.pair[1], to |-> a.pair[2], is_read |-> FALSE,
                                  id |-> Cardinality(NotesOf(a.pair)) + 1]}
    /\ asking' = asking \ {a}
    /\ UNCHANGED <<follows, blocks, begun, untold, interleaved>>

Abort(a) ==
    /\ asking' = asking \ {a}
    /\ untold' = IF a.done /\ ~a.already THEN [untold EXCEPT ![a.pair] = @ + 1] ELSE untold
    /\ UNCHANGED <<follows, blocks, notes, begun, interleaved>>

unfollow_user(t, v) ==
    LET p == <<Owner(t), v>> IN
    /\ follows' = follows \ {p}
    /\ interleaved' = IF \E a \in asking : a.pair = p THEN interleaved \cup {p} ELSE interleaved
    /\ UNCHANGED <<blocks, notes, asking, begun, untold>>

-----------------------------------------------------------------------------
(* Blocks are silent, and leave the follows alone                          *)

block_add(t, v) ==
    /\ v # Owner(t)
    /\ blocks' = blocks \cup {<<Owner(t), v>>}
    /\ UNCHANGED <<follows, notes, asking, begun, untold, interleaved>>

block_remove(t, v) ==
    /\ blocks' = blocks \ {<<Owner(t), v>>}
    /\ UNCHANGED <<follows, notes, asking, begun, untold, interleaved>>

-----------------------------------------------------------------------------
(* The cabinet: a member opens one of his own notifications, or all        *)

Read(some) == notes' = {IF n \in some THEN [n EXCEPT !.is_read = TRUE] ELSE n : n \in notes}

mark_notification_read(u, n) ==
    /\ n.to = u /\ Read({n})
    /\ UNCHANGED <<follows, blocks, asking, begun, untold, interleaved>>

mark_all_notifications_read(u) ==
    /\ Read({n \in notes : n.to = u})
    /\ UNCHANGED <<follows, blocks, asking, begun, untold, interleaved>>

SocialNext ==
    \/ \E t \in Tab, v \in Member : \/ follow_user(t, v) \/ unfollow_user(t, v)
                                    \/ block_add(t, v) \/ block_remove(t, v)
    \/ \E a \in asking : follow(a) \/ notify(a) \/ Abort(a)
    \/ \E u \in Member : \/ \E n \in notes : mark_notification_read(u, n)
                         \/ mark_all_notifications_read(u)

-----------------------------------------------------------------------------
(* Properties                                                              *)

SocialTypeOK ==
    /\ follows \subseteq Pair /\ blocks \subseteq Pair /\ interleaved \subseteq Pair
    /\ notes \subseteq [from : Member, to : Member, is_read : BOOLEAN, id : Nat]
    /\ asking \subseteq [tab : Tab, pair : Pair, already : BOOLEAN, done : BOOLEAN]
    /\ begun \in [Pair -> Nat] /\ untold \in [Pair -> Nat]

\* A member gets exactly one notification each time another begins to follow him, also when
\* the POST is repeated, the follow taken back and begun anew, or read notifications lie in
\* between; only a request that died owes one, and two requests at once are not answered for.
FollowersAreTold ==
    \A p \in Pair \ interleaved :
        Cardinality(NotesOf(p)) + untold[p]
            + Cardinality({a \in asking : a.pair = p /\ a.done /\ ~a.already}) = begun[p]
=============================================================================
