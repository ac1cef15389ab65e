------------------------------ MODULE Reviews ------------------------------
(***************************************************************************)
(* Comments, their likes, and moderation (drama/views.py, drama/admin.py): *)
(* a user comments and replies, likes and takes the like back, and reports *)
(* a comment; three open reports hide it; a moderator accepts or rejects   *)
(* reports, hides and reopens comments, or edits rows on the admin's forms.*)
(*                                                                         *)
(* No request here is a transaction, apart from the atomic like: a tab or  *)
(* a moderator stands between two statements of its handler (stage), and   *)
(* the process that serves a tab may be killed there.                      *)
(***************************************************************************)
EXTENDS FiniteSets, Integers

CONSTANTS
    User, Tab,   \* users, and their browser tabs
    Owner(_),    \* the user of a tab
    Moderator,
    Review,      \* comments that may be posted
    Disputed,    \* bound: those that are liked, reported and moderated
    Blocks,      \* pairs of users: the first has blocked the second
    AUTO_HIDE_THRESHOLD,
    NoUser, NoReview

ASSUME ReviewsAssumption ==
    /\ \A t \in Tab : Owner(t) \in User
    /\ Blocks \subseteq User \X User
    /\ Disputed \subseteq Review
    /\ AUTO_HIDE_THRESHOLD \in Nat \ {0}
    /\ IsFiniteSet(User) /\ IsFiniteSet(Tab)
    /\ NoUser \notin User /\ NoReview \notin Review
    /\ Tab \cap Moderator = {}

VARIABLES
    author,      \* per comment, NoUser if it is not posted
    parent,      \* per comment, NoReview for a root
    is_hidden,   \* the hidden comments
    like_count,  \* the denormalised number of likes
    reactions,   \* pairs of a user and a comment he likes
    reports,     \* per comment and user: "none" or the status of his report
    answered,        \* replies whose root's author was notified
    stage,          \* per tab or moderator: what its handler does next
    on,          \* per tab or moderator: the comment it is busy with
    saw,         \* per tab: what it read
    picked,      \* per moderator: comments its loop has yet to look at
    edited,      \* history: comments changed by hand
    mishap,      \* history: comments for which a request died
    overtaken    \* history: comments reopened on a check that was out of date

reviewsVars == <<author, parent, is_hidden, like_count, reactions, reports, answered,
                 stage, on, saw, picked, edited, mishap, overtaken>>
rows == <<author, parent, answered>>
history == <<edited, mishap, overtaken>>

Process == Tab \cup Moderator
Posted == {r \in Review : author[r] # NoUser}

ReviewsInit ==
    /\ author = [r \in Review |-> NoUser]
    /\ parent = [r \in Review |-> NoReview]
    /\ is_hidden = {}
    /\ like_count = [r \in Review |-> 0]
    /\ reactions = {}
    /\ reports = [r \in Review |-> [u \in User |-> "none"]]
    /\ answered = {}
    /\ stage = [p \in Process |-> "idle"]
    /\ on = [p \in Process |-> NoReview]
    /\ saw = [t \in Tab |-> FALSE]
    /\ picked = [m \in Moderator |-> {}]
    /\ edited = {} /\ mishap = {} /\ overtaken = {}

-----------------------------------------------------------------------------
(* Posting                                                                 *)

\* A reply to a reply is attached to the root of the thread.
Root(p) == IF parent[p] # NoReview THEN parent[p] ELSE p

\* AddReview: a root (p = NoReview), or a reply to a visible comment whose root's author
\* the user has not blocked; the root's author is told.
AddReview(t, r, p) ==
    LET root == IF p = NoReview THEN NoReview ELSE Root(p) IN
    /\ stage[t] = "idle" /\ r \notin Posted
    /\ p # NoReview => /\ p \in Posted \ is_hidden
                       /\ <<Owner(t), author[root]>> \notin Blocks
    /\ author' = [author EXCEPT ![r] = Owner(t)]
    /\ parent' = [parent EXCEPT ![r] = root]
    /\ answered' = IF p # NoReview /\ author[root] # Owner(t) THEN answered \cup {r} ELSE answered
    /\ UNCHANGED <<is_hidden, like_count, reactions, reports, stage, on, saw, picked, history>>

-----------------------------------------------------------------------------
(* Likes: ToggleReviewLike                                                 *)

Rest(p) == stage' = [stage EXCEPT ![p] = "idle"] /\ on' = [on EXCEPT ![p] = NoReview]

\* The reaction and the count in one transaction; the unique constraint refuses a second
\* reaction, and the request goes on to take the like back.
ToggleReviewLike(t, r) ==
    /\ stage[t] = "idle" /\ r \in Posted \ is_hidden
    /\ \/ /\ <<Owner(t), r>> \notin reactions
          /\ reactions' = reactions \cup {<<Owner(t), r>>}
          /\ like_count' = [like_count EXCEPT ![r] = @ + 1]
          /\ UNCHANGED <<stage, on>>
       \/ /\ <<Owner(t), r>> \in reactions
          /\ stage' = [stage EXCEPT ![t] = "unlike"] /\ on' = [on EXCEPT ![t] = r]
          /\ UNCHANGED <<reactions, like_count>>
    /\ UNCHANGED <<rows, is_hidden, reports, saw, picked, history>>

\* delete() of the reaction, found or not.
Unlike(t) ==
    /\ stage[t] = "unlike"
    /\ reactions' = reactions \ {<<Owner(t), on[t]>>}
    /\ saw' = [saw EXCEPT ![t] = <<Owner(t), on[t]>> \in reactions]
    /\ stage' = [stage EXCEPT ![t] = "lower"]
    /\ UNCHANGED <<rows, is_hidden, like_count, reports, on, picked, history>>

\* Mutant: the count is lowered only if the reaction is there, after it has been deleted.
Lowered_IfLiked(t) ==
    IF <<Owner(t), on[t]>> \in reactions THEN like_count[on[t]] - 1 ELSE like_count[on[t]]

\* update(like_count=F("like_count") - 1) where it is positive.
Lowered(t) == IF like_count[on[t]] > 0 THEN like_count[on[t]] - 1 ELSE 0

Lower(t) ==
    /\ stage[t] = "lower"
    /\ like_count' = [like_count EXCEPT ![on[t]] = Lowered(t)]
    /\ saw' = [saw EXCEPT ![t] = FALSE]
    /\ Rest(t)
    /\ UNCHANGED <<rows, is_hidden, reactions, reports, picked, history>>

-----------------------------------------------------------------------------
(* Reports: report_review                                                  *)

Of(r, status) == {u \in User : reports[r][u] = status}

\* The comment is loaded, hidden or not.
report_review(t, r) ==
    /\ stage[t] = "idle" /\ r \in Posted
    /\ stage' = [stage EXCEPT ![t] = "report"] /\ on' = [on EXCEPT ![t] = r]
    /\ saw' = [saw EXCEPT ![t] = r \in is_hidden]
    /\ UNCHANGED <<rows, is_hidden, like_count, reactions, reports, picked, history>>

\* get_or_create, unique per comment and reporter.
CreateReport(t) ==
    /\ stage[t] = "report"
    /\ \/ /\ reports[on[t]][Owner(t)] = "none"
          /\ reports' = [reports EXCEPT ![on[t]][Owner(t)] = "pending"]
          /\ stage' = [stage EXCEPT ![t] = "count"]
          /\ UNCHANGED <<on, saw>>
       \/ /\ reports[on[t]][Owner(t)] # "none"
          /\ Rest(t) /\ saw' = [saw EXCEPT ![t] = FALSE]
          /\ UNCHANGED reports
    /\ UNCHANGED <<rows, is_hidden, like_count, reactions, picked, history>>

MustHide(t) == ~saw[t] /\ Cardinality(Of(on[t], "pending")) >= AUTO_HIDE_THRESHOLD

CountReports(t) ==
    /\ stage[t] = "count"
    /\ saw' = [saw EXCEPT ![t] = FALSE]
    /\ \/ MustHide(t) /\ stage' = [stage EXCEPT ![t] = "hide"] /\ UNCHANGED on
       \/ ~MustHide(t) /\ Rest(t)
    /\ UNCHANGED <<rows, is_hidden, like_count, reactions, reports, picked, history>>

Hide(t) ==
    /\ stage[t] = "hide"
    /\ is_hidden' = is_hidden \cup {on[t]}
    /\ Rest(t)
    /\ UNCHANGED <<rows, like_count, reactions, reports, saw, picked, history>>

\* The process that serves the request is killed between two of its statements.
Die(t) ==
    /\ stage[t] # "idle"
    /\ mishap' = mishap \cup {on[t]}
    /\ saw' = [saw EXCEPT ![t] = FALSE]
    /\ Rest(t)
    /\ UNCHANGED <<rows, is_hidden, like_count, reactions, reports, picked, edited, overtaken>>

-----------------------------------------------------------------------------
(* Moderation                                                              *)

About(R) == {r \in Review : \E u \in User : <<r, u>> \in R}

Resolved(R, status) ==
    [r \in Review |-> [u \in User |->
        IF <<r, u>> \in R /\ reports[r][u] = "pending" THEN status ELSE reports[r][u]]]

\* The selection of the queue: some reports, on a page that may be filtered by status.
Selection ==
    (SUBSET {s \in Review \X User : reports[s[1]][s[2]] # "none"}) \ {{}}

\* Accept: the comments of the selected reports are hidden ...
accept_and_hide(m, R) ==
    /\ stage[m] = "idle"
    /\ is_hidden' = is_hidden \cup About(R)
    /\ picked' = [picked EXCEPT ![m] = About(R)]
    /\ stage' = [stage EXCEPT ![m] = "close"]
    /\ UNCHANGED <<rows, like_count, reactions, reports, on, saw, history>>

\* ... and all that is pending against them is accepted.
CloseReports(m) ==
    /\ stage[m] = "close"
    /\ reports' = Resolved(picked[m] \X User, "accepted")
    /\ picked' = [picked EXCEPT ![m] = {}]
    /\ stage' = [stage EXCEPT ![m] = "idle"]
    /\ UNCHANGED <<rows, is_hidden, like_count, reactions, on, saw, history>>

\* Reject: the pending ones among the selected reports.  The selection is evaluated again
\* for the comments to look at: on a page filtered by "pending" it has become empty.
reject_reports(m, R, filtered) ==
    /\ stage[m] = "idle"
    /\ filtered => \A s \in R : reports[s[1]][s[2]] = "pending"
    /\ reports' = Resolved(R, "rejected")
    /\ picked' = [picked EXCEPT ![m] = IF filtered THEN {} ELSE About(R) \cap is_hidden]
    /\ stage' = [stage EXCEPT ![m] = IF picked'[m] = {} THEN "idle" ELSE "reopen"]
    /\ UNCHANGED <<rows, is_hidden, like_count, reactions, on, saw, history>>

\* Mutant: an accepted report no longer stands against its comment.
Standing_Pending(r) == Of(r, "pending")

Standing(r) == Of(r, "pending") \cup Of(r, "accepted")

\* The loop: one comment that no report stands against ...
CheckReopen(m, r) ==
    /\ stage[m] = "reopen" /\ on[m] = NoReview /\ r \in picked[m]
    /\ picked' = [picked EXCEPT ![m] = @ \ {r}]
    /\ \/ Standing(r) = {} /\ on' = [on EXCEPT ![m] = r] /\ UNCHANGED stage
       \/ /\ Standing(r) # {}
          /\ stage' = [stage EXCEPT ![m] = IF picked[m] = {r} THEN "idle" ELSE "reopen"]
          /\ UNCHANGED on
    /\ UNCHANGED <<rows, is_hidden, like_count, reactions, reports, saw, history>>

\* Requests that found r hidden and rely on it: a report that will not hide it again, and
\* an acceptance that has yet to close the reports.
Relying(r) ==
    {t \in Tab : stage[t] \in {"report", "count"} /\ on[t] = r /\ saw[t]}
        \cup {n \in Moderator : stage[n] = "close" /\ r \in picked[n]}

\* ... is reopened, whatever has happened to it since.
Reopen(m) ==
    LET r == on[m] IN
    /\ stage[m] = "reopen" /\ r # NoReview
    /\ is_hidden' = is_hidden \ {r}
    /\ overtaken' = IF Standing(r) \cup Relying(r) # {} THEN overtaken \cup {r} ELSE overtaken
    /\ on' = [on EXCEPT ![m] = NoReview]
    /\ stage' = [stage EXCEPT ![m] = IF picked[m] = {} THEN "idle" ELSE "reopen"]
    /\ UNCHANGED <<rows, like_count, reactions, reports, saw, picked, edited, mishap>>

hide_reviews(m, R) ==
    /\ stage[m] = "idle"
    /\ is_hidden' = is_hidden \cup R
    /\ UNCHANGED <<rows, like_count, reactions, reports, stage, on, saw, picked, history>>

unhide_reviews(m, R) ==
    /\ stage[m] = "idle"
    /\ is_hidden' = is_hidden \ R
    /\ edited' = edited \cup R
    /\ UNCHANGED <<rows, like_count, reactions, reports, stage, on, saw, picked, mishap,
                   overtaken>>

\* The change page of a comment saves its flag, and with it the count as the page was
\* loaded: any number it may have been.
SaveForm(m, r, flag, count) ==
    /\ stage[m] = "idle"
    /\ is_hidden' = IF flag THEN is_hidden \cup {r} ELSE is_hidden \ {r}
    /\ like_count' = [like_count EXCEPT ![r] = count]
    /\ edited' = edited \cup {r}
    /\ UNCHANGED <<rows, reactions, reports, stage, on, saw, picked, mishap,
                   overtaken>>

\* The change page of a report saves its status and nothing else.
SaveReport(m, r, u, status) ==
    /\ stage[m] = "idle" /\ reports[r][u] # "none"
    /\ reports' = [reports EXCEPT ![r][u] = status]
    /\ edited' = edited \cup {r}
    /\ UNCHANGED <<rows, is_hidden, like_count, reactions, stage, on, saw, picked, mishap,
                   overtaken>>

-----------------------------------------------------------------------------
Handle(t) ==
    \/ \E r \in Review, p \in Review \cup {NoReview} : AddReview(t, r, p)
    \/ \E r \in Disputed : ToggleReviewLike(t, r) \/ report_review(t, r)
    \/ Unlike(t) \/ Lower(t)
    \/ CreateReport(t) \/ CountReports(t) \/ Hide(t)
    \/ Die(t)

Moderate(m) ==
    \/ \E R \in Selection : \/ accept_and_hide(m, R)
                            \/ \E filtered \in BOOLEAN : reject_reports(m, R, filtered)
    \/ CloseReports(m) \/ Reopen(m)
    \/ \E r \in Posted \cap Disputed :
                         \/ CheckReopen(m, r)
                         \/ hide_reviews(m, {r}) \/ unhide_reviews(m, {r})
                         \/ \E flag \in BOOLEAN, n \in 0..Cardinality(User) : SaveForm(m, r, flag, n)
    \/ \E r \in Review, u \in User, s \in {"pending", "accepted", "rejected"} :
           SaveReport(m, r, u, s)

ReviewsNext == (\E t \in Tab : Handle(t)) \/ (\E m \in Moderator : Moderate(m))

ReviewsSpec == ReviewsInit /\ [][ReviewsNext]_reviewsVars

-----------------------------------------------------------------------------
(* Properties                                                              *)

ReviewsTypeOK ==
    /\ author \in [Review -> User \cup {NoUser}]
    /\ parent \in [Review -> Review \cup {NoReview}]
    /\ is_hidden \subseteq Review
    /\ like_count \in [Review -> Nat]
    /\ reactions \subseteq User \X Review
    /\ reports \in [Review -> [User -> {"none", "pending", "accepted", "rejected"}]]
    /\ answered \subseteq Review
    /\ stage \in [Process -> {"idle", "unlike", "lower", "report", "count", "hide", "close",
                           "reopen"}]
    /\ on \in [Process -> Review \cup {NoReview}]
    /\ saw \in [Tab -> BOOLEAN]
    /\ picked \in [Moderator -> SUBSET Review]
    /\ edited \cup mishap \cup overtaken \subseteq Review

\* The count shown never exceeds the likes there are, apart from those being taken back
\* at this moment, whatever two tabs of one user do at once; it may fall short.  Comments
\* an editor has saved, and requests that were killed, are excepted.
LikesNotOverstated ==
    \A r \in Review \ (edited \cup mishap) :
        like_count[r] <= Cardinality({u \in User : <<u, r>> \in reactions})
                       + Cardinality({t \in Tab : stage[t] = "lower" /\ on[t] = r /\ saw[t]})

\* What the comments of a movie are shown to be: hidden ones are left out, and so are the
\* replies to them.
MovieReviewsView == {r \in Posted \ is_hidden : parent[r] \notin is_hidden}

\* What nothing but the requests' own interleaving has happened to.
Regular == Review \ (edited \cup mishap \cup overtaken)

\* A comment with an accepted report is not shown ...
AcceptedIsHidden ==
    \A r \in MovieReviewsView \cap Regular : Of(r, "accepted") = {}

\* ... nor is one with as many open reports as the threshold, by the time their requests
\* are answered, however these were interleaved.
ThresholdHides ==
    \A r \in MovieReviewsView \cap Regular :
        (\A p \in Process : on[p] # r) => Cardinality(Of(r, "pending")) < AUTO_HIDE_THRESHOLD

\* No comment is shown that moderation has found, or its readers think, should not be,
\* however reports, acceptances and rejections interleave, but for one race: a rejection
\* that has checked a comment reopens it although a report or an acceptance has come in
\* between, and these find it hidden and do not hide it again.  Such a comment stays shown
\* (overtaken); so may one that an editor reopens by hand, or whose report's request is
\* killed before it has counted.
HiddenWhenDue == AcceptedIsHidden /\ ThresholdHides
=============================================================================
