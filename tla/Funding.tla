------------------------------ MODULE Funding -------------------------------
(***************************************************************************)
(* Crowdfunded translations (funding/): users put coins into a project,    *)
(* which moves on when its target is reached, sells access once it is      *)
(* released, and gives every contribution back when an admin cancels it.   *)
(*                                                                         *)
(* contribute() and cancel_project() are atomic blocks that lock the       *)
(* project row first, so each is two steps: the lock with everything read  *)
(* under it, and the writes with the commit.  The admin's change page has  *)
(* no lock: it shows the row when it is opened, compares the chosen status *)
(* with the row when it is posted, and then writes every column.           *)
(***************************************************************************)
EXTENDS Integers, FiniteSetsExt

CONSTANTS
    Project,
    Profile,
    Contribution,   \* primary keys of FundingContributor, in creation order
    Request,        \* POSTs to process_funding that may be under way
    Admin,          \* admins who run the "cancel and refund" action
    Page,           \* change pages of a project that may be open
    Target,         \* FundingProject.target_amount
    MinFund,        \* FundingProject.min_fund_amount
    ReleasePrice,   \* FundingProject.post_release_price
    Entered,        \* amounts users type
    Savings,        \* the coins of a user at the start
    Clawed,         \* what a cancelled coin order takes back from its buyer
    NoProject,
    NoProfile

ASSUME FundingAssumption ==
    /\ Contribution \subseteq Nat
    /\ Target \in [Project -> Nat \ {0}]
    /\ MinFund \in [Project -> Nat]
    /\ ReleasePrice \in [Project -> Nat]
    /\ Entered \subseteq Int
    /\ Savings \in Nat
    /\ Clawed \in Nat
    /\ NoProject \notin Project /\ NoProfile \notin Profile
    /\ Request \cap Admin = {}

VARIABLES
    status,      \* FundingProject.status
    collected,   \* FundingProject.collected_amount
    project,     \* FundingContributor.project, NoProject before the row exists
    profile,     \* FundingContributor.profile
    amount,      \* FundingContributor.amount_paid
    refunded,    \* FundingContributor.refunded_at is set
    balance,     \* Profile.balance
    at,          \* per request or admin: the project whose row it has locked
    read,        \* per request or admin: what it has read under that lock
    who,         \* per request: its user
    todo,        \* per admin: selected projects the action has still to visit
    open,        \* per page: the project it shows
    shown,       \* per page: collected_amount as shown
    chosen,      \* per page: the posted status once it has passed clean_status
    against,     \* per page: the status clean_status compared it with
    told,        \* notifications sent: <<user, project, what>>
    net,         \* history: coins a contribution has moved, refunds included
    lost,        \* history: what page saves have taken off collected_amount
    raced        \* history: projects a page cancelled after they were reopened

vars == <<status, collected, project, profile, amount, refunded, balance, at,
          read, who, todo, open, shown, chosen, against, told, net, lost,
          raced>>

rows  == <<project, profile, amount, refunded, net>>
pages == <<open, shown, chosen, against>>
marks == <<lost, raced>>

Status == {"funding", "translating", "released", "canceled"}

\* Contributions of p that were not given back.
Held(p) == {c \in Contribution : project[c] = p /\ ~refunded[c]}

Row(p) == [status |-> status[p], collected |-> collected[p], held |-> Held(p)]

Nothing == [status |-> "funding", collected |-> 0, held |-> {}]

Init ==
    /\ status = [p \in Project |-> "funding"]
    /\ collected = [p \in Project |-> 0]
    /\ project = [c \in Contribution |-> NoProject]
    /\ profile = [c \in Contribution |-> NoProfile]
    /\ amount = [c \in Contribution |-> 0]
    /\ refunded = [c \in Contribution |-> FALSE]
    /\ balance = [u \in Profile |-> Savings]
    /\ at = [w \in Request \cup Admin |-> NoProject]
    /\ read = [w \in Request \cup Admin |-> Nothing]
    /\ who = [r \in Request |-> NoProfile]
    /\ todo = [a \in Admin |-> {}]
    /\ open = [g \in Page |-> NoProject]
    /\ shown = [g \in Page |-> 0]
    /\ chosen = [g \in Page |-> "none"]
    /\ against = [g \in Page |-> "none"]
    /\ told = {}
    /\ net = [c \in Contribution |-> 0]
    /\ lost = [p \in Project |-> 0]
    /\ raced = {}

\* Mutant: the project is read without FOR UPDATE.
Unlocked_NoForUpdate(p) == TRUE

\* select_for_update: nobody else holds the row.
Unlocked(p) == \A w \in Request \cup Admin : at[w] # p

Lock(w, p) ==
    /\ at[w] = NoProject /\ Unlocked(p)
    /\ at' = [at EXCEPT ![w] = p]
    /\ read' = [read EXCEPT ![w] = Row(p)]

Unlock(w) ==
    /\ at' = [at EXCEPT ![w] = NoProject]
    /\ read' = [read EXCEPT ![w] = Nothing]

-----------------------------------------------------------------------------
(* Contributing: process_funding and contribute                            *)

process_funding(r, u, p) ==
    /\ Lock(r, p)
    /\ who' = [who EXCEPT ![r] = u]
    /\ UNCHANGED <<status, collected, rows, balance, todo, pages, told, marks>>

has_access(r) == \E c \in read[r].held : profile[c] = who[r]

\* A released project is sold at its price, once per user; one that still collects
\* takes any amount from its minimum up; the others take nothing.
Accepts(r, a) ==
    \/ read[r].status = "released" /\ ~has_access(r)
    \/ read[r].status = "funding" /\ a >= MinFund[at[r]]

Charged(r, a) == IF read[r].status = "released" THEN ReleasePrice[at[r]] ELSE a

GoalReached(r, a) ==
    /\ read[r].status = "funding"
    /\ read[r].collected + a >= Target[at[r]]

Unused == {c \in Contribution : project[c] = NoProject}

\* The debit (refused for an amount of 0, or when the coins do not suffice), the
\* project, the contribution, and who is told.
contribute(r, a) ==
    LET p == at[r]
        u == who[r]
        paid == Charged(r, a)
        reached == GoalReached(r, a)
    IN
    /\ p # NoProject /\ Accepts(r, a)
    /\ paid > 0 /\ paid <= balance[u]
    /\ balance' = [balance EXCEPT ![u] = @ - paid]
    /\ collected' = [collected EXCEPT ![p] = read[r].collected + paid]
    /\ status' = IF reached THEN [status EXCEPT ![p] = "translating"] ELSE status
    /\ \E c \in Unused :
         /\ \A d \in Unused : c <= d
         /\ project' = [project EXCEPT ![c] = p]
         /\ profile' = [profile EXCEPT ![c] = u]
         /\ amount' = [amount EXCEPT ![c] = paid]
         /\ net' = [net EXCEPT ![c] = -paid]
    /\ told' = IF reached
               THEN told \cup {<<v, p, "goal">> : v \in {u} \cup {profile[c] : c \in Held(p)}}
               ELSE told
    /\ Unlock(r)
    /\ who' = [who EXCEPT ![r] = NoProfile]
    /\ UNCHANGED <<refunded, todo, pages, marks>>

\* A refusal, a failing debit or a killed worker: the block writes nothing.
Refuse(r) ==
    /\ at[r] # NoProject
    /\ Unlock(r)
    /\ who' = [who EXCEPT ![r] = NoProfile]
    /\ UNCHANGED <<status, collected, rows, balance, todo, pages, told, marks>>

-----------------------------------------------------------------------------
(* Cancelling: cancel_and_refund and cancel_project                        *)

cancel_and_refund(a, S) ==
    /\ todo[a] = {} /\ S # {}
    /\ todo' = [todo EXCEPT ![a] = S]
    /\ UNCHANGED <<status, collected, rows, balance, at, read, who, pages, told, marks>>

LockForCancel(a, p) ==
    /\ p \in todo[a]
    /\ Lock(a, p)
    /\ UNCHANGED <<status, collected, rows, balance, who, todo, pages, told, marks>>

\* Released projects are skipped, with a message.
SkipReleased(a) ==
    /\ at[a] # NoProject /\ read[a].status = "released"
    /\ todo' = [todo EXCEPT ![a] = @ \ {at[a]}]
    /\ Unlock(a)
    /\ UNCHANGED <<status, collected, rows, balance, who, pages, told, marks>>

\* Mutant: contributions that were given back before are given back again.
Pending_All(a) == {c \in Contribution : project[c] = at[a]}

Pending(a) == read[a].held

Of(u, S) == {c \in S : profile[c] = u}

\* wallet.credit refuses a credit that leaves the balance below zero.  The newest
\* contribution comes first, and the later ones only add to the balance.
Creditable(S) ==
    \A u \in Profile : \A c \in Of(u, S) :
        (\A d \in Of(u, S) : d <= c) => balance[u] + amount[c] >= 0

\* Every contribution is credited and marked, the project is cancelled, and the
\* contributors are told, in one block.
cancel_project(a) ==
    LET p == at[a]
        S == Pending(a)
    IN
    /\ p # NoProject /\ read[a].status # "released"
    /\ Creditable(S)
    /\ balance' = [u \in Profile |-> balance[u] + MapThenSumSet(LAMBDA c : amount[c], Of(u, S))]
    /\ refunded' = [c \in Contribution |-> refunded[c] \/ c \in S]
    /\ net' = [c \in Contribution |-> IF c \in S THEN net[c] + amount[c] ELSE net[c]]
    /\ status' = [status EXCEPT ![p] = "canceled"]
    /\ told' = told \cup {<<profile[c], p, "canceled">> : c \in S}
    /\ todo' = [todo EXCEPT ![a] = @ \ {p}]
    /\ Unlock(a)
    /\ UNCHANGED <<collected, project, profile, amount, who, pages, marks>>

\* A refused credit is not a FundingError: it undoes the block and leaves the loop.
\* So does a crash.  What the action has cancelled before stays cancelled.
AbortCancel(a) ==
    /\ at[a] # NoProject
    /\ todo' = [todo EXCEPT ![a] = {}]
    /\ Unlock(a)
    /\ UNCHANGED <<status, collected, rows, balance, who, pages, told, marks>>

\* A coin order is cancelled by its provider: the buyer may be left with a debt.
Clawback(u) ==
    /\ balance[u] > 0
    /\ balance' = [balance EXCEPT ![u] = @ - Clawed]
    /\ UNCHANGED <<status, collected, rows, at, read, who, todo, pages, told, marks>>

-----------------------------------------------------------------------------
(* The admin's change page                                                 *)

OpenPage(g, p) ==
    /\ open[g] = NoProject
    /\ open' = [open EXCEPT ![g] = p]
    /\ shown' = [shown EXCEPT ![g] = collected[p]]
    /\ UNCHANGED <<status, collected, rows, balance, at, read, who, todo, chosen,
                   against, told, marks>>

\* Only the action may cancel a project.
MayChoose(old, new) == new = "canceled" => old = "canceled"

clean_status(g, s) ==
    /\ open[g] # NoProject /\ chosen[g] = "none"
    /\ MayChoose(status[open[g]], s)
    /\ chosen' = [chosen EXCEPT ![g] = s]
    /\ against' = [against EXCEPT ![g] = status[open[g]]]
    /\ UNCHANGED <<status, collected, rows, balance, at, read, who, todo, open,
                   shown, told, marks>>

\* Every field of the form is written, which waits for the row lock.
SavePage(g) ==
    LET p == open[g] IN
    /\ chosen[g] # "none" /\ Unlocked(p)
    /\ status' = [status EXCEPT ![p] = chosen[g]]
    /\ collected' = [collected EXCEPT ![p] = shown[g]]
    /\ lost' = [lost EXCEPT ![p] = @ + collected[p] - shown[g]]
    /\ raced' = IF chosen[g] = "canceled" /\ against[g] # status[p]
                THEN raced \cup {p} ELSE raced
    /\ open' = [open EXCEPT ![g] = NoProject]
    /\ shown' = [shown EXCEPT ![g] = 0]
    /\ chosen' = [chosen EXCEPT ![g] = "none"]
    /\ against' = [against EXCEPT ![g] = "none"]
    /\ UNCHANGED <<rows, balance, at, read, who, todo, told>>

-----------------------------------------------------------------------------
Next ==
    \/ \E r \in Request :
         \/ \E u \in Profile, p \in Project : process_funding(r, u, p)
         \/ \E a \in Entered : contribute(r, a)
         \/ Refuse(r)
    \/ \E a \in Admin :
         \/ \E S \in SUBSET Project : cancel_and_refund(a, S)
         \/ \E p \in Project : LockForCancel(a, p)
         \/ SkipReleased(a)
         \/ cancel_project(a)
         \/ AbortCancel(a)
    \/ \E u \in Profile : Clawback(u)
    \/ \E g \in Page :
         \/ \E p \in Project : OpenPage(g, p)
         \/ \E s \in Status : clean_status(g, s)
         \/ SavePage(g)

Spec == Init /\ [][Next]_vars

-----------------------------------------------------------------------------
(* Properties                                                              *)

Reading == [status : Status, collected : Int, held : SUBSET Contribution]

TypeOK ==
    /\ status \in [Project -> Status]
    /\ collected \in [Project -> Int]
    /\ project \in [Contribution -> Project \cup {NoProject}]
    /\ profile \in [Contribution -> Profile \cup {NoProfile}]
    /\ amount \in [Contribution -> Nat]
    /\ refunded \in [Contribution -> BOOLEAN]
    /\ balance \in [Profile -> Int]
    /\ at \in [Request \cup Admin -> Project \cup {NoProject}]
    /\ read \in [Request \cup Admin -> Reading]
    /\ who \in [Request -> Profile \cup {NoProfile}]
    /\ todo \in [Admin -> SUBSET Project]
    /\ open \in [Page -> Project \cup {NoProject}]
    /\ shown \in [Page -> Int]
    /\ chosen \in [Page -> Status \cup {"none"}]
    /\ against \in [Page -> Status \cup {"none"}]
    /\ net \in [Contribution -> Int]
    /\ lost \in [Project -> Int]
    /\ raced \subseteq Project

\* collected_amount is the sum of the contributions, apart from what saves of the
\* change page have overwritten: no two contributions lose one of the two, and no
\* cancellation gets between.
CollectedAccounted ==
    \A p \in Project :
        collected[p] + lost[p] =
            MapThenSumSet(LAMBDA c : amount[c], {c \in Contribution : project[c] = p})

\* A contribution costs its user its amount, and nothing once it is refunded: no
\* order of cancellations, aborted and repeated ones included, gives it back twice.
RefundedOnce ==
    \A c \in Contribution :
        project[c] # NoProject => net[c] = IF refunded[c] THEN 0 ELSE -amount[c]

\* A cancelled project holds no money: whoever contributed before the cancellation has
\* it back, and nobody gets in afterwards.  Excepted is a page whose "canceled" was
\* compared with a row that has been reopened since.
CanceledHoldsNothing ==
    \A p \in Project \ raced : status[p] = "canceled" => Held(p) = {}

\* A cancellation returns what was contributed: everything, and once.
MoneyIsReturned == RefundedOnce /\ CanceledHoldsNothing
=============================================================================
