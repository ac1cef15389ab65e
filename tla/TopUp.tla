------------------------------- MODULE TopUp --------------------------------
(***************************************************************************)
(* Manual top-ups: a user pays outside the site, uploads the receipt, and  *)
(* an admin approves the request (users/models.py, users/admin.py).  The   *)
(* coins move in save() of TopUpRequest and CryptoTopUpRequest, which      *)
(* compares the status it is about to write with the one it reads from the *)
(* database, without a lock.                                               *)
(*                                                                         *)
(* The "approve" action of the admin's list runs outside a transaction:    *)
(* the list is read once, and for every row the old status is read, the    *)
(* wallet commits, and the row is saved.  The admin's change page runs in  *)
(* one transaction, whose writes appear together when it commits; its      *)
(* reads do not wait for anybody.                                          *)
(***************************************************************************)
EXTENDS Integers

CONSTANTS
    Request,     \* requests of both tables
    User,
    Admin,       \* admin requests that may be under way at the same time
    UserOf,
    Method,      \* "uzs": TopUpRequest, "usdt": CryptoTopUpRequest
    Amount,      \* what was paid, in UZS or in hundredths of a USDT
    NoRequest,
    MaxMoves     \* bound: coin movements of one request

ASSUME TopUpAssumption ==
    /\ UserOf \in [Request -> User]
    /\ Method \in [Request -> {"uzs", "usdt"}]
    /\ Amount \in [Request -> Nat]
    /\ NoRequest \notin Request
    /\ MaxMoves \in Nat

VARIABLES
    status,      \* status of the row, "none" before it exists
    checked,     \* requests whose POST has found no pending one, not yet saved
    net,         \* SUM(CoinTransaction.amount) with reference "topup:<pk>"
    moves,       \* history: coin movements of the request
    queue,       \* per admin: rows the approve action has listed
    at,          \* per admin: the row being saved
    old,         \* per admin: its status as save() has read it
    target,      \* per admin: the status to write
    phase,       \* per admin: how far save() has got
    raced,       \* history: rows somebody else wrote during a save
    drift,       \* history: per row, approvals that credited and were never saved,
                 \*          less those that were saved and credited nothing
    crowded      \* history: rows of users who submitted twice at once, or had one reopened

vars == <<status, checked, net, moves, queue, at, old, target,
          phase, raced, drift, crowded>>

coins     == <<net, moves>>
jobs      == <<queue, at, old, target, phase>>
mishaps   == <<raced, drift, crowded>>

Init ==
    /\ status = [r \in Request |-> "none"]
    /\ checked = {}
    /\ net = [r \in Request |-> 0]
    /\ moves = [r \in Request |-> 0]
    /\ queue = [a \in Admin |-> {}]
    /\ at = [a \in Admin |-> NoRequest]
    /\ old = [a \in Admin |-> "none"]
    /\ target = [a \in Admin |-> "none"]
    /\ phase = [a \in Admin |-> "idle"]
    /\ raced = {}
    /\ drift = [r \in Request |-> 0]
    /\ crowded = {}

\* The history of a row is kept until its saves overlap.
Drift(r, n) == IF r \in raced THEN drift ELSE [drift EXCEPT ![r] = @ + n]

-----------------------------------------------------------------------------
(* Submitting a request: topup_view and crypto_topup_view                  *)

\* Rows of the same user in the same table.
Siblings(r) == {q \in Request : UserOf[q] = UserOf[r] /\ Method[q] = Method[r]}

Pending(r) == status[r] = "pending"

\* Mutant: the view does not look for a pending request.
NonePending_Unchecked(r) == TRUE

NonePending(r) == \A q \in Siblings(r) : ~Pending(q)

CheckSubmit(r) ==
    /\ status[r] = "none" /\ r \notin checked
    /\ NonePending(r)
    /\ checked' = checked \cup {r}
    /\ crowded' = IF Siblings(r) \cap checked # {}
                  THEN crowded \cup Siblings(r) ELSE crowded
    /\ UNCHANGED <<status, coins, jobs, raced, drift>>

Submit(r) ==
    /\ r \in checked
    /\ checked' = checked \ {r}
    /\ status' = [status EXCEPT ![r] = "pending"]
    /\ UNCHANGED <<coins, jobs, mishaps>>

\* The "add" page of the admin takes any status, and a new row moves no coins.  (A
\* pending one is submitted like a user's: clean() looks for another one first.)
AdminAdd(r, s) ==
    /\ status[r] = "none" /\ r \notin checked
    /\ status' = [status EXCEPT ![r] = s]
    /\ drift' = Drift(r, IF s = "approved" THEN -1 ELSE 0)
    /\ UNCHANGED <<checked, coins, jobs, raced, crowded>>

-----------------------------------------------------------------------------
(* The coins of a save                                                     *)

points_uzs(amount) == amount \div 1000

\* int(float(amount_usdt) * 12)
points_usdt(cents) == (cents * 12) \div 100

points(r) == IF Method[r] = "uzs" THEN points_uzs(Amount[r])
                                  ELSE points_usdt(Amount[r])

Credits(o, t) == o = "pending" /\ t = "approved"

\* Mutant: only a rejection takes the coins back.
Debits_RejectedOnly(o, t) == o = "approved" /\ t = "rejected"

Debits(o, t) == o = "approved" /\ t \in {"pending", "rejected"}

Transfer(r, n) ==
    /\ points(r) > 0 /\ moves[r] < MaxMoves
    /\ net' = [net EXCEPT ![r] = @ + n]
    /\ moves' = [moves EXCEPT ![r] = @ + 1]

\* wallet.credit and wallet.debit do not accept 0.  A credit may also be refused
\* because of a debt the user has made elsewhere; that, too, ends in Die.
MoveCoins(r, o, t) ==
    \/ /\ Credits(o, t)
       /\ Transfer(r, points(r))
    \/ /\ Debits(o, t)
       /\ Transfer(r, -points(r))
    \/ /\ ~Credits(o, t) /\ ~Debits(o, t)
       /\ UNCHANGED coins

-----------------------------------------------------------------------------
(* Saving a row                                                            *)

Saving(a, r) == at[a] = r /\ phase[a] # "idle"

\* Somebody writes r while others are saving it.
Races(a, r) == \E b \in Admin \ {a} : Saving(b, r)

\* a has credited r and not saved it yet.
Credited(a, r) == at[a] = r /\ phase[a] = "moved" /\ Credits(old[a], target[a])

\* super().save(): the row gets the status the admin chose, whatever it is by now.
Write(a, r, o, t) ==
    /\ status' = [status EXCEPT ![r] = t]
    /\ drift' = Drift(r, IF o = "rejected" /\ t = "approved" THEN -1 ELSE 0)
    /\ crowded' = IF t = "pending" THEN crowded \cup Siblings(r) ELSE crowded
    /\ at' = [at EXCEPT ![a] = NoRequest]
    /\ old' = [old EXCEPT ![a] = "none"]
    /\ target' = [target EXCEPT ![a] = "none"]

\* save() reads the old status.
Read(a, r, t) ==
    /\ at' = [at EXCEPT ![a] = r]
    /\ old' = [old EXCEPT ![a] = status[r]]
    /\ target' = [target EXCEPT ![a] = t]
    /\ raced' = IF Races(a, r) THEN raced \cup {r} ELSE raced

\* approve_requests: the list of the selected rows that are pending.
ListPending(a, S) ==
    /\ phase[a] = "idle"
    /\ S # {} /\ \A r \in S : Pending(r)
    /\ queue' = [queue EXCEPT ![a] = S]
    /\ phase' = [phase EXCEPT ![a] = "listed"]
    /\ UNCHANGED <<status, checked, coins, at, old, target, mishaps>>

ApproveRead(a, r) ==
    /\ phase[a] = "listed" /\ r \in queue[a]
    /\ Read(a, r, "approved")
    /\ queue' = [queue EXCEPT ![a] = @ \ {r}]
    /\ phase' = [phase EXCEPT ![a] = "read"]
    /\ UNCHANGED <<status, checked, coins, drift, crowded>>

\* The wallet commits on its own.
ApproveMove(a) ==
    /\ phase[a] = "read"
    /\ MoveCoins(at[a], old[a], target[a])
    /\ phase' = [phase EXCEPT ![a] = "moved"]
    /\ UNCHANGED <<status, checked, queue, at, old, target, mishaps>>

ApproveSave(a) ==
    /\ phase[a] = "moved"
    /\ Write(a, at[a], old[a], target[a])
    /\ phase' = [phase EXCEPT ![a] = IF queue[a] = {} THEN "idle" ELSE "listed"]
    /\ UNCHANGED <<checked, coins, queue, raced>>

\* The change page, in a transaction: it reads, and later commits everything.
FormRead(a, r, t) ==
    /\ phase[a] = "idle"
    /\ status[r] # "none"
    /\ Read(a, r, t)
    /\ phase' = [phase EXCEPT ![a] = "form"]
    /\ UNCHANGED <<status, checked, coins, queue, drift, crowded>>

FormCommit(a) ==
    /\ phase[a] = "form"
    /\ MoveCoins(at[a], old[a], target[a])
    /\ Write(a, at[a], old[a], target[a])
    /\ phase' = [phase EXCEPT ![a] = "idle"]
    /\ UNCHANGED <<checked, queue, raced>>

\* An exception or a crash: a refused credit, an unreachable broker, a killed
\* worker.  The rest of the list is not visited.
Die(a) ==
    /\ phase[a] # "idle"
    /\ drift' = IF Credited(a, at[a]) THEN Drift(at[a], 1) ELSE drift
    /\ queue' = [queue EXCEPT ![a] = {}]
    /\ at' = [at EXCEPT ![a] = NoRequest]
    /\ old' = [old EXCEPT ![a] = "none"]
    /\ target' = [target EXCEPT ![a] = "none"]
    /\ phase' = [phase EXCEPT ![a] = "idle"]
    /\ UNCHANGED <<status, checked, coins, raced, crowded>>

-----------------------------------------------------------------------------
(* Bulk updates                                                            *)

\* One UPDATE of the rows in S that are pending; save() is not called.
RejectPending(S) ==
    LET hit == {r \in S : Pending(r)} IN
    /\ hit # {}
    /\ status' = [r \in Request |-> IF r \in hit THEN "rejected" ELSE status[r]]
    /\ raced' = raced \cup {r \in hit : \E a \in Admin : Saving(a, r)}
    /\ UNCHANGED <<checked, coins, jobs, drift, crowded>>

\* The action on the rows an admin has selected, the nightly task on those older
\* than seven days.
reject_requests == \E S \in SUBSET Request : RejectPending(S)

-----------------------------------------------------------------------------
Approve(a) ==
    \/ \E S \in SUBSET Request : ListPending(a, S)
    \/ \E r \in Request : ApproveRead(a, r)
    \/ ApproveMove(a)
    \/ ApproveSave(a)

ChangePage(a) ==
    \/ \E r \in Request, t \in {"pending", "approved", "rejected"} : FormRead(a, r, t)
    \/ FormCommit(a)

Next ==
    \/ \E r \in Request :
         \/ CheckSubmit(r)
         \/ Submit(r)
         \/ \E s \in {"approved", "rejected"} : AdminAdd(r, s)
    \/ \E a \in Admin : Approve(a) \/ ChangePage(a) \/ Die(a)
    \/ reject_requests

Spec == Init /\ [][Next]_vars

-----------------------------------------------------------------------------
(* Properties                                                              *)

Status == {"none", "pending", "approved", "rejected"}

TypeOK ==
    /\ status \in [Request -> Status]
    /\ checked \subseteq Request
    /\ net \in [Request -> Int]
    /\ moves \in [Request -> 0..MaxMoves]
    /\ queue \in [Admin -> SUBSET Request]
    /\ at \in [Admin -> Request \cup {NoRequest}]
    /\ old \in [Admin -> Status]
    /\ target \in [Admin -> Status]
    /\ phase \in [Admin -> {"idle", "listed", "read", "moved", "form"}]
    /\ raced \subseteq Request
    /\ drift \in [Request -> Int]
    /\ crowded \subseteq Request

One(b) == IF b THEN 1 ELSE 0

\* How many times the points of r should have been given.
Owed(r) == One(status[r] = "approved") + drift[r] + One(\E a \in Admin : Credited(a, r))

\* The coins given for a request are its points while it is approved and nothing
\* otherwise, as long as no two saves of it overlap - except exactly for approvals
\* that ended between the commit of the coins and that of the row, and approvals of
\* a row that was not pending, which no later change of status makes up for.
NetIsExplained == \A r \in Request \ raced : net[r] = points(r) * Owed(r)

\* A user has at most one pending request in each table, unless two submissions
\* overlapped or an admin reopened one.
OnePending ==
    \A r \in Request \ crowded : Pending(r) =>
        \A q \in Siblings(r) \ {r} : ~Pending(q)
=============================================================================
