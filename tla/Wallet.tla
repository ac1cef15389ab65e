------------------------------- MODULE Wallet -------------------------------
(***************************************************************************)
(* users/services/wallet.py under concurrent database transactions, down   *)
(* to the row lock on Profile that _apply takes (SELECT ... FOR UPDATE).   *)
(*                                                                         *)
(* A Client is a web request, webhook or Celery task that has opened a     *)
(* transaction.atomic() block and calls credit() / debit() in it: a gift,  *)
(* a purchase and a payment callback make one call, cancel_project one per *)
(* contributor.  What a client writes stays invisible to the others until  *)
(* it commits, and its row locks are held until then.                      *)
(*                                                                         *)
(* An Editor is a request that saves a whole Profile row through a model   *)
(* form (settings_view, the ProfileInline of the user admin): it reads the *)
(* row without a lock when the request starts and writes back every column *)
(* at the end, the balance it has read included.                           *)
(***************************************************************************)
EXTENDS Integers

CONSTANTS
    Profile,      \* profile rows
    Client,       \* concurrent atomic blocks that move coins
    Editor,       \* concurrent whole-row saves of a profile form
    Amount,       \* the amounts callers pass
    NoClient,     \* the row is not locked
    NoProfile,    \* no row is wanted, or edited
    MaxCalls,     \* bound: wallet calls made inside one atomic block
    MaxBalance    \* bound: no call starts on a profile beyond +-MaxBalance

ASSUME WalletAssumption ==
    /\ Amount \subseteq Nat \ {0}
    /\ NoClient \notin Client
    /\ NoProfile \notin Profile
    /\ MaxCalls \in Nat \ {0}
    /\ MaxBalance \in Nat

VARIABLES
    balance,   \* Profile.balance, committed
    ledger,    \* SUM(CoinTransaction.amount) of the profile, committed
    holder,    \* the client that holds the row lock of the profile
    view,      \* Profile.balance as the lock holder sees it
    posted,    \* SUM of the CoinTransaction rows the lock holder has inserted
    forced,    \* the lock holder has debited the profile with allow_negative
    open,      \* clients inside an atomic block
    wants,     \* per client: the row its current wallet call has to lock
    delta,     \* per client: the signed amount of that call
    force,     \* per client: the allow_negative of that call
    calls,     \* per client: wallet calls made in the current block
    editing,   \* per editor: the row loaded into its form
    seen,      \* per editor: the balance in that form
    lost       \* history: per profile, what form saves have taken off its balance

vars == <<balance, ledger, holder, view, posted, forced, open, wants, delta,
          force, calls, editing, seen, lost>>

committed == <<balance, ledger>>
locks     == <<holder, view, posted, forced>>
forms     == <<editing, seen, lost>>

Init ==
    /\ balance = [p \in Profile |-> 0]
    /\ ledger = [p \in Profile |-> 0]
    /\ holder = [p \in Profile |-> NoClient]
    /\ view = [p \in Profile |-> 0]
    /\ posted = [p \in Profile |-> 0]
    /\ forced = [p \in Profile |-> FALSE]
    /\ open = {}
    /\ wants = [c \in Client |-> NoProfile]
    /\ delta = [c \in Client |-> 0]
    /\ force = [c \in Client |-> FALSE]
    /\ calls = [c \in Client |-> 0]
    /\ editing = [e \in Editor |-> NoProfile]
    /\ seen = [e \in Editor |-> 0]
    /\ lost = [p \in Profile |-> 0]

-----------------------------------------------------------------------------
(* The wallet calls of an atomic block                                     *)

Begin(c) ==
    /\ c \notin open
    /\ open' = open \cup {c}
    /\ UNCHANGED <<committed, locks, wants, delta, force, calls, forms>>

\* credit() and debit() hand a signed amount to _apply.
Request(c, p, d, allowNegative) ==
    /\ c \in open /\ wants[c] = NoProfile
    /\ calls[c] < MaxCalls
    /\ {balance[p], ledger[p]} \subseteq -MaxBalance..MaxBalance
    /\ wants' = [wants EXCEPT ![c] = p]
    /\ delta' = [delta EXCEPT ![c] = d]
    /\ force' = [force EXCEPT ![c] = allowNegative]
    /\ calls' = [calls EXCEPT ![c] = @ + 1]
    /\ UNCHANGED <<committed, locks, open, forms>>

Credit(c, p) == \E a \in Amount : Request(c, p, a, FALSE)

Debit(c, p) == \E a \in Amount, f \in BOOLEAN : Request(c, p, -a, f)

\* The call returns to its block.
Return(c) ==
    /\ wants' = [wants EXCEPT ![c] = NoProfile]
    /\ delta' = [delta EXCEPT ![c] = 0]
    /\ force' = [force EXCEPT ![c] = FALSE]

\* Mutant: the row is read without FOR UPDATE.
CanLock_NoForUpdate(c, p) == TRUE

\* SELECT ... FOR UPDATE: the row is free, or this block already holds it.
CanLock(c, p) == holder[p] \in {NoClient, c}

\* The row as select_for_update().get() returns it to c.
LockedBalance(c, p) == IF holder[p] = c THEN view[p] ELSE balance[p]

\* Mutant: the check uses the balance the row had before this block.
Insufficient_Committed(c) ==
    /\ balance[wants[c]] + delta[c] < 0
    /\ ~force[c]

Insufficient(c) ==
    /\ LockedBalance(c, wants[c]) + delta[c] < 0
    /\ ~force[c]

\* _apply: lock the row, write the new balance, insert the ledger row.
Apply(c) ==
    LET p == wants[c] IN
    /\ p # NoProfile /\ CanLock(c, p)
    /\ ~Insufficient(c)
    /\ view' = [view EXCEPT ![p] = LockedBalance(c, p) + delta[c]]
    /\ posted' = [posted EXCEPT ![p] = @ + delta[c]]
    /\ forced' = [forced EXCEPT ![p] = @ \/ force[c]]
    /\ holder' = [holder EXCEPT ![p] = c]
    /\ Return(c)
    /\ UNCHANGED <<committed, open, calls, forms>>

\* _apply raises InsufficientFundsError.  Its own atomic block rolls back to the
\* savepoint, which gives back a lock taken since; the caller may catch it.
Refuse(c) ==
    LET p == wants[c] IN
    /\ p # NoProfile /\ CanLock(c, p)
    /\ Insufficient(c)
    /\ Return(c)
    /\ UNCHANGED <<committed, locks, open, calls, forms>>

-----------------------------------------------------------------------------
(* The end of an atomic block                                              *)

\* Release the row locks and forget what the block had in memory.
Release(c) ==
    /\ holder' = [p \in Profile |-> IF holder[p] = c THEN NoClient ELSE holder[p]]
    /\ view' = [p \in Profile |-> IF holder[p] = c THEN 0 ELSE view[p]]
    /\ posted' = [p \in Profile |-> IF holder[p] = c THEN 0 ELSE posted[p]]
    /\ forced' = [p \in Profile |-> forced[p] /\ holder[p] # c]
    /\ open' = open \ {c}
    /\ calls' = [calls EXCEPT ![c] = 0]
    /\ Return(c)

\* Mutant: the ledger rows are not written in the block of the balance.
Commit_BalanceOnly(c) ==
    /\ c \in open /\ wants[c] = NoProfile
    /\ balance' = [p \in Profile |-> IF holder[p] = c THEN view[p] ELSE balance[p]]
    /\ ledger' = ledger
    /\ Release(c)
    /\ UNCHANGED forms

Commit(c) ==
    /\ c \in open /\ wants[c] = NoProfile
    /\ balance' = [p \in Profile |-> IF holder[p] = c THEN view[p] ELSE balance[p]]
    /\ ledger' = [p \in Profile |->
                    IF holder[p] = c THEN ledger[p] + posted[p] ELSE ledger[p]]
    /\ Release(c)
    /\ UNCHANGED forms

\* Mutant: the connection goes back to the pool with its transaction open.
Rollback_KeepsLocks(c) ==
    /\ c \in open /\ wants[c] = NoProfile
    /\ open' = open \ {c}
    /\ calls' = [calls EXCEPT ![c] = 0]
    /\ UNCHANGED <<committed, locks, wants, delta, force, forms>>

\* An exception leaves the block: ValueError for an amount <= 0, an
\* InsufficientFundsError nobody catches, a failure of the caller's own writes
\* after the coins moved, a crash of the worker.
Rollback(c) ==
    /\ c \in open /\ wants[c] = NoProfile
    /\ Release(c)
    /\ UNCHANGED <<committed, forms>>

\* Clients each of which waits for a row another of them holds.
Deadlocked(S) ==
    \A c \in S : wants[c] # NoProfile /\ holder[wants[c]] \in S \ {c}

\* PostgreSQL's deadlock detector aborts one of them.
DeadlockAbort(c) ==
    /\ \E S \in SUBSET Client : c \in S /\ Deadlocked(S)
    /\ Release(c)
    /\ UNCHANGED <<committed, forms>>

-----------------------------------------------------------------------------
(* Whole-row saves of a profile                                            *)

LoadForm(e, p) ==
    /\ editing[e] = NoProfile
    /\ editing' = [editing EXCEPT ![e] = p]
    /\ seen' = [seen EXCEPT ![e] = balance[p]]
    /\ UNCHANGED <<committed, locks, open, wants, delta, force, calls, lost>>

\* p_form.save(): UPDATE of every column, which waits for the row lock.
SaveForm(e) ==
    LET p == editing[e] IN
    /\ p # NoProfile /\ holder[p] = NoClient
    /\ balance' = [balance EXCEPT ![p] = seen[e]]
    /\ lost' = [lost EXCEPT ![p] = @ + balance[p] - seen[e]]
    /\ editing' = [editing EXCEPT ![e] = NoProfile]
    /\ seen' = [seen EXCEPT ![e] = 0]
    /\ UNCHANGED <<ledger, locks, open, wants, delta, force, calls>>

-----------------------------------------------------------------------------
ClientStep(c) ==
    \/ Begin(c)
    \/ \E p \in Profile : Credit(c, p) \/ Debit(c, p)
    \/ Apply(c)
    \/ Refuse(c)
    \/ Commit(c)
    \/ Rollback(c)
    \/ DeadlockAbort(c)

EditorStep(e) ==
    \/ \E p \in Profile : LoadForm(e, p)
    \/ SaveForm(e)

Next ==
    \/ \E c \in Client : ClientStep(c)
    \/ \E e \in Editor : EditorStep(e)

Spec == Init /\ [][Next]_vars

\* The code of a block runs to its end, the database grants a lock that keeps
\* becoming free, and its detector breaks every cycle.  Nobody has to start a
\* block, make a call or submit a form.
Fairness ==
    /\ \A c \in Client : WF_vars(Commit(c) \/ Rollback(c))
    /\ \A c \in Client : SF_vars(Apply(c) \/ Refuse(c))
    /\ WF_vars(\E c \in Client : DeadlockAbort(c))

FairSpec == Spec /\ Fairness

-----------------------------------------------------------------------------
(* Properties                                                              *)

TypeOK ==
    /\ balance \in [Profile -> Int]
    /\ ledger \in [Profile -> Int]
    /\ holder \in [Profile -> Client \cup {NoClient}]
    /\ view \in [Profile -> Int]
    /\ posted \in [Profile -> Int]
    /\ forced \in [Profile -> BOOLEAN]
    /\ open \subseteq Client
    /\ wants \in [Client -> Profile \cup {NoProfile}]
    /\ delta \in [Client -> Int]
    /\ force \in [Client -> BOOLEAN]
    /\ calls \in [Client -> 0..MaxCalls]
    /\ editing \in [Editor -> Profile \cup {NoProfile}]
    /\ seen \in [Editor -> Int]
    /\ lost \in [Profile -> Int]

\* No lost update between wallet calls: while a block holds a profile row, the
\* balance it will write is the committed balance plus exactly the ledger rows it
\* has inserted, whatever other blocks and profile forms do meanwhile.
Isolation ==
    \A p \in Profile : holder[p] # NoClient => view[p] = balance[p] + posted[p]

\* The invariant at the top of wallet.py: the balance column is the sum of the
\* profile's ledger rows.
BalanceIsLedger == \A p \in Profile : balance[p] = ledger[p]

\* What is left of it when profile forms are saved as well: they are the only way
\* in which the balance and the ledger come apart; no interleaving of credits,
\* debits, refusals and rollbacks loses or creates a coin.
CoinsAccounted == \A p \in Profile : balance[p] + lost[p] = ledger[p]

\* No double spend: a committed balance falls below zero only in a block that
\* debited that profile with allow_negative (a refund), never because two spenders
\* were both told that the coins were there.  Form saves aside.
NoOverdraft ==
    [][\A p \in Profile :
         balance'[p] < 0 /\ balance'[p] < balance[p] /\ lost'[p] = lost[p] =>
             forced[p]]_vars

\* Every atomic block ends, also when two of them lock the same profiles in
\* opposite orders (two projects cancelled at the same time).
EveryBlockEnds == \A c \in Client : c \in open ~> c \notin open

\* The wallet implements the ledger its callers rely on, what form saves have taken
\* off a balance being added again.
Promised == INSTANCE Ledger WITH balance <- [p \in Profile |-> balance[p] + lost[p]]
ImplementsLedger == Promised!Spec
=============================================================================
