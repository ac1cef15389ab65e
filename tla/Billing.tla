------------------------------ MODULE Billing -------------------------------
(***************************************************************************)
(* Coin orders and the callbacks of the two payment providers that settle  *)
(* them: billing/services.py, billing/providers/payme.py and click.py,     *)
(* behind billing/views.py and billing/webhooks.py.                        *)
(*                                                                         *)
(* A callback is an HTTP request a provider may send again, or have        *)
(* delivered late.  Perform, Cancel and Complete run under a row lock on   *)
(* the order (select_for_update), so each is one step.  Payme's Create and *)
(* Click's Prepare read the order without a lock and save it later, so     *)
(* each is two, and the worker may die between them.                       *)
(*                                                                         *)
(* Refusals answer an error and change nothing; they are the guards below. *)
(***************************************************************************)
EXTENDS Integers

CONSTANTS
    Order,           \* coin orders
    Txn,             \* provider transactions
    User,
    OrderOf,         \* the order a provider transaction is for
    UserOf,          \* the buyer
    Provider,        \* "payme" or "click"
    Charge,          \* the amount a provider transaction charges, in UZS
    Amount,          \* the amounts users ask for at checkout, in UZS
    MIN_AMOUNT_UZS,
    UZS_PER_COIN,
    NoTxn,           \* provider_txn_id is blank
    MaxInFlight,     \* bound: concurrent create handlers of one transaction
    MaxCredits       \* bound: credits of one order

ASSUME BillingAssumption ==
    /\ OrderOf \in [Txn -> Order]
    /\ UserOf \in [Order -> User]
    /\ Provider \in [Order -> {"payme", "click"}]
    /\ Charge \in [Txn -> Nat]
    /\ Amount \subseteq Nat
    /\ UZS_PER_COIN \in Nat \ {0}
    /\ MIN_AMOUNT_UZS \in Nat
    /\ NoTxn \notin Txn
    /\ MaxInFlight \in Nat \ {0}
    /\ MaxCredits \in Nat \ {0}

VARIABLES
    status,     \* Order.status, "none" before the row exists
    amount,     \* Order.amount_uzs
    txn,        \* Order.provider_txn_id
    pstate,     \* Order.provider_state, 0 for NULL
    old,        \* Order.provider_created_at is more than 12 hours ago
    saving,     \* create handlers of a transaction past their checks, not saved
    net,        \* SUM(CoinTransaction.amount) with reference "order:<id>"
    balance,    \* Profile.balance of the user
    opened,     \* history: transactions whose create was answered "created"
    performed,  \* history: transactions answered "performed" / "Success"
    voided,     \* history: transactions whose cancellation was answered
    expired,    \* history: transactions refused because they were too old
    credits,    \* history: credits of the order
    overlap     \* history: orders that had two create handlers in flight

vars == <<status, amount, txn, pstate, old, saving, net, balance, opened,
          performed, voided, expired, credits, overlap>>

money   == <<net, balance, credits>>
answers == <<opened, performed, voided, expired>>

Init ==
    /\ status = [o \in Order |-> "none"]
    /\ amount = [o \in Order |-> 0]
    /\ txn = [o \in Order |-> NoTxn]
    /\ pstate = [o \in Order |-> 0]
    /\ old = [o \in Order |-> FALSE]
    /\ saving = [t \in Txn |-> 0]
    /\ net = [o \in Order |-> 0]
    /\ balance = [u \in User |-> 0]
    /\ opened = {}
    /\ performed = {}
    /\ voided = {}
    /\ expired = {}
    /\ credits = [o \in Order |-> 0]
    /\ overlap = {}

-----------------------------------------------------------------------------
(* billing/services.py                                                     *)

coins_for_amount(uzs) == uzs \div UZS_PER_COIN

coins(o) == coins_for_amount(amount[o])

Checkout(o) ==
    /\ status[o] = "none"
    /\ \E a \in Amount :
         /\ a >= MIN_AMOUNT_UZS
         /\ amount' = [amount EXCEPT ![o] = a]
    /\ status' = [status EXCEPT ![o] = "created"]
    /\ UNCHANGED <<txn, pstate, old, saving, money, answers, overlap>>

\* wallet.credit raises InsufficientFundsError on a profile so far in debt that
\* the credit leaves it there; the whole callback then rolls back.
Creditable(o) == balance[UserOf[o]] + coins(o) >= 0

\* Mutant: a repeated callback credits again.
MarkPaid_NotIdempotent(o) ==
    /\ Creditable(o) /\ credits[o] < MaxCredits
    /\ status' = [status EXCEPT ![o] = "paid"]
    /\ net' = [net EXCEPT ![o] = @ + coins(o)]
    /\ balance' = [balance EXCEPT ![UserOf[o]] = @ + coins(o)]
    /\ credits' = [credits EXCEPT ![o] = @ + 1]

\* Mutant: a credit that is refused is logged and the callback answers success.
MarkPaid_SwallowsRefusal(o) ==
    \/ /\ status[o] = "paid" \/ ~Creditable(o)
       /\ UNCHANGED <<status, money>>
    \/ /\ status[o] # "paid"
       /\ MarkPaid_NotIdempotent(o)

MarkPaid(o) ==
    \/ /\ status[o] = "paid"
       /\ UNCHANGED <<status, money>>
    \/ /\ status[o] # "paid"
       /\ Creditable(o) /\ credits[o] < MaxCredits
       /\ status' = [status EXCEPT ![o] = "paid"]
       /\ net' = [net EXCEPT ![o] = @ + coins(o)]
       /\ balance' = [balance EXCEPT ![UserOf[o]] = @ + coins(o)]
       /\ credits' = [credits EXCEPT ![o] = @ + 1]

\* Mutant: was_paid is read after the status has been overwritten.
MarkCanceled_ReadsLate(o) ==
    /\ status' = [status EXCEPT ![o] = "canceled"]
    /\ UNCHANGED money

\* The refund is a debit with allow_negative: it always goes through.
MarkCanceled(o) ==
    LET refund == IF status[o] = "paid" THEN coins(o) ELSE 0 IN
    /\ status' = [status EXCEPT ![o] = "canceled"]
    /\ net' = [net EXCEPT ![o] = @ - refund]
    /\ balance' = [balance EXCEPT ![UserOf[o]] = @ - refund]
    /\ UNCHANGED credits

-----------------------------------------------------------------------------
(* Payme CreateTransaction and Click Prepare.  A repeated call for a       *)
(* transaction that holds the order is answered without a write.           *)

Payable(t) ==
    /\ status[OrderOf[t]] = "created"
    /\ Charge[t] = amount[OrderOf[t]]

MayCreate(t) ==
    /\ Provider[OrderOf[t]] = "payme"
    /\ txn[OrderOf[t]] = NoTxn
    /\ Payable(t)

MayPrepare(t) ==
    LET o == OrderOf[t] IN
    /\ Provider[o] = "click"
    /\ txn[o] \in {NoTxn, t}
    /\ ~(txn[o] = t /\ pstate[o] = 1)
    /\ Payable(t)

\* The handler has read the order and decided to claim it.
ReadForClaim(t) ==
    /\ MayCreate(t) \/ MayPrepare(t)
    /\ saving[t] < MaxInFlight
    /\ saving' = [saving EXCEPT ![t] = @ + 1]
    /\ overlap' = IF \E u \in Txn : OrderOf[u] = OrderOf[t] /\ saving[u] > 0
                  THEN overlap \cup {OrderOf[t]} ELSE overlap
    /\ UNCHANGED <<status, amount, txn, pstate, old, money, answers>>

\* order.save(update_fields=[provider_txn_id, provider_state, provider_created_at])
SaveClaim(t) ==
    LET o == OrderOf[t] IN
    /\ saving[t] > 0
    /\ saving' = [saving EXCEPT ![t] = @ - 1]
    /\ txn' = [txn EXCEPT ![o] = t]
    /\ pstate' = [pstate EXCEPT ![o] = 1]
    /\ old' = [old EXCEPT ![o] = FALSE]
    /\ opened' = opened \cup {t}
    /\ UNCHANGED <<status, amount, money, performed, voided, expired,
                   overlap>>

LoseClaim(t) ==
    /\ saving[t] > 0
    /\ saving' = [saving EXCEPT ![t] = @ - 1]
    /\ UNCHANGED <<status, amount, txn, pstate, old, money, answers, overlap>>

-----------------------------------------------------------------------------
(* Payme PerformTransaction and CancelTransaction                          *)

\* The order the callback finds: filter(provider_txn_id=t) in the database.
Finds(t, provider) ==
    /\ t \in opened
    /\ Provider[OrderOf[t]] = provider
    /\ txn[OrderOf[t]] = t

\* Mutant: everything that was not performed yet may be performed.
Claimed_NotPerformed(o) == pstate[o] # 2

Claimed(o) == pstate[o] = 1

PerformTransaction(t) ==
    LET o == OrderOf[t] IN
    /\ Finds(t, "payme")
    /\ Claimed(o) /\ ~old[o]
    /\ pstate' = [pstate EXCEPT ![o] = 2]
    /\ MarkPaid(o)
    /\ performed' = performed \cup {t}
    /\ UNCHANGED <<amount, txn, old, saving, opened, voided, expired, overlap>>

\* Past 12 hours the transaction is refused.  The cancellation that the code
\* writes first is undone when the PaymeError leaves the atomic block.
PerformExpired(t) ==
    /\ Finds(t, "payme")
    /\ Claimed(OrderOf[t]) /\ old[OrderOf[t]]
    /\ expired' = expired \cup {t}
    /\ UNCHANGED <<status, amount, txn, pstate, old, saving, money, opened,
                   performed, voided, overlap>>

CanceledState(s) == IF s = 2 THEN -2 ELSE -1

CancelTransaction(t) ==
    LET o == OrderOf[t] IN
    /\ Finds(t, "payme")
    /\ pstate[o] \notin {-1, -2}
    /\ pstate' = [pstate EXCEPT ![o] = CanceledState(@)]
    /\ MarkCanceled(o)
    /\ voided' = voided \cup {t}
    /\ UNCHANGED <<amount, txn, old, saving, opened, performed, expired,
                   overlap>>

-----------------------------------------------------------------------------
(* Click Complete                                                          *)

\* The order is this transaction's, and the amount is still the order's.  Click
\* echoes the merchant_prepare_id that Prepare has computed from the order.
Confirms(t) == Finds(t, "click") /\ Charge[t] = amount[OrderOf[t]]

\* error = 0: the payment went through.
CompleteSuccess(t) ==
    LET o == OrderOf[t] IN
    /\ Confirms(t)
    /\ pstate' = IF status[o] = "paid" THEN pstate ELSE [pstate EXCEPT ![o] = 2]
    /\ MarkPaid(o)
    /\ performed' = performed \cup {t}
    /\ UNCHANGED <<amount, txn, old, saving, opened, voided, expired, overlap>>

\* error < 0: Click cancels, or takes a payment back.
CompleteError(t) ==
    LET o == OrderOf[t] IN
    /\ Confirms(t)
    /\ pstate' = [pstate EXCEPT ![o] = -1]
    /\ MarkCanceled(o)
    /\ voided' = voided \cup {t}
    /\ UNCHANGED <<amount, txn, old, saving, opened, performed, expired,
                   overlap>>

-----------------------------------------------------------------------------
(* The surroundings                                                        *)

\* The user spends coins: gifts, projects, subscriptions.
Spend(u) ==
    /\ \E n \in 1..balance[u] : balance' = [balance EXCEPT ![u] = @ - n]
    /\ UNCHANGED <<status, amount, txn, pstate, old, saving, net, credits,
                   answers, overlap>>

\* Twelve hours pass.
Age(o) ==
    /\ pstate[o] = 1 /\ ~old[o]
    /\ old' = [old EXCEPT ![o] = TRUE]
    /\ UNCHANGED <<status, amount, txn, pstate, saving, money, answers, overlap>>

Callback(t) ==
    \/ ReadForClaim(t)
    \/ SaveClaim(t)
    \/ LoseClaim(t)
    \/ PerformTransaction(t)
    \/ PerformExpired(t)
    \/ CancelTransaction(t)
    \/ CompleteSuccess(t)
    \/ CompleteError(t)

Next ==
    \/ \E o \in Order : Checkout(o) \/ Age(o)
    \/ \E t \in Txn : Callback(t)
    \/ \E u \in User : Spend(u)

Spec == Init /\ [][Next]_vars

-----------------------------------------------------------------------------
(* Properties                                                              *)

TypeOK ==
    /\ status \in [Order -> {"none", "created", "paid", "canceled"}]
    /\ amount \in [Order -> Nat]
    /\ txn \in [Order -> Txn \cup {NoTxn}]
    /\ pstate \in [Order -> {0, 1, 2, -1, -2}]
    /\ old \in [Order -> BOOLEAN]
    /\ saving \in [Txn -> 0..MaxInFlight]
    /\ net \in [Order -> Int]
    /\ balance \in [User -> Int]
    /\ opened \subseteq Txn
    /\ performed \subseteq Txn
    /\ voided \subseteq Txn
    /\ expired \subseteq Txn
    /\ credits \in [Order -> 0..MaxCredits]
    /\ overlap \subseteq Order

\* The ledger and the order agree: the coins credited and taken back for an order
\* add up to its coins while it is paid and to nothing otherwise, whatever
\* callbacks were repeated, delayed or crossed.
NetMatchesStatus ==
    \A o \in Order : net[o] = IF status[o] = "paid" THEN coins(o) ELSE 0

\* provider_state never promises more than status: what CheckTransaction and
\* GetStatement report as performed is paid, what they report as cancelled is not.
StateAgrees ==
    \A o \in Order : /\ pstate[o] = 2 => status[o] = "paid"
                     /\ pstate[o] < 0 => status[o] = "canceled"

\* No free coins: an order is paid only when a provider was told that a
\* transaction which charges exactly its amount has gone through.
PaidWasCharged ==
    \A o \in Order : status[o] = "paid" =>
        \E t \in performed : OrderOf[t] = o /\ Charge[t] = amount[o]

Opened(o) == {t \in opened : OrderOf[t] = o}

\* A payment that the provider was told has gone through, and never took back,
\* is honoured as long as no second transaction got hold of the order.
PerformedIsHonoured ==
    \A t \in performed \ voided :
        Opened(OrderOf[t]) = {t} => status[OrderOf[t]] = "paid"

Exclusive(o) == \A t, u \in Opened(o) : t = u

\* When the create calls of an order do not overlap in time, the unlocked check
\* "order is taken by another transaction" is enough: one transaction per order.
ExclusiveUnlessOverlap == \A o \in Order \ overlap : Exclusive(o)

\* Likewise an order of Payme is then credited at most once in its life, whatever
\* is retried after that.
CreditedOnceUnlessOverlap ==
    \A o \in Order \ overlap : Provider[o] = "payme" => credits[o] <= 1

\* Repeated callbacks credit an order once (docs/ops/click.md "Idempotentlik",
\* docs/ops/payme.md step 3).
CreditedOnce == \A o \in Order : credits[o] <= 1

\* Billing implements the order book, the coins granted being the ledger's.
Promised == INSTANCE OrderBook WITH granted <- net
ImplementsOrderBook == Promised!Spec
=============================================================================
