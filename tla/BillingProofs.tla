---------------------------- MODULE BillingProofs ----------------------------
(***************************************************************************)
(* Proofs about Billing, for every number of orders, transactions and      *)
(* users, every amount, and any number of create handlers in flight.       *)
(***************************************************************************)
EXTENDS Billing, TLAPS

\* A create handler in flight, and a transaction that was opened, fit the order.
ClaimsFit ==
    \A t \in Txn : saving[t] > 0 \/ t \in opened =>
        /\ status[OrderOf[t]] # "none"
        /\ Charge[t] = amount[OrderOf[t]]

\* provider_txn_id is blank exactly while provider_state is NULL, which is before
\* anything was paid, cancelled or opened.
BlankIsUntouched ==
    \A o \in Order :
        /\ txn[o] = NoTxn <=> pstate[o] = 0
        /\ txn[o] = NoTxn => status[o] \in {"none", "created"}
        /\ \A t \in Txn : txn[o] = t => OrderOf[t] = o /\ t \in opened
        /\ \A t \in opened : OrderOf[t] = o => txn[o] # NoTxn

\* Without overlap one handler at a time claims an order, and only a blank one.
SoleClaim ==
    \A t \in Txn : OrderOf[t] \notin overlap =>
        /\ saving[t] > 0 => /\ saving[t] = 1
                           /\ txn[OrderOf[t]] = NoTxn
                           /\ \A u \in Txn : /\ OrderOf[u] = OrderOf[t]
                                            /\ saving[u] > 0
                                            => u = t
        /\ t \in opened => txn[OrderOf[t]] = t

\* Without overlap a Payme order goes through its states once, in order.
OneLife ==
    \A o \in Order \ overlap : Provider[o] = "payme" =>
        /\ status[o] \in {"none", "created"} => credits[o] = 0
        /\ status[o] = "paid" => credits[o] <= 1 /\ pstate[o] = 2
        /\ status[o] = "canceled" => credits[o] <= 1 /\ pstate[o] < 0

\* A transaction is performed only after it was opened.
PerformedWasOpened == performed \subseteq opened

IInv ==
    /\ NetMatchesStatus
    /\ StateAgrees
    /\ ClaimsFit
    /\ BlankIsUntouched
    /\ SoleClaim
    /\ OneLife
    /\ PerformedWasOpened
    /\ PaidWasCharged
    /\ PerformedIsHonoured

\* TypeOK is inductive: every column, counter and history keeps its type.
LEMMA TypeCorrect == Spec => []TypeOK
<1> USE BillingAssumption
<1>1. Init => TypeOK
  BY DEF Init, TypeOK
<1>2. TypeOK /\ [Next]_vars => TypeOK'
  <2> SUFFICES ASSUME TypeOK, [Next]_vars PROVE TypeOK'
    OBVIOUS
  <2> USE DEF TypeOK, money, answers
  <2>1. ASSUME NEW o \in Order, Checkout(o) PROVE TypeOK'
    BY <2>1 DEF Checkout
  <2>2. ASSUME NEW o \in Order, Age(o) PROVE TypeOK'
    BY <2>2 DEF Age
  <2>3. ASSUME NEW t \in Txn, ReadForClaim(t) PROVE TypeOK'
    BY <2>3 DEF ReadForClaim
  <2>4. ASSUME NEW t \in Txn, SaveClaim(t) PROVE TypeOK'
    BY <2>4 DEF SaveClaim
  <2>5. ASSUME NEW t \in Txn, LoseClaim(t) PROVE TypeOK'
    BY <2>5 DEF LoseClaim
  <2>6. \A o \in Order : coins(o) \in Int
    BY DEF coins, coins_for_amount
  <2>7. ASSUME NEW o \in Order, MarkPaid(o)
        PROVE /\ status' \in [Order -> {"none", "created", "paid", "canceled"}]
              /\ net' \in [Order -> Int] /\ balance' \in [User -> Int]
              /\ credits' \in [Order -> 0..MaxCredits]
    BY <2>6, <2>7 DEF MarkPaid
  <2>8. ASSUME NEW o \in Order, MarkCanceled(o)
        PROVE /\ status' \in [Order -> {"none", "created", "paid", "canceled"}]
              /\ net' \in [Order -> Int] /\ balance' \in [User -> Int]
              /\ credits' \in [Order -> 0..MaxCredits]
    BY <2>6, <2>8 DEF MarkCanceled
  <2>9. ASSUME NEW t \in Txn, PerformTransaction(t) PROVE TypeOK'
    BY <2>7, <2>9 DEF PerformTransaction, Claimed
  <2>10. ASSUME NEW t \in Txn, PerformExpired(t) PROVE TypeOK'
    BY <2>10 DEF PerformExpired, Claimed
  <2>11. ASSUME NEW t \in Txn, CancelTransaction(t) PROVE TypeOK'
    BY <2>8, <2>11 DEF CancelTransaction, CanceledState
  <2>12. ASSUME NEW t \in Txn, CompleteSuccess(t) PROVE TypeOK'
    BY <2>7, <2>12 DEF CompleteSuccess
  <2>13. ASSUME NEW t \in Txn, CompleteError(t) PROVE TypeOK'
    BY <2>8, <2>13 DEF CompleteError
  <2>14. ASSUME NEW u \in User, Spend(u) PROVE TypeOK'
    BY <2>14 DEF Spend
  <2>15. CASE UNCHANGED vars
    BY <2>15 DEF vars
  <2>16. QED
    BY <2>1, <2>2, <2>3, <2>4, <2>5, <2>9, <2>10, <2>11, <2>12, <2>13, <2>14,
       <2>15 DEF Next, Callback
<1>3. QED
  BY <1>1, <1>2, PTL DEF Spec

\* Every step keeps the ledger of an order equal to what its status grants.
LEMMA NetStep ==
    TypeOK /\ NetMatchesStatus /\ [Next]_vars => NetMatchesStatus'
<1> USE BillingAssumption
<1> SUFFICES ASSUME TypeOK, NetMatchesStatus, [Next]_vars PROVE NetMatchesStatus'
  OBVIOUS
<1> USE DEF TypeOK, money, answers, NetMatchesStatus, coins, coins_for_amount
<1>1. ASSUME NEW o \in Order, Checkout(o) PROVE NetMatchesStatus'
  BY <1>1 DEF Checkout
<1>2. ASSUME NEW o \in Order, Age(o) PROVE NetMatchesStatus'
  BY <1>2 DEF Age
<1>3. ASSUME NEW t \in Txn, ReadForClaim(t) PROVE NetMatchesStatus'
  BY <1>3 DEF ReadForClaim, MayCreate, MayPrepare, Payable
<1>4. ASSUME NEW t \in Txn, SaveClaim(t) PROVE NetMatchesStatus'
  BY <1>4 DEF SaveClaim
<1>5. ASSUME NEW t \in Txn, LoseClaim(t) PROVE NetMatchesStatus'
  BY <1>5 DEF LoseClaim
<1>6. ASSUME NEW t \in Txn, PerformTransaction(t) PROVE NetMatchesStatus'
  BY <1>6 DEF PerformTransaction, Claimed, Finds, MarkPaid
<1>7. ASSUME NEW t \in Txn, PerformExpired(t) PROVE NetMatchesStatus'
  BY <1>7 DEF PerformExpired, Claimed, Finds
<1>8. ASSUME NEW t \in Txn, CancelTransaction(t) PROVE NetMatchesStatus'
  BY <1>8 DEF CancelTransaction, CanceledState, Finds, MarkCanceled
<1>9. ASSUME NEW t \in Txn, CompleteSuccess(t) PROVE NetMatchesStatus'
  BY <1>9 DEF CompleteSuccess, Confirms, Finds, MarkPaid
<1>10. ASSUME NEW t \in Txn, CompleteError(t) PROVE NetMatchesStatus'
  BY <1>10 DEF CompleteError, Confirms, Finds, MarkCanceled
<1>11. ASSUME NEW u \in User, Spend(u) PROVE NetMatchesStatus'
  BY <1>11 DEF Spend
<1>12. CASE UNCHANGED vars
  BY <1>12 DEF vars
<1>13. QED
  BY <1>1, <1>2, <1>3, <1>4, <1>5, <1>6, <1>7, <1>8, <1>9, <1>10, <1>11, <1>12
     DEF Next, Callback

\* Every step keeps provider_state behind status.
LEMMA StateStep ==
    TypeOK /\ StateAgrees /\ [Next]_vars => StateAgrees'
<1> USE BillingAssumption
<1> SUFFICES ASSUME TypeOK, StateAgrees, [Next]_vars PROVE StateAgrees'
  OBVIOUS
<1> USE DEF TypeOK, money, answers, StateAgrees
<1>1. ASSUME NEW o \in Order, Checkout(o) PROVE StateAgrees'
  BY <1>1 DEF Checkout
<1>2. ASSUME NEW o \in Order, Age(o) PROVE StateAgrees'
  BY <1>2 DEF Age
<1>3. ASSUME NEW t \in Txn, ReadForClaim(t) PROVE StateAgrees'
  BY <1>3 DEF ReadForClaim, MayCreate, MayPrepare, Payable
<1>4. ASSUME NEW t \in Txn, SaveClaim(t) PROVE StateAgrees'
  BY <1>4 DEF SaveClaim
<1>5. ASSUME NEW t \in Txn, LoseClaim(t) PROVE StateAgrees'
  BY <1>5 DEF LoseClaim
<1>6. ASSUME NEW t \in Txn, PerformTransaction(t) PROVE StateAgrees'
  BY <1>6 DEF PerformTransaction, Claimed, Finds, MarkPaid
<1>7. ASSUME NEW t \in Txn, PerformExpired(t) PROVE StateAgrees'
  BY <1>7 DEF PerformExpired, Claimed, Finds
<1>8. ASSUME NEW t \in Txn, CancelTransaction(t) PROVE StateAgrees'
  BY <1>8 DEF CancelTransaction, CanceledState, Finds, MarkCanceled
<1>9. ASSUME NEW t \in Txn, CompleteSuccess(t) PROVE StateAgrees'
  BY <1>9 DEF CompleteSuccess, Confirms, Finds, MarkPaid
<1>10. ASSUME NEW t \in Txn, CompleteError(t) PROVE StateAgrees'
  BY <1>10 DEF CompleteError, Confirms, Finds, MarkCanceled
<1>11. ASSUME NEW u \in User, Spend(u) PROVE StateAgrees'
  BY <1>11 DEF Spend
<1>12. CASE UNCHANGED vars
  BY <1>12 DEF vars
<1>13. QED
  BY <1>1, <1>2, <1>3, <1>4, <1>5, <1>6, <1>7, <1>8, <1>9, <1>10, <1>11, <1>12
     DEF Next, Callback

\* Every step keeps claims and opened transactions fitting their orders.
LEMMA ClaimsStep ==
    TypeOK /\ ClaimsFit /\ [Next]_vars => ClaimsFit'
<1> USE BillingAssumption
<1> SUFFICES ASSUME TypeOK, ClaimsFit, [Next]_vars PROVE ClaimsFit'
  OBVIOUS
<1> USE DEF TypeOK, money, answers, ClaimsFit
<1>1. ASSUME NEW o \in Order, Checkout(o) PROVE ClaimsFit'
  BY <1>1 DEF Checkout
<1>2. ASSUME NEW o \in Order, Age(o) PROVE ClaimsFit'
  BY <1>2 DEF Age
<1>3. ASSUME NEW t \in Txn, ReadForClaim(t) PROVE ClaimsFit'
  BY <1>3 DEF ReadForClaim, MayCreate, MayPrepare, Payable
<1>4. ASSUME NEW t \in Txn, SaveClaim(t) PROVE ClaimsFit'
  BY <1>4 DEF SaveClaim
<1>5. ASSUME NEW t \in Txn, LoseClaim(t) PROVE ClaimsFit'
  BY <1>5 DEF LoseClaim
<1>6. ASSUME NEW t \in Txn, PerformTransaction(t) PROVE ClaimsFit'
  BY <1>6 DEF PerformTransaction, Claimed, Finds, MarkPaid
<1>7. ASSUME NEW t \in Txn, PerformExpired(t) PROVE ClaimsFit'
  BY <1>7 DEF PerformExpired, Claimed, Finds
<1>8. ASSUME NEW t \in Txn, CancelTransaction(t) PROVE ClaimsFit'
  BY <1>8 DEF CancelTransaction, CanceledState, Finds, MarkCanceled
<1>9. ASSUME NEW t \in Txn, CompleteSuccess(t) PROVE ClaimsFit'
  BY <1>9 DEF CompleteSuccess, Confirms, Finds, MarkPaid
<1>10. ASSUME NEW t \in Txn, CompleteError(t) PROVE ClaimsFit'
  BY <1>10 DEF CompleteError, Confirms, Finds, MarkCanceled
<1>11. ASSUME NEW u \in User, Spend(u) PROVE ClaimsFit'
  BY <1>11 DEF Spend
<1>12. CASE UNCHANGED vars
  BY <1>12 DEF vars
<1>13. QED
  BY <1>1, <1>2, <1>3, <1>4, <1>5, <1>6, <1>7, <1>8, <1>9, <1>10, <1>11, <1>12
     DEF Next, Callback

\* Every step keeps a blank order untouched.
LEMMA BlankStep ==
    TypeOK /\ ClaimsFit /\ BlankIsUntouched /\ [Next]_vars => BlankIsUntouched'
<1> USE BillingAssumption
<1> SUFFICES ASSUME TypeOK, ClaimsFit, BlankIsUntouched, [Next]_vars PROVE BlankIsUntouched'
  OBVIOUS
<1> USE DEF TypeOK, money, answers, ClaimsFit, BlankIsUntouched
<1>1. ASSUME NEW o \in Order, Checkout(o) PROVE BlankIsUntouched'
  BY <1>1 DEF Checkout
<1>2. ASSUME NEW o \in Order, Age(o) PROVE BlankIsUntouched'
  BY <1>2 DEF Age
<1>3. ASSUME NEW t \in Txn, ReadForClaim(t) PROVE BlankIsUntouched'
  BY <1>3 DEF ReadForClaim, MayCreate, MayPrepare, Payable
<1>4. ASSUME NEW t \in Txn, SaveClaim(t) PROVE BlankIsUntouched'
  BY <1>4 DEF SaveClaim
<1>5. ASSUME NEW t \in Txn, LoseClaim(t) PROVE BlankIsUntouched'
  BY <1>5 DEF LoseClaim
<1>6. ASSUME NEW t \in Txn, PerformTransaction(t) PROVE BlankIsUntouched'
  BY <1>6 DEF PerformTransaction, Claimed, Finds, MarkPaid
<1>7. ASSUME NEW t \in Txn, PerformExpired(t) PROVE BlankIsUntouched'
  BY <1>7 DEF PerformExpired, Claimed, Finds
<1>8. ASSUME NEW t \in Txn, CancelTransaction(t) PROVE BlankIsUntouched'
  BY <1>8 DEF CancelTransaction, CanceledState, Finds, MarkCanceled
<1>9. ASSUME NEW t \in Txn, CompleteSuccess(t) PROVE BlankIsUntouched'
  BY <1>9 DEF CompleteSuccess, Confirms, Finds, MarkPaid
<1>10. ASSUME NEW t \in Txn, CompleteError(t) PROVE BlankIsUntouched'
  BY <1>10 DEF CompleteError, Confirms, Finds, MarkCanceled
<1>11. ASSUME NEW u \in User, Spend(u) PROVE BlankIsUntouched'
  BY <1>11 DEF Spend
<1>12. CASE UNCHANGED vars
  BY <1>12 DEF vars
<1>13. QED
  BY <1>1, <1>2, <1>3, <1>4, <1>5, <1>6, <1>7, <1>8, <1>9, <1>10, <1>11, <1>12
     DEF Next, Callback

\* Every step keeps the only claim of an order that saw no overlap.
LEMMA SoleStep ==
    TypeOK /\ BlankIsUntouched /\ StateAgrees /\ SoleClaim /\ [Next]_vars => SoleClaim'
<1> USE BillingAssumption
<1> SUFFICES ASSUME TypeOK, BlankIsUntouched, StateAgrees, SoleClaim, [Next]_vars PROVE SoleClaim'
  OBVIOUS
<1> USE DEF TypeOK, money, answers, StateAgrees, BlankIsUntouched, SoleClaim
<1>1. ASSUME NEW o \in Order, Checkout(o) PROVE SoleClaim'
  BY <1>1 DEF Checkout
<1>2. ASSUME NEW o \in Order, Age(o) PROVE SoleClaim'
  BY <1>2 DEF Age
<1>3. ASSUME NEW t \in Txn, ReadForClaim(t) PROVE SoleClaim'
  BY <1>3 DEF ReadForClaim, MayCreate, MayPrepare, Payable
<1>4. ASSUME NEW t \in Txn, SaveClaim(t) PROVE SoleClaim'
  BY <1>4 DEF SaveClaim
<1>5. ASSUME NEW t \in Txn, LoseClaim(t) PROVE SoleClaim'
  BY <1>5 DEF LoseClaim
<1>6. ASSUME NEW t \in Txn, PerformTransaction(t) PROVE SoleClaim'
  BY <1>6 DEF PerformTransaction, Claimed, Finds, MarkPaid
<1>7. ASSUME NEW t \in Txn, PerformExpired(t) PROVE SoleClaim'
  BY <1>7 DEF PerformExpired, Claimed, Finds
<1>8. ASSUME NEW t \in Txn, CancelTransaction(t) PROVE SoleClaim'
  BY <1>8 DEF CancelTransaction, CanceledState, Finds, MarkCanceled
<1>9. ASSUME NEW t \in Txn, CompleteSuccess(t) PROVE SoleClaim'
  BY <1>9 DEF CompleteSuccess, Confirms, Finds, MarkPaid
<1>10. ASSUME NEW t \in Txn, CompleteError(t) PROVE SoleClaim'
  BY <1>10 DEF CompleteError, Confirms, Finds, MarkCanceled
<1>11. ASSUME NEW u \in User, Spend(u) PROVE SoleClaim'
  BY <1>11 DEF Spend
<1>12. CASE UNCHANGED vars
  BY <1>12 DEF vars
<1>13. QED
  BY <1>1, <1>2, <1>3, <1>4, <1>5, <1>6, <1>7, <1>8, <1>9, <1>10, <1>11, <1>12
     DEF Next, Callback

\* Every step keeps a Payme order that saw no overlap on its one way.
LEMMA LifeStep ==
    TypeOK /\ BlankIsUntouched /\ StateAgrees /\ SoleClaim /\ ClaimsFit /\ OneLife /\ [Next]_vars => OneLife'
<1> USE BillingAssumption
<1> SUFFICES ASSUME TypeOK, BlankIsUntouched, StateAgrees, SoleClaim, ClaimsFit, OneLife, [Next]_vars PROVE OneLife'
  OBVIOUS
<1> USE DEF TypeOK, money, answers, StateAgrees, BlankIsUntouched, SoleClaim, ClaimsFit, OneLife
<1>1. ASSUME NEW o \in Order, Checkout(o) PROVE OneLife'
  BY <1>1 DEF Checkout
<1>2. ASSUME NEW o \in Order, Age(o) PROVE OneLife'
  BY <1>2 DEF Age
<1>3. ASSUME NEW t \in Txn, ReadForClaim(t) PROVE OneLife'
  BY <1>3 DEF ReadForClaim, MayCreate, MayPrepare, Payable
<1>4. ASSUME NEW t \in Txn, SaveClaim(t) PROVE OneLife'
  BY <1>4 DEF SaveClaim
<1>5. ASSUME NEW t \in Txn, LoseClaim(t) PROVE OneLife'
  BY <1>5 DEF LoseClaim
<1>6. ASSUME NEW t \in Txn, PerformTransaction(t) PROVE OneLife'
  BY <1>6 DEF PerformTransaction, Claimed, Finds, MarkPaid
<1>7. ASSUME NEW t \in Txn, PerformExpired(t) PROVE OneLife'
  BY <1>7 DEF PerformExpired, Claimed, Finds
<1>8. ASSUME NEW t \in Txn, CancelTransaction(t) PROVE OneLife'
  BY <1>8 DEF CancelTransaction, CanceledState, Finds, MarkCanceled
<1>9. ASSUME NEW t \in Txn, CompleteSuccess(t) PROVE OneLife'
  BY <1>9 DEF CompleteSuccess, Confirms, Finds, MarkPaid
<1>10. ASSUME NEW t \in Txn, CompleteError(t) PROVE OneLife'
  BY <1>10 DEF CompleteError, Confirms, Finds, MarkCanceled
<1>11. ASSUME NEW u \in User, Spend(u) PROVE OneLife'
  BY <1>11 DEF Spend
<1>12. CASE UNCHANGED vars
  BY <1>12 DEF vars
<1>13. QED
  BY <1>1, <1>2, <1>3, <1>4, <1>5, <1>6, <1>7, <1>8, <1>9, <1>10, <1>11, <1>12
     DEF Next, Callback

\* Every step keeps performed transactions among the opened ones.
LEMMA OpenedStep ==
    TypeOK /\ PerformedWasOpened /\ [Next]_vars => PerformedWasOpened'
<1> USE BillingAssumption
<1> SUFFICES ASSUME TypeOK, PerformedWasOpened, [Next]_vars PROVE PerformedWasOpened'
  OBVIOUS
<1> USE DEF TypeOK, money, answers, PerformedWasOpened
<1>1. ASSUME NEW o \in Order, Checkout(o) PROVE PerformedWasOpened'
  BY <1>1 DEF Checkout
<1>2. ASSUME NEW o \in Order, Age(o) PROVE PerformedWasOpened'
  BY <1>2 DEF Age
<1>3. ASSUME NEW t \in Txn, ReadForClaim(t) PROVE PerformedWasOpened'
  BY <1>3 DEF ReadForClaim, MayCreate, MayPrepare, Payable
<1>4. ASSUME NEW t \in Txn, SaveClaim(t) PROVE PerformedWasOpened'
  BY <1>4 DEF SaveClaim
<1>5. ASSUME NEW t \in Txn, LoseClaim(t) PROVE PerformedWasOpened'
  BY <1>5 DEF LoseClaim
<1>6. ASSUME NEW t \in Txn, PerformTransaction(t) PROVE PerformedWasOpened'
  BY <1>6 DEF PerformTransaction, Claimed, Finds, MarkPaid
<1>7. ASSUME NEW t \in Txn, PerformExpired(t) PROVE PerformedWasOpened'
  BY <1>7 DEF PerformExpired, Claimed, Finds
<1>8. ASSUME NEW t \in Txn, CancelTransaction(t) PROVE PerformedWasOpened'
  BY <1>8 DEF CancelTransaction, CanceledState, Finds, MarkCanceled
<1>9. ASSUME NEW t \in Txn, CompleteSuccess(t) PROVE PerformedWasOpened'
  BY <1>9 DEF CompleteSuccess, Confirms, Finds, MarkPaid
<1>10. ASSUME NEW t \in Txn, CompleteError(t) PROVE PerformedWasOpened'
  BY <1>10 DEF CompleteError, Confirms, Finds, MarkCanceled
<1>11. ASSUME NEW u \in User, Spend(u) PROVE PerformedWasOpened'
  BY <1>11 DEF Spend
<1>12. CASE UNCHANGED vars
  BY <1>12 DEF vars
<1>13. QED
  BY <1>1, <1>2, <1>3, <1>4, <1>5, <1>6, <1>7, <1>8, <1>9, <1>10, <1>11, <1>12
     DEF Next, Callback

\* Every step keeps a charge behind every paid order.
LEMMA ChargedStep ==
    TypeOK /\ ClaimsFit /\ PaidWasCharged /\ [Next]_vars => PaidWasCharged'
<1> USE BillingAssumption
<1> SUFFICES ASSUME TypeOK, ClaimsFit, PaidWasCharged, [Next]_vars PROVE PaidWasCharged'
  OBVIOUS
<1> USE DEF TypeOK, money, answers, ClaimsFit, PaidWasCharged
<1>1. ASSUME NEW o \in Order, Checkout(o) PROVE PaidWasCharged'
  BY <1>1 DEF Checkout
<1>2. ASSUME NEW o \in Order, Age(o) PROVE PaidWasCharged'
  BY <1>2 DEF Age
<1>3. ASSUME NEW t \in Txn, ReadForClaim(t) PROVE PaidWasCharged'
  BY <1>3 DEF ReadForClaim, MayCreate, MayPrepare, Payable
<1>4. ASSUME NEW t \in Txn, SaveClaim(t) PROVE PaidWasCharged'
  BY <1>4 DEF SaveClaim
<1>5. ASSUME NEW t \in Txn, LoseClaim(t) PROVE PaidWasCharged'
  BY <1>5 DEF LoseClaim
<1>6. ASSUME NEW t \in Txn, PerformTransaction(t) PROVE PaidWasCharged'
  BY <1>6 DEF PerformTransaction, Claimed, Finds, MarkPaid
<1>7. ASSUME NEW t \in Txn, PerformExpired(t) PROVE PaidWasCharged'
  BY <1>7 DEF PerformExpired, Claimed, Finds
<1>8. ASSUME NEW t \in Txn, CancelTransaction(t) PROVE PaidWasCharged'
  BY <1>8 DEF CancelTransaction, CanceledState, Finds, MarkCanceled
<1>9. ASSUME NEW t \in Txn, CompleteSuccess(t) PROVE PaidWasCharged'
  BY <1>9 DEF CompleteSuccess, Confirms, Finds, MarkPaid
<1>10. ASSUME NEW t \in Txn, CompleteError(t) PROVE PaidWasCharged'
  BY <1>10 DEF CompleteError, Confirms, Finds, MarkCanceled
<1>11. ASSUME NEW u \in User, Spend(u) PROVE PaidWasCharged'
  BY <1>11 DEF Spend
<1>12. CASE UNCHANGED vars
  BY <1>12 DEF vars
<1>13. QED
  BY <1>1, <1>2, <1>3, <1>4, <1>5, <1>6, <1>7, <1>8, <1>9, <1>10, <1>11, <1>12
     DEF Next, Callback

\* Every step keeps an unrivalled payment honoured.
LEMMA HonouredStep ==
    TypeOK /\ PerformedWasOpened /\ PerformedIsHonoured /\ [Next]_vars => PerformedIsHonoured'
<1> USE BillingAssumption
<1> SUFFICES ASSUME TypeOK, PerformedWasOpened, PerformedIsHonoured, [Next]_vars PROVE PerformedIsHonoured'
  OBVIOUS
<1> USE DEF TypeOK, money, answers, PerformedWasOpened, PerformedIsHonoured, Opened
<1>1. ASSUME NEW o \in Order, Checkout(o) PROVE PerformedIsHonoured'
  BY <1>1 DEF Checkout
<1>2. ASSUME NEW o \in Order, Age(o) PROVE PerformedIsHonoured'
  BY <1>2 DEF Age
<1>3. ASSUME NEW t \in Txn, ReadForClaim(t) PROVE PerformedIsHonoured'
  BY <1>3 DEF ReadForClaim, MayCreate, MayPrepare, Payable
<1>4. ASSUME NEW t \in Txn, SaveClaim(t) PROVE PerformedIsHonoured'
  BY <1>4 DEF SaveClaim
<1>5. ASSUME NEW t \in Txn, LoseClaim(t) PROVE PerformedIsHonoured'
  BY <1>5 DEF LoseClaim
<1>6. ASSUME NEW t \in Txn, PerformTransaction(t) PROVE PerformedIsHonoured'
  BY <1>6 DEF PerformTransaction, Claimed, Finds, MarkPaid
<1>7. ASSUME NEW t \in Txn, PerformExpired(t) PROVE PerformedIsHonoured'
  BY <1>7 DEF PerformExpired, Claimed, Finds
<1>8. ASSUME NEW t \in Txn, CancelTransaction(t) PROVE PerformedIsHonoured'
  BY <1>8 DEF CancelTransaction, CanceledState, Finds, MarkCanceled
<1>9. ASSUME NEW t \in Txn, CompleteSuccess(t) PROVE PerformedIsHonoured'
  BY <1>9 DEF CompleteSuccess, Confirms, Finds, MarkPaid
<1>10. ASSUME NEW t \in Txn, CompleteError(t) PROVE PerformedIsHonoured'
  BY <1>10 DEF CompleteError, Confirms, Finds, MarkCanceled
<1>11. ASSUME NEW u \in User, Spend(u) PROVE PerformedIsHonoured'
  BY <1>11 DEF Spend
<1>12. CASE UNCHANGED vars
  BY <1>12 DEF vars
<1>13. QED
  BY <1>1, <1>2, <1>3, <1>4, <1>5, <1>6, <1>7, <1>8, <1>9, <1>10, <1>11, <1>12
     DEF Next, Callback

-----------------------------------------------------------------------------
\* All the parts together are an invariant of the specification.
LEMMA InductiveInvariant == Spec => []IInv
<1>1. Init => IInv
  BY BillingAssumption
     DEF Init, IInv, NetMatchesStatus, StateAgrees, ClaimsFit, BlankIsUntouched,
         SoleClaim, OneLife, PerformedWasOpened, PaidWasCharged, PerformedIsHonoured
<1>2. TypeOK /\ IInv /\ [Next]_vars => IInv'
  BY NetStep, StateStep, ClaimsStep, BlankStep, SoleStep, LifeStep, OpenedStep,
     ChargedStep, HonouredStep DEF IInv
<1>3. QED
  BY <1>1, <1>2, TypeCorrect, PTL DEF Spec

\* The ledger rows of an order always add up to what its status grants.
THEOREM NetMatchesStatusHolds == Spec => []NetMatchesStatus
<1>1. IInv => NetMatchesStatus
  BY DEF IInv
<1>2. QED
  BY <1>1, InductiveInvariant, PTL

\* What is reported to Payme and Click as performed is paid, what is reported as
\* cancelled is not.
THEOREM StateAgreesHolds == Spec => []StateAgrees
<1>1. IInv => StateAgrees
  BY DEF IInv
<1>2. QED
  BY <1>1, InductiveInvariant, PTL

\* No order is ever paid without a transaction that charged its exact amount.
THEOREM PaidWasChargedHolds == Spec => []PaidWasCharged
<1>1. IInv => PaidWasCharged
  BY DEF IInv
<1>2. QED
  BY <1>1, InductiveInvariant, PTL

\* A payment that went through and was never taken back leaves its order paid,
\* as long as no rival transaction was opened on it.
THEOREM PerformedIsHonouredHolds == Spec => []PerformedIsHonoured
<1>1. IInv => PerformedIsHonoured
  BY DEF IInv
<1>2. QED
  BY <1>1, InductiveInvariant, PTL

\* One transaction per order, unless two create handlers ran at the same time.
THEOREM ExclusiveUnlessOverlapHolds == Spec => []ExclusiveUnlessOverlap
<1>1. TypeOK /\ IInv => ExclusiveUnlessOverlap
  BY DEF TypeOK, IInv, SoleClaim, ExclusiveUnlessOverlap, Exclusive, Opened
<1>2. QED
  BY <1>1, TypeCorrect, InductiveInvariant, PTL

\* One credit per Payme order, unless two create handlers ran at the same time.
THEOREM CreditedOnceUnlessOverlapHolds == Spec => []CreditedOnceUnlessOverlap
<1>1. TypeOK /\ IInv => CreditedOnceUnlessOverlap
  BY BillingAssumption DEF TypeOK, IInv, OneLife, CreditedOnceUnlessOverlap
<1>2. QED
  BY <1>1, TypeCorrect, InductiveInvariant, PTL

\* Billing implements the order book: every step creates, settles or voids one
\* order, its coins granted or taken back whole, or changes nothing it shows.
THEOREM BillingImplementsOrderBook == Spec => ImplementsOrderBook
<1> USE BillingAssumption
<1>1. Init => Promised!Init
  BY DEF Init, Promised!Init
<1>2. TypeOK /\ IInv /\ [Next]_vars => [Promised!Next]_(Promised!vars)
  <2> SUFFICES ASSUME TypeOK, NetMatchesStatus, ClaimsFit, [Next]_vars
               PROVE [Promised!Next]_(Promised!vars)
    BY DEF IInv
  <2> USE DEF TypeOK, money, answers, Promised!vars
  <2>1. ASSUME NEW o \in Order, Checkout(o) PROVE Promised!Create(o)
    BY <2>1 DEF Checkout, Promised!Create
  <2>2. ASSUME NEW o \in Order, MarkPaid(o), amount' = amount,
               status[o] # "none"
        PROVE Promised!Settle(o) \/ UNCHANGED Promised!vars
    <3>1. CASE status[o] = "paid"
      BY <2>2, <3>1 DEF MarkPaid
    <3>2. CASE status[o] # "paid" /\ status[o] # "none"
      <4>1. net[o] = 0 /\ coins(o) \in Int
        BY <3>2 DEF NetMatchesStatus, coins, coins_for_amount
      <4>2. /\ status' = [status EXCEPT ![o] = "paid"]
            /\ net' = [net EXCEPT ![o] = coins(o)]
        BY <2>2, <3>2, <4>1 DEF MarkPaid
      <4>3. QED
        BY <2>2, <3>2, <4>2 DEF Promised!Settle, coins, coins_for_amount
    <3>3. QED
      BY <2>2, <3>1, <3>2
  <2>3. ASSUME NEW o \in Order, MarkCanceled(o), amount' = amount,
               status[o] # "none"
        PROVE Promised!Void(o) \/ UNCHANGED Promised!vars
    <3>1. /\ status' = [status EXCEPT ![o] = "canceled"]
          /\ net' = [net EXCEPT ![o] = 0]
      <4> DEFINE refund == IF status[o] = "paid" THEN coins(o) ELSE 0
      <4>1. net[o] = refund /\ refund \in Int
        BY DEF NetMatchesStatus, coins, coins_for_amount
      <4>2. net' = [net EXCEPT ![o] = @ - refund]
        BY <2>3 DEF MarkCanceled
      <4> HIDE DEF refund
      <4>3. net' = [net EXCEPT ![o] = 0]
        BY <4>1, <4>2
      <4>4. QED
        BY <2>3, <4>3 DEF MarkCanceled
    <3>2. CASE status[o] = "canceled"
      BY <2>3, <3>1, <3>2 DEF NetMatchesStatus
    <3>3. CASE status[o] \in {"created", "paid"}
      BY <2>3, <3>1, <3>3 DEF Promised!Void
    <3>4. QED
      BY <2>3, <3>2, <3>3
  <2>4. ASSUME NEW t \in Txn, Finds(t, "payme") \/ Finds(t, "click")
        PROVE OrderOf[t] \in Order /\ status[OrderOf[t]] # "none"
    BY <2>4 DEF Finds, ClaimsFit
  <2>5. ASSUME NEW t \in Txn, PerformTransaction(t) \/ CompleteSuccess(t)
        PROVE Promised!Settle(OrderOf[t]) \/ UNCHANGED Promised!vars
    BY <2>2, <2>4, <2>5 DEF PerformTransaction, CompleteSuccess, Confirms
  <2>6. ASSUME NEW t \in Txn, CancelTransaction(t) \/ CompleteError(t)
        PROVE Promised!Void(OrderOf[t]) \/ UNCHANGED Promised!vars
    BY <2>3, <2>4, <2>6 DEF CancelTransaction, CompleteError, Confirms
  <2>7. ASSUME NEW t \in Txn, ReadForClaim(t) \/ SaveClaim(t) \/ LoseClaim(t)
                              \/ PerformExpired(t)
        PROVE UNCHANGED Promised!vars
    BY <2>7 DEF ReadForClaim, SaveClaim, LoseClaim, PerformExpired
  <2>8. ASSUME NEW o \in Order, Age(o) PROVE UNCHANGED Promised!vars
    BY <2>8 DEF Age
  <2>9. ASSUME NEW u \in User, Spend(u) PROVE UNCHANGED Promised!vars
    BY <2>9 DEF Spend
  <2>10. CASE UNCHANGED vars
    BY <2>10 DEF vars
  <2>11. \A t \in Txn : OrderOf[t] \in Order
    OBVIOUS
  <2>12. QED
    BY <2>1, <2>5, <2>6, <2>7, <2>8, <2>9, <2>10, <2>11
       DEF Next, Callback, Promised!Next
<1>3. QED
  BY <1>1, <1>2, TypeCorrect, InductiveInvariant, PTL
     DEF Spec, ImplementsOrderBook, Promised!Spec
=============================================================================
