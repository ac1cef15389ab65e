---------------------------- MODULE WalletProofs ----------------------------
(***************************************************************************)
(* Proofs about Wallet, for every number of profiles, blocks and forms.    *)
(*                                                                         *)
(* The invariant: what a block does to a profile row is invisible to the   *)
(* others and is the committed row plus its own ledger rows (Isolation);   *)
(* a row nobody holds has nothing pending (FreeRowIsClean); and what an    *)
(* unforced block is about to write is not negative (UnforcedIsCovered).   *)
(***************************************************************************)
EXTENDS Wallet, TLAPS

FreeRowIsClean ==
    \A p \in Profile : holder[p] = NoClient => posted[p] = 0 /\ ~forced[p]

UnforcedIsCovered ==
    \A p \in Profile : holder[p] # NoClient /\ ~forced[p] => view[p] >= 0

IInv == TypeOK /\ FreeRowIsClean /\ Isolation /\ UnforcedIsCovered

\* TypeOK is inductive: every column, lock and pending write keeps its type.
LEMMA TypeCorrect == Spec => []TypeOK
<1> USE WalletAssumption
<1>1. Init => TypeOK
  BY DEF Init, TypeOK
<1>2. TypeOK /\ [Next]_vars => TypeOK'
  <2> SUFFICES ASSUME TypeOK, [Next]_vars PROVE TypeOK'
    OBVIOUS
  <2> USE DEF TypeOK, committed, locks, forms
  <2>1. ASSUME NEW c \in Client, Begin(c) PROVE TypeOK'
    BY <2>1 DEF Begin
  <2>2. ASSUME NEW c \in Client, NEW p \in Profile, Credit(c, p) PROVE TypeOK'
    BY <2>2 DEF Credit, Request
  <2>3. ASSUME NEW c \in Client, NEW p \in Profile, Debit(c, p) PROVE TypeOK'
    BY <2>3 DEF Debit, Request
  <2>4. ASSUME NEW c \in Client, Apply(c) PROVE TypeOK'
    BY <2>4 DEF Apply, Return, LockedBalance
  <2>5. ASSUME NEW c \in Client, Refuse(c) PROVE TypeOK'
    BY <2>5 DEF Refuse, Return
  <2>6. ASSUME NEW c \in Client, Commit(c) PROVE TypeOK'
    BY <2>6 DEF Commit, Release, Return
  <2>7. ASSUME NEW c \in Client, Rollback(c) PROVE TypeOK'
    BY <2>7 DEF Rollback, Release, Return
  <2>8. ASSUME NEW c \in Client, DeadlockAbort(c) PROVE TypeOK'
    BY <2>8 DEF DeadlockAbort, Release, Return
  <2>9. ASSUME NEW e \in Editor, NEW p \in Profile, LoadForm(e, p) PROVE TypeOK'
    BY <2>9 DEF LoadForm
  <2>10. ASSUME NEW e \in Editor, SaveForm(e) PROVE TypeOK'
    BY <2>10 DEF SaveForm
  <2>11. CASE UNCHANGED vars
    BY <2>11 DEF vars
  <2>12. QED
    BY <2>1, <2>2, <2>3, <2>4, <2>5, <2>6, <2>7, <2>8, <2>9, <2>10, <2>11
       DEF Next, ClientStep, EditorStep
<1>3. QED
  BY <1>1, <1>2, PTL DEF Spec

\* The strengthened invariant: Isolation, with nothing pending on a free row and
\* nothing negative about to be written by a block that did not ask for it.
LEMMA InductiveInvariant == Spec => []IInv
<1> USE WalletAssumption
<1>1. Init => IInv
  BY DEF Init, IInv, TypeOK, FreeRowIsClean, Isolation, UnforcedIsCovered
<1>2. TypeOK /\ TypeOK' /\ IInv /\ [Next]_vars => IInv'
  <2> SUFFICES ASSUME TypeOK, TypeOK', IInv, [Next]_vars PROVE IInv'
    OBVIOUS
  <2> USE DEF IInv, TypeOK, FreeRowIsClean, Isolation, UnforcedIsCovered,
              committed, locks, forms
  <2>1. ASSUME NEW c \in Client, Begin(c) PROVE IInv'
    BY <2>1 DEF Begin
  <2>2. ASSUME NEW c \in Client, NEW p \in Profile, Credit(c, p) PROVE IInv'
    BY <2>2 DEF Credit, Request
  <2>3. ASSUME NEW c \in Client, NEW p \in Profile, Debit(c, p) PROVE IInv'
    BY <2>3 DEF Debit, Request
  <2>4. ASSUME NEW c \in Client, Apply(c) PROVE IInv'
    <3> DEFINE p == wants[c]
    <3>1. p \in Profile /\ holder[p] \in {NoClient, c} /\ delta[c] \in Int
      BY <2>4 DEF Apply, CanLock
    <3>2. /\ view' = [view EXCEPT ![p] = LockedBalance(c, p) + delta[c]]
          /\ posted' = [posted EXCEPT ![p] = @ + delta[c]]
          /\ forced' = [forced EXCEPT ![p] = @ \/ force[c]]
          /\ holder' = [holder EXCEPT ![p] = c]
          /\ balance' = balance
          /\ ~Insufficient(c)
      BY <2>4 DEF Apply
    <3>3. LockedBalance(c, p) = balance[p] + posted[p] /\ LockedBalance(c, p) \in Int
      BY <3>1 DEF LockedBalance
    <3>4. FreeRowIsClean'
      BY <3>1, <3>2
    <3>5. Isolation'
      BY <3>1, <3>2, <3>3
    <3>6. UnforcedIsCovered'
      BY <3>1, <3>2, <3>3 DEF Insufficient
    <3>7. QED
      BY <3>4, <3>5, <3>6
  <2>5. ASSUME NEW c \in Client, Refuse(c) PROVE IInv'
    BY <2>5 DEF Refuse, Return
  <2>6. ASSUME NEW c \in Client, Commit(c) PROVE IInv'
    BY <2>6 DEF Commit, Release
  <2>7. ASSUME NEW c \in Client, Rollback(c) PROVE IInv'
    BY <2>7 DEF Rollback, Release
  <2>8. ASSUME NEW c \in Client, DeadlockAbort(c) PROVE IInv'
    BY <2>8 DEF DeadlockAbort, Release
  <2>9. ASSUME NEW e \in Editor, NEW p \in Profile, LoadForm(e, p) PROVE IInv'
    BY <2>9 DEF LoadForm
  <2>10. ASSUME NEW e \in Editor, SaveForm(e) PROVE IInv'
    BY <2>10 DEF SaveForm
  <2>11. CASE UNCHANGED vars
    BY <2>11 DEF vars
  <2>12. QED
    BY <2>1, <2>2, <2>3, <2>4, <2>5, <2>6, <2>7, <2>8, <2>9, <2>10, <2>11
       DEF Next, ClientStep, EditorStep
<1>3. QED
  BY <1>1, <1>2, TypeCorrect, PTL DEF Spec

\* No wallet call loses another one's update, whatever profile forms are saved.
THEOREM IsolationHolds == Spec => []Isolation
BY InductiveInvariant, PTL DEF IInv

-----------------------------------------------------------------------------
(* What the steps do to coins                                              *)

\* Coins move in two ways.  A commit moves the balance and the ledger of the rows
\* it holds alike; a form save moves one balance, and what it has lost instead.
LEMMA CoinsMove ==
  ASSUME TypeOK, IInv, [Next]_vars
  PROVE  \/ UNCHANGED <<balance, ledger, lost>>
         \/ \E c \in Client :
              /\ balance' = [p \in Profile |->
                    balance[p] + (IF holder[p] = c THEN posted[p] ELSE 0)]
              /\ ledger' = [p \in Profile |->
                    ledger[p] + (IF holder[p] = c THEN posted[p] ELSE 0)]
              /\ lost' = lost
              /\ \A p \in Profile : holder[p] = c => balance'[p] = view[p]
         \/ \E q \in Profile, b \in Int :
              /\ balance' = [balance EXCEPT ![q] = b]
              /\ lost' = [lost EXCEPT ![q] = @ + balance[q] - b]
              /\ ledger' = ledger
<1> USE WalletAssumption DEF committed, forms
<1>1. CASE UNCHANGED vars
  BY <1>1 DEF vars
<1>2. ASSUME NEW c \in Client, Commit(c)
      PROVE  /\ balance' = [p \in Profile |->
                   balance[p] + (IF holder[p] = c THEN posted[p] ELSE 0)]
             /\ ledger' = [p \in Profile |->
                   ledger[p] + (IF holder[p] = c THEN posted[p] ELSE 0)]
             /\ lost' = lost
             /\ \A p \in Profile : holder[p] = c => balance'[p] = view[p]
  BY <1>2 DEF Commit, IInv, Isolation, TypeOK
<1>3. ASSUME NEW c \in Client, ClientStep(c), ~Commit(c)
      PROVE  UNCHANGED <<balance, ledger, lost>>
  BY <1>3 DEF ClientStep, Begin, Credit, Debit, Request, Apply, Refuse, Rollback,
              DeadlockAbort
<1>4. ASSUME NEW e \in Editor, NEW p \in Profile, LoadForm(e, p)
      PROVE  UNCHANGED <<balance, ledger, lost>>
  BY <1>4 DEF LoadForm
<1>5. ASSUME NEW e \in Editor, SaveForm(e)
      PROVE  \E q \in Profile, b \in Int :
               /\ balance' = [balance EXCEPT ![q] = b]
               /\ lost' = [lost EXCEPT ![q] = @ + balance[q] - b]
               /\ ledger' = ledger
  <2>1. editing[e] \in Profile /\ seen[e] \in Int
    BY <1>5 DEF SaveForm, TypeOK
  <2>2. QED
    BY <1>5, <2>1 DEF SaveForm
<1>6. QED
  BY <1>1, <1>2, <1>3, <1>4, <1>5 DEF Next, EditorStep

\* The balance and the ledger of a profile differ by what form saves have lost,
\* exactly, after any interleaving of wallet calls and form saves.
THEOREM CoinsAccountedHolds == Spec => []CoinsAccounted
<1>1. Init => CoinsAccounted
  <2> SUFFICES ASSUME Init, NEW p \in Profile PROVE balance[p] + lost[p] = ledger[p]
    BY DEF CoinsAccounted
  <2>1. balance[p] = 0 /\ lost[p] = 0 /\ ledger[p] = 0
    BY Zenon DEF Init
  <2>2. QED
    BY <2>1
<1>2. TypeOK /\ IInv /\ CoinsAccounted /\ [Next]_vars => CoinsAccounted'
  <2> SUFFICES ASSUME TypeOK, IInv, CoinsAccounted, [Next]_vars
               PROVE  CoinsAccounted'
    OBVIOUS
  <2> USE DEF CoinsAccounted, TypeOK
  <2>1. CASE UNCHANGED <<balance, ledger, lost>>
    BY <2>1
  <2>2. ASSUME NEW c \in Client,
               balance' = [p \in Profile |->
                    balance[p] + (IF holder[p] = c THEN posted[p] ELSE 0)],
               ledger' = [p \in Profile |->
                    ledger[p] + (IF holder[p] = c THEN posted[p] ELSE 0)],
               lost' = lost
        PROVE  CoinsAccounted'
    BY <2>2
  <2>3. ASSUME NEW q \in Profile, NEW b \in Int,
               balance' = [balance EXCEPT ![q] = b],
               lost' = [lost EXCEPT ![q] = @ + balance[q] - b],
               ledger' = ledger
        PROVE  CoinsAccounted'
    BY <2>3
  <2>4. QED
    BY <2>1, <2>2, <2>3, CoinsMove
<1>3. QED
  BY <1>1, <1>2, TypeCorrect, InductiveInvariant, PTL DEF Spec

\* balance == SUM(CoinTransaction.amount), for every profile, in every state,
\* provided nobody saves a whole Profile row beside the wallet.
THEOREM BalanceIsLedgerHolds ==
  ASSUME Editor = {}
  PROVE  Spec => []BalanceIsLedger
<1> DEFINE NothingLost == \A p \in Profile : lost[p] = 0
<1>1. Init => NothingLost
  BY DEF Init
<1>2. NothingLost /\ [Next]_vars => NothingLost'
  <2>1. ASSUME NEW c \in Client, ClientStep(c) PROVE lost' = lost
    BY <2>1 DEF ClientStep, Begin, Credit, Debit, Request, Apply, Refuse, Commit,
                Rollback, DeadlockAbort, forms
  <2>2. [Next]_vars => lost' = lost
    BY <2>1 DEF Next, vars
  <2>3. QED
    BY <2>2
<1>3. TypeOK /\ CoinsAccounted /\ NothingLost => BalanceIsLedger
  <2> SUFFICES ASSUME TypeOK, CoinsAccounted, NothingLost, NEW p \in Profile
               PROVE  balance[p] = ledger[p]
    BY DEF BalanceIsLedger
  <2>1. balance[p] \in Int /\ lost[p] = 0 /\ balance[p] + lost[p] = ledger[p]
    BY DEF TypeOK, CoinsAccounted
  <2>2. QED
    BY <2>1
<1> HIDE DEF NothingLost
<1>4. QED
  BY <1>1, <1>2, <1>3, TypeCorrect, CoinsAccountedHolds, PTL DEF Spec

\* No block overdraws a profile unless it debits it with allow_negative.
THEOREM NoOverdraftHolds == Spec => NoOverdraft
<1>1. ASSUME TypeOK, IInv, [Next]_vars, NEW p \in Profile,
             balance'[p] < 0, balance'[p] < balance[p], lost'[p] = lost[p]
      PROVE  forced[p]
  <2>0. balance[p] \in Int /\ lost \in [Profile -> Int]
    BY <1>1 DEF TypeOK
  <2>1. ASSUME NEW q \in Profile, NEW b \in Int,
               balance' = [balance EXCEPT ![q] = b],
               lost' = [lost EXCEPT ![q] = @ + balance[q] - b]
        PROVE  FALSE
    BY <1>1, <2>0, <2>1 DEF TypeOK
  <2>2. PICK c \in Client :
          /\ balance' = [q \in Profile |->
                balance[q] + (IF holder[q] = c THEN posted[q] ELSE 0)]
          /\ \A q \in Profile : holder[q] = c => balance'[q] = view[q]
    BY <1>1, <2>0, <2>1, CoinsMove
  <2>3. holder[p] = c /\ view[p] < 0
    BY <1>1, <2>0, <2>2
  <2>4. ~(view[p] >= 0) /\ holder[p] # NoClient
    BY <1>1, <2>3, WalletAssumption DEF TypeOK
  <2>5. QED
    BY <1>1, <2>4, Zenon DEF IInv, UnforcedIsCovered
<1>2. TypeOK /\ IInv /\ [Next]_vars
        => [\A p \in Profile :
              balance'[p] < 0 /\ balance'[p] < balance[p] /\ lost'[p] = lost[p] =>
                forced[p]]_vars
  BY <1>1, Zenon
<1>3. QED
  BY <1>2, TypeCorrect, InductiveInvariant, PTL DEF Spec, NoOverdraft

\* The wallet implements the abstract ledger its callers rely on: a commit posts, a
\* form save and every other step stutters.
THEOREM WalletImplementsLedger == Spec => ImplementsLedger
<1>1. Init => Promised!Init
  BY DEF Init, Promised!Init
<1>2. TypeOK /\ TypeOK' /\ IInv /\ [Next]_vars => [Promised!Post]_(Promised!vars)
  <2> SUFFICES ASSUME TypeOK, TypeOK', IInv, [Next]_vars
               PROVE  Promised!Post \/ UNCHANGED Promised!vars
    OBVIOUS
  <2> USE DEF TypeOK
  <2>1. CASE UNCHANGED <<balance, ledger, lost>>
    BY <2>1 DEF Promised!vars
  <2>2. ASSUME NEW c \in Client,
               balance' = [p \in Profile |->
                    balance[p] + (IF holder[p] = c THEN posted[p] ELSE 0)],
               ledger' = [p \in Profile |->
                    ledger[p] + (IF holder[p] = c THEN posted[p] ELSE 0)],
               lost' = lost
        PROVE  Promised!Post
    <3>1. \A p \in Profile :
            balance'[p] + lost'[p] = balance[p] + lost[p] + (ledger'[p] - ledger[p])
      BY <2>2
    <3>2. QED
      BY <3>1 DEF Promised!Post
  <2>3. ASSUME NEW q \in Profile, NEW b \in Int,
               balance' = [balance EXCEPT ![q] = b],
               lost' = [lost EXCEPT ![q] = @ + balance[q] - b],
               ledger' = ledger
        PROVE  UNCHANGED Promised!vars
    <3>1. \A p \in Profile : balance'[p] + lost'[p] = balance[p] + lost[p]
      BY <2>3
    <3>2. QED
      BY <2>3, <3>1 DEF Promised!vars
  <2>4. QED
    BY <2>1, <2>2, <2>3, CoinsMove
<1>3. QED
  BY <1>1, <1>2, TypeCorrect, InductiveInvariant, PTL
     DEF Spec, ImplementsLedger, Promised!Spec
=============================================================================
