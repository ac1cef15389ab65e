------------------------ MODULE SubscriptionsProofs -------------------------
(***************************************************************************)
(* Theorems about Subscriptions: they hold for every set of profiles,      *)
(* plans, sweeps, tabs, forms and admins, and for every price list.        *)
(***************************************************************************)
EXTENDS Subscriptions, TLAPS

\* What TypeOK leaves out: rows that exist name their profile and plan, those
\* that do not have bought nothing, and a page is open at a row that exists.
Rows ==
    /\ \A s \in Sub : status[s] # "none" => owner[s] \in Profile /\ plan[s] \in Plan
    /\ \A s \in Sub : status[s] = "none" => paid[s] = 0
    /\ \A c \in Canceller :
         phase[c] # "idle" => canceling[c] \in Sub /\ status[canceling[c]] # "none"
    /\ \A b \in Tab :
         toggling[b] # NoSub => toggling[b] \in Sub /\ status[toggling[b]] # "none"

IInv == TypeOK /\ Rows /\ OneActive /\ TimeIsPaid

\* Taking premium away leaves a cache.
LEMMA RevokedIsCache ==
  ASSUME NEW r \in Cache PROVE [r EXCEPT !.premium = FALSE] \in Cache
  BY DEF Cache

USE SubscriptionsAssumption DEF SubscriptionsAssumption

\* The initial rows and pages satisfy the invariant.
LEMMA InitIInv == Init => IInv
<1> SUFFICES ASSUME Init PROVE IInv
  OBVIOUS
<1> USE DEF Init, NotPremium, NoEnd, Cache
<1>1. now \in 1..MaxTime /\ price \in [Plan -> Prices]
  OBVIOUS
<1>2. cache \in [Profile -> Cache]
  <2>1. {NotPremium, [premium |-> TRUE, until |-> 2]} \subseteq Cache
    OBVIOUS
  <2> QED
    BY <2>1
<1>3. TypeOK
  BY <1>1, <1>2 DEF TypeOK
<1>4. Rows
  BY DEF Rows
<1>5. OneActive /\ TimeIsPaid
  BY DEF OneActive, TimeIsPaid, Active
<1> QED
  BY <1>3, <1>4, <1>5 DEF IInv

\* A purchase that extends keeps every row well typed, single and paid for.
LEMMA ExtendStep ==
  ASSUME IInv, NEW p \in Profile, NEW s \in Sub, NEW pl \in Plan,
         NEW auto \in BOOLEAN, Extend(p, s, pl, auto)
  PROVE  IInv'
<1> USE DEF IInv, TypeOK, Active, CanPay, Pay, Granted, NoEnd, Cache, Extend,
            beat, tabs, admins, forms
<1>0. price[pl] \in Nat /\ Days[pl] \in Nat /\ end[s] \in Nat /\ balance[p] \in Nat
  OBVIOUS
<1>1. /\ price[pl] \in Nat /\ Days[pl] \in Nat /\ end[s] \in Nat
      /\ balance[p] \in Nat /\ balance[p] - price[pl] \in Nat
  BY <1>0
<1>2. balance' \in [Profile -> Nat] /\ end' \in [Sub -> Nat] /\ paid' \in [Sub -> Nat]
  BY <1>1
<1>3. cache' \in [Profile -> Cache]
  BY <1>1
<1>4. renew' \in [Sub -> BOOLEAN]
  OBVIOUS
<1>5. TypeOK'
  BY <1>2, <1>3, <1>4
<1>6. Rows'
  BY DEF Rows
<1>7. OneActive'
  BY DEF OneActive
<1>8. TimeIsPaid'
  BY DEF TimeIsPaid
<1> QED
  BY <1>5, <1>6, <1>7, <1>8

\* So does a purchase that begins a new period.
LEMMA OpenStep ==
  ASSUME IInv, NEW p \in Profile, NEW s \in Sub, NEW pl \in Plan,
         NEW auto \in BOOLEAN, Open(p, s, pl, auto)
  PROVE  IInv'
<1> USE DEF IInv, TypeOK, Active, CanPay, Pay, Granted, NoEnd, Cache, Open, Insert,
            Unused, Superseded, beat, tabs, admins, forms
<1>1. /\ price[pl] \in Nat /\ Days[pl] \in Nat \ {0} /\ now \in Nat
      /\ balance[p] \in Nat /\ balance[p] - price[pl] \in Nat
  OBVIOUS
<1>2. balance' \in [Profile -> Nat] /\ end' \in [Sub -> Nat] /\ paid' \in [Sub -> Nat]
  BY <1>1
<1>3. cache' \in [Profile -> Cache]
  BY <1>1
<1>4. renew' \in [Sub -> BOOLEAN]
  OBVIOUS
<1>5. TypeOK'
  BY <1>1, <1>2, <1>3, <1>4
<1>6. Rows'
  BY DEF Rows
<1>7. OneActive'
  BY DEF OneActive
<1>8. /\ start'[s] = now /\ end'[s] = now + Days[pl] /\ paid'[s] = Days[pl]
  BY <1>1 DEF Rows
<1>9. \A u \in Sub \ {s} : /\ start'[u] = start[u] /\ end'[u] = end[u]
                            /\ paid'[u] = paid[u]
                            /\ status'[u] # "none" => status[u] # "none"
  OBVIOUS
<1>10. TimeIsPaid'
  BY <1>1, <1>8, <1>9 DEF TimeIsPaid
<1> QED
  BY <1>5, <1>6, <1>7, <1>10

\* A renewal pays for the days it adds.
LEMMA RenewStep ==
  ASSUME IInv, NEW w \in Worker, NEW s \in Sub, Renew(w, s)
  PROVE  IInv'
<1> USE DEF IInv, TypeOK, Active, CanPay, Pay, Granted, NoEnd, NotPremium, Cache,
            MustClose, Visits, tabs, admins, forms
<1>1. owner[s] \in Profile /\ plan[s] \in Plan
  BY DEF Renew, Rows
<1> DEFINE p == owner[s]
           e == end[s] + Days[plan[s]]
           shown == IF Running(e) THEN Granted(e) ELSE NotPremium
<1>2. price[plan[s]] \in Nat /\ Days[plan[s]] \in Nat \ {0} /\ end[s] \in Nat /\ e \in Nat
  <2> HIDE DEF Pay, Granted, NotPremium, Visits, MustClose, CanPay
  <2>1. price[plan[s]] \in Prices /\ Days[plan[s]] \in Nat \ {0} /\ end[s] \in Nat
    BY <1>1
  <2> HIDE DEF TypeOK, IInv, Active, Cache
  <2>2. \A d \in Nat \ {0}, x \in Nat : x + d \in Nat
    OBVIOUS
  <2>3. e \in Nat
    BY <2>1, <2>2
  <2>4. price[plan[s]] \in Nat
    BY <2>1
  <2> QED
    BY <2>1, <2>3, <2>4
<1>3. shown \in Cache
  BY <1>2
<1>4. balance[p] \in Nat /\ balance[p] - price[plan[s]] \in Nat
  BY <1>1, <1>2 DEF Renew
<1>5. /\ sweep' = [sweep EXCEPT ![w] = @ \ {s}]
      /\ end' = [end EXCEPT ![s] = e]
      /\ balance' = [balance EXCEPT ![p] = @ - price[plan[s]]]
      /\ paid' = [paid EXCEPT ![s] = @ + Days[plan[s]]]
      /\ cache' = [cache EXCEPT ![p] = shown]
      /\ UNCHANGED <<now, price, owner, plan, status, start, renew, busy, since,
                     tabs, admins, forms>>
  BY DEF Renew
<1> HIDE DEF p, e, shown
<1>6. TypeOK'
  BY <1>1, <1>2, <1>3, <1>4, <1>5 DEF p
<1>7. Rows'
  BY <1>2, <1>5, <1>1 DEF Rows, Renew
<1>8. OneActive'
  BY <1>5 DEF OneActive
<1>9. TimeIsPaid'
  BY <1>2, <1>5 DEF TimeIsPaid, Renew, e
<1> QED
  BY <1>6, <1>7, <1>8, <1>9

\* A subscription that expires keeps its dates.
LEMMA ExpireStep ==
  ASSUME IInv, NEW w \in Worker, NEW s \in Sub, Expire(w, s)
  PROVE  IInv'
<1> USE DEF IInv, TypeOK, Active, NoEnd, NotPremium, Cache, Expire, Expired, Revoked,
            MustClose, Visits, tabs, admins, forms
<1>1. TypeOK'
  OBVIOUS
<1>2. Rows'
  BY DEF Rows
<1>3. OneActive' /\ TimeIsPaid'
  BY DEF OneActive, TimeIsPaid
<1> QED
  BY <1>1, <1>2, <1>3

\* Step two of the task touches the cache only.
LEMMA FinishStep ==
  ASSUME IInv, NEW w \in Worker, FinishSweep(w)
  PROVE  IInv'
<1> USE DEF IInv, TypeOK, Active, Cache, FinishSweep, rows, tabs, admins, forms
<1>1. cache' \in [Profile -> Cache]
  <2>1. \A p \in Profile : cache[p] \in Cache /\ [cache[p] EXCEPT !.premium = FALSE] \in Cache
    BY RevokedIsCache
  <2> QED
    BY <2>1
<1>2. TypeOK'
  BY <1>1
<1>3. Rows' /\ OneActive' /\ TimeIsPaid'
  BY DEF Rows, OneActive, TimeIsPaid
<1> QED
  BY <1>2, <1>3

\* So do the pages that read and write without a lock.
LEMMA TabStep ==
  ASSUME IInv, NEW b \in Tab,
         (\E s \in Sub : LoadToggle(b, s)) \/ SaveToggle(b)
  PROVE  IInv'
<1> USE DEF IInv, TypeOK, Active, rows, beat, tabs, admins, forms
<1>1. TypeOK'
  <2>1. CASE \E s \in Sub : LoadToggle(b, s)
    BY <2>1 DEF LoadToggle
  <2>2. CASE SaveToggle(b)
    BY <2>2 DEF SaveToggle, Rows
  <2> QED
    BY <2>1, <2>2
<1>2. Rows' /\ OneActive' /\ TimeIsPaid'
  BY DEF Rows, OneActive, TimeIsPaid, LoadToggle, SaveToggle
<1> QED
  BY <1>1, <1>2

\* Cancelling never makes a row active.
LEMMA CancelStep ==
  ASSUME IInv, NEW c \in Canceller,
         \/ \E s \in Sub : ListForCancel(c, s)
         \/ CancelSave(c) \/ CancelRead(c) \/ CancelSync(c)
  PROVE  IInv'
<1> USE DEF IInv, TypeOK, Active, NotPremium, NoEnd, Granted, Cache, rows, beat, tabs,
            admins, forms
<1>1. CASE \E s \in Sub : ListForCancel(c, s)
  BY <1>1 DEF Rows, OneActive, TimeIsPaid, ListForCancel
<1>2. CASE CancelSave(c)
  <2>1. TypeOK' /\ Rows'
    BY <1>2 DEF Rows, CancelSave
  <2>2. OneActive' /\ TimeIsPaid'
    BY <1>2 DEF Rows, OneActive, TimeIsPaid, CancelSave
  <2> QED
    BY <2>1, <2>2
<1>3. CASE CancelRead(c)
  <2>1. NotPremium \in Cache /\ \A s \in Sub : Granted(end[s]) \in Cache
    OBVIOUS
  <2>3. synced' \in [Canceller -> Cache]
    <3> HIDE DEF NotPremium, Granted, Cache
    <3> QED
      BY <1>3, <2>1 DEF CancelRead
  <2>4. TypeOK'
    BY <1>3, <2>3 DEF CancelRead
  <2>5. Rows'
    BY <1>3 DEF Rows, CancelRead
  <2>2. OneActive' /\ TimeIsPaid'
    BY <1>3 DEF OneActive, TimeIsPaid, CancelRead
  <2> QED
    BY <2>2, <2>4, <2>5
<1>4. CASE CancelSync(c)
  <2>1. TypeOK' /\ Rows'
    BY <1>4 DEF Rows, CancelSync
  <2>2. OneActive' /\ TimeIsPaid'
    BY <1>4 DEF OneActive, TimeIsPaid, CancelSync
  <2> QED
    BY <2>1, <2>2
<1> QED
  BY <1>1, <1>2, <1>3, <1>4

\* A gift is a row without an end.
LEMMA GiveStep ==
  ASSUME IInv, NEW p \in Profile, NEW s \in Sub, Give(p, s)
  PROVE  IInv'
<1> USE DEF IInv, TypeOK, Active, NoEnd, Give, Insert, Unused, beat, tabs, admins, forms
<1>1. TypeOK' /\ Rows'
  BY DEF Rows
<1>2. OneActive'
  BY DEF OneActive
<1>3. TimeIsPaid'
  BY DEF TimeIsPaid
<1> QED
  BY <1>1, <1>2, <1>3

\* The invariant is inductive.
LEMMA InductiveInvariant == Spec => []IInv
<1>1. IInv /\ [Next]_vars => IInv'
  <2> SUFFICES ASSUME IInv, [Next]_vars PROVE IInv'
    OBVIOUS
  <2> USE DEF IInv, TypeOK, Active, Rows, OneActive, TimeIsPaid, Cache, NotPremium,
              NoEnd, rows, beat, tabs, admins, forms
  <2>1. CASE Tick
    BY <2>1 DEF Tick
  <2>2. ASSUME NEW p \in Profile, Purchase(p) PROVE IInv'
    BY <2>2, ExtendStep, OpenStep DEF Purchase
  <2>3. ASSUME NEW w \in Worker, StartSweep(w) PROVE IInv'
    BY <2>3 DEF StartSweep, Due
  <2>4. ASSUME NEW w \in Worker, Sweep(w) PROVE IInv'
    <3>1. ASSUME NEW s \in Sub, Skip(w, s) PROVE IInv'
      BY <3>1 DEF Skip, Visits
    <3>2. ASSUME NEW s \in Sub, Abort(w, s) PROVE IInv'
      BY <3>2 DEF Abort
    <3> QED
      BY <2>4, <3>1, <3>2, RenewStep, ExpireStep, FinishStep DEF Sweep
  <2>5. ASSUME NEW f \in Form, (\E p \in Profile : LoadForm(f, p)) \/ SaveForm(f)
        PROVE  IInv'
    <3>1. CASE \E p \in Profile : LoadForm(f, p)
      BY <3>1 DEF LoadForm
    <3>2. CASE SaveForm(f)
      BY <3>2 DEF SaveForm
    <3> QED
      BY <2>5, <3>1, <3>2
  <2>6. ASSUME NEW pl \in Plan, EditPrice(pl) PROVE IInv'
    BY <2>6 DEF EditPrice
  <2>7. CASE UNCHANGED vars
    BY <2>7 DEF vars
  <2> QED
    BY <2>1, <2>2, <2>3, <2>4, <2>5, <2>6, <2>7, TabStep, CancelStep, GiveStep DEF Next
<1> QED
  BY InitIInv, <1>1, PTL DEF Spec

\* A profile never has two active subscriptions: a purchase over a row that the
\* beat has not closed yet closes it, and nothing revives a closed one.
THEOREM OneActiveHolds == Spec => []OneActive
  BY InductiveInvariant, PTL DEF IInv

\* Every day of a bought subscription was paid for, and every day paid for was
\* granted, whatever the sweeps, tabs and admins do in between.
THEOREM TimeIsPaidHolds == Spec => []TimeIsPaid
  BY InductiveInvariant, PTL DEF IInv

-----------------------------------------------------------------------------
(* The periods of a profile                                                 *)

\* Rows are created in order, an expired one has come to its end, and the active one of a
\* profile is its last.
Sequel ==
    /\ \A s, u \in Sub : status[s] # "none" /\ status[u] = "none" => s < u
    /\ \A s \in Sub : status[s] = "expired" => end[s] # NoEnd /\ end[s] <= now
    /\ \A s, u \in Sub :
          status[s] = "active" /\ status[u] # "none" /\ owner[s] = owner[u] => u <= s

PeriodsIInv == Sequel /\ PeriodsDoNotOverlap

\* What happens to existing rows: they are canceled, close when they have run out, or get
\* another end while they are active.
Closes ==
    \A s \in Sub : \/ status'[s] = status[s]
                   \/ status[s] # "none" /\ status'[s] = "canceled"
                   \/ /\ status[s] = "active" /\ status'[s] = "expired"
                      /\ end[s] # NoEnd /\ end[s] <= now

Moves ==
    \A s \in Sub : \/ end'[s] = end[s]
                   \/ status[s] = "active" /\ status'[s] = "active" /\ end'[s] # NoEnd

Later == now' = now \/ now' = now + 1

\* A step that creates nothing and does no more than that.
LEMMA PeriodsKept ==
  ASSUME IInv, PeriodsIInv, owner' = owner, start' = start, Later, Closes, Moves
  PROVE  PeriodsIInv'
<1> USE DEF Later, Closes, Moves
<1>1. now \in Nat /\ \A s \in Sub : end[s] \in Nat /\ s \in Nat
  BY DEF IInv, TypeOK
<1>2. \A s \in Sub : status'[s] = "none" <=> status[s] = "none"
  OBVIOUS
<1>3. \A s \in Sub : status'[s] = "active" => status[s] = "active"
  OBVIOUS
<1>4. Sequel'
  <2>1. \A s, u \in Sub : status'[s] # "none" /\ status'[u] = "none" => s < u
    BY <1>2 DEF PeriodsIInv, Sequel
  <2>2. ASSUME NEW s \in Sub, status'[s] = "expired" PROVE end'[s] # NoEnd /\ end'[s] <= now'
    <3>1. end'[s] = end[s] /\ end[s] # NoEnd /\ end[s] <= now
      BY <2>2 DEF PeriodsIInv, Sequel
    <3> QED
      BY <1>1, <3>1
  <2>3. \A s, u \in Sub :
           status'[s] = "active" /\ status'[u] # "none" /\ owner'[s] = owner'[u] => u <= s
    BY <1>2, <1>3 DEF PeriodsIInv, Sequel
  <2> QED
    BY <2>1, <2>2, <2>3 DEF Sequel, NoEnd
<1>5. ASSUME NEW s \in Sub, NEW u \in Sub, s < u, owner'[s] = owner'[u],
             status'[s] \in {"active", "expired"}, status'[u] # "none"
      PROVE  end'[s] # NoEnd /\ end'[s] <= start'[u]
  <2>1. status[s] \in {"active", "expired"} /\ status[u] # "none" /\ owner[s] = owner[u]
    BY <1>5, <1>2
  <2>2. status[s] # "active"
    <3>1. ~(u <= s)
      BY <1>1, <1>5
    <3> QED
      BY <2>1, <3>1 DEF PeriodsIInv, Sequel
  <2>3. end'[s] = end[s]
    BY <2>2
  <2> QED
    BY <1>5, <2>1, <2>3 DEF PeriodsIInv, PeriodsDoNotOverlap
<1> QED
  BY <1>4, <1>5 DEF PeriodsIInv, PeriodsDoNotOverlap, NoEnd

\* A new row comes after all others, when what its owner had has run out.
LEMMA PeriodsInsert ==
  ASSUME IInv, PeriodsIInv, NEW p \in Profile, NEW s \in Sub, NEW pl \in Plan, NEW e \in Nat,
         NEW auto \in BOOLEAN, Insert(p, s, pl, e, auto), now' = now,
         \A u \in Active(p) : end[u] # NoEnd /\ end[u] <= now,
         status'[s] = "active",
         \A u \in Sub \ {s} : status'[u] = IF u \in Active(p) THEN "expired" ELSE status[u]
  PROVE  PeriodsIInv'
<1>1. now \in Nat /\ \A u \in Sub : u \in Nat /\ end[u] \in Nat
  BY DEF IInv, TypeOK
<1>2. /\ \A u \in Sub : status[u] # "none" => u < s
      /\ \A u \in Sub : status[u] = "none" => s <= u
  BY DEF PeriodsIInv, Sequel, Insert, Unused
<1>3. /\ owner'[s] = p /\ start'[s] = now
      /\ \A u \in Sub \ {s} : owner'[u] = owner[u] /\ start'[u] = start[u] /\ end'[u] = end[u]
  BY DEF Insert, IInv, TypeOK
<1>10. \A u \in Active(p) : status[u] = "active"
  BY DEF Active
<1>11. \A u \in Sub : status[u] = "active" /\ u \notin Active(p) => owner[u] # p
  BY DEF Active
<1>4. /\ \A u \in Sub \ {s} : status'[u] = "none" <=> status[u] = "none"
      /\ \A u \in Sub \ {s} : status'[u] = "active" => status[u] = "active" /\ owner[u] # p
      /\ \A u \in Sub \ {s} : status'[u] = "expired" =>
                                status[u] = "expired" \/ (end[u] # NoEnd /\ end[u] <= now)
  BY <1>10, <1>11
<1>5. \A u \in Sub \ {s} : status'[u] = "expired" => end[u] # NoEnd /\ end[u] <= now
  BY <1>4 DEF PeriodsIInv, Sequel
<1>6. Sequel'
  <2>1. \A v, u \in Sub : status'[v] # "none" /\ status'[u] = "none" => v < u
    <3> SUFFICES ASSUME NEW v \in Sub, NEW u \in Sub, status'[v] # "none", status'[u] = "none"
                 PROVE  v < u
      OBVIOUS
    <3>1. u # s /\ status[u] = "none" /\ s <= u
      BY <1>2, <1>4
    <3>2. v = s \/ v < s
      BY <1>2, <1>4
    <3> QED
      BY <1>1, <3>1, <3>2
  <2>2. \A u \in Sub : status'[u] = "expired" => end'[u] # NoEnd /\ end'[u] <= now'
    BY <1>3, <1>5
  <2>3. \A v, u \in Sub :
           status'[v] = "active" /\ status'[u] # "none" /\ owner'[v] = owner'[u] => u <= v
    <3> SUFFICES ASSUME NEW v \in Sub, NEW u \in Sub, status'[v] = "active",
                        status'[u] # "none", owner'[v] = owner'[u]
                 PROVE  u <= v
      OBVIOUS
    <3>1. CASE v = s
      BY <1>1, <1>2, <1>4, <3>1
    <3>2. CASE v # s
      <4>1. status[v] = "active" /\ owner[v] # p
        BY <1>4, <3>2
      <4>2. u # s /\ status[u] # "none" /\ owner[u] = owner[v]
        BY <1>3, <1>4, <3>2, <4>1
      <4> QED
        BY <4>1, <4>2 DEF PeriodsIInv, Sequel
    <3> QED
      BY <3>1, <3>2
  <2> QED
    BY <2>1, <2>2, <2>3 DEF Sequel, NoEnd
<1>7. ASSUME NEW v \in Sub, NEW u \in Sub, v < u, owner'[v] = owner'[u],
             status'[v] \in {"active", "expired"}, status'[u] # "none"
      PROVE  end'[v] # NoEnd /\ end'[v] <= start'[u]
  <2>1. v # s
    BY <1>1, <1>2, <1>4, <1>7
  <2>2. CASE u = s
    BY <1>3, <1>4, <1>5, <1>7, <2>1, <2>2
  <2>3. CASE u # s
    <3>1. status[u] # "none" /\ owner[v] = owner[u]
      BY <1>3, <1>4, <1>7, <2>1, <2>3
    <3>2. status[v] \in {"active", "expired"}
      BY <1>7, <1>10, <2>1
    <3> QED
      BY <1>3, <1>7, <2>1, <2>3, <3>1, <3>2 DEF PeriodsIInv, PeriodsDoNotOverlap
  <2> QED
    BY <2>2, <2>3
<1> QED
  BY <1>6, <1>7 DEF PeriodsIInv, PeriodsDoNotOverlap, NoEnd

\* The invariant of the periods is inductive.
LEMMA PeriodsStep == IInv /\ PeriodsIInv /\ [Next]_vars => PeriodsIInv'
<1> SUFFICES ASSUME IInv, PeriodsIInv, [Next]_vars PROVE PeriodsIInv'
  OBVIOUS
<1>1. CASE UNCHANGED <<owner, start, end, status>> /\ (now' = now \/ now' = now + 1)
  BY <1>1, PeriodsKept DEF Later, Closes, Moves
<1>2. ASSUME NEW p \in Profile, Purchase(p) PROVE PeriodsIInv'
  <2>1. PICK s \in Sub, pl \in Plan, auto \in BOOLEAN : Extend(p, s, pl, auto) \/ Open(p, s, pl, auto)
    BY <1>2 DEF Purchase
  <2>2. CASE Extend(p, s, pl, auto)
    <3>1. UNCHANGED <<owner, start, status, now>> /\ status[s] = "active"
      BY <2>2 DEF Extend, Active
    <3>2. end[s] \in Nat /\ Days[pl] \in Nat \ {0}
      BY DEF IInv, TypeOK
    <3>3. end' = [end EXCEPT ![s] = end[s] + Days[pl]] /\ end[s] + Days[pl] # NoEnd
      BY <2>2, <3>2 DEF Extend, NoEnd
    <3>4. Later /\ Closes /\ Moves
      BY <3>1, <3>3 DEF IInv, TypeOK, Later, Closes, Moves
    <3> QED
      BY <3>1, <3>4, PeriodsKept
  <2>3. CASE Open(p, s, pl, auto)
    <3>1. now + Days[pl] \in Nat
      BY DEF IInv, TypeOK
    <3>2. now' = now /\ Insert(p, s, pl, now + Days[pl], auto)
      BY <2>3 DEF Open
    <3>3. \A u \in Active(p) : end[u] # NoEnd /\ end[u] <= now
      BY <2>3 DEF Open
    <3>4. status' = [u \in Sub |-> CASE u = s -> "active"
                                      [] u \in Active(p) -> "expired"
                                      [] OTHER -> status[u]]
      BY <2>3 DEF Open, Superseded
    <3>7. s \notin Active(p)
      BY <3>2 DEF Insert, Unused, Active
    <3>5. status'[s] = "active"
      BY <3>4, <3>7
    <3>6. \A u \in Sub \ {s} : status'[u] = IF u \in Active(p) THEN "expired" ELSE status[u]
      BY <3>4
    <3> QED
      BY <3>1, <3>2, <3>3, <3>5, <3>6, PeriodsInsert
  <2> QED
    BY <2>1, <2>2, <2>3
<1>3. ASSUME NEW w \in Worker, NEW s \in Sub, Renew(w, s) PROVE PeriodsIInv'
  <2>1. UNCHANGED <<owner, start, status, now>> /\ status[s] = "active" /\ plan[s] \in Plan
    BY <1>3 DEF Renew, MustClose, IInv, Rows
  <2>2. PICK e : e = end[s] + Days[plan[s]]
    OBVIOUS
  <2>3. e # NoEnd
    <3>1. end[s] \in Nat /\ Days[plan[s]] \in Nat \ {0}
      BY <2>1 DEF IInv, TypeOK
    <3> QED
      BY <2>2, <3>1 DEF NoEnd
  <2>4. end' = [end EXCEPT ![s] = e]
    BY <1>3, <2>2 DEF Renew
  <2>5. Later /\ Closes /\ Moves
    BY <2>1, <2>3, <2>4 DEF IInv, TypeOK, Later, Closes, Moves
  <2> QED
    BY <2>1, <2>5, PeriodsKept
<1>4. ASSUME NEW w \in Worker, NEW s \in Sub, Expire(w, s) PROVE PeriodsIInv'
  <2>1. /\ UNCHANGED <<owner, start, end, now>>
        /\ status' = [status EXCEPT ![s] = "expired"]
        /\ status[s] = "active" /\ end[s] # NoEnd /\ end[s] <= now
    BY <1>4 DEF Expire, Expired, MustClose
  <2>2. Later /\ Closes /\ Moves
    BY <2>1 DEF IInv, TypeOK, Later, Closes, Moves
  <2> QED
    BY <2>1, <2>2, PeriodsKept
<1>5. ASSUME NEW c \in Canceller, CancelSave(c) PROVE PeriodsIInv'
  <2>1. /\ UNCHANGED <<owner, start, end, now>>
        /\ canceling[c] \in Sub /\ status[canceling[c]] # "none"
        /\ status' = [status EXCEPT ![canceling[c]] = "canceled"]
    BY <1>5 DEF CancelSave, IInv, Rows
  <2>2. Later /\ Closes /\ Moves
    BY <2>1 DEF IInv, TypeOK, Later, Closes, Moves
  <2> QED
    BY <2>1, <2>2, PeriodsKept
<1>6. ASSUME NEW p \in Profile, NEW s \in Sub, Give(p, s) PROVE PeriodsIInv'
  <2>1. PICK pl \in Plan : Insert(p, s, pl, NoEnd, FALSE)
    BY <1>6 DEF Give
  <2>2. Active(p) = {} /\ now' = now /\ status' = [status EXCEPT ![s] = "active"]
    BY <1>6 DEF Give
  <2>3. /\ status'[s] = "active"
        /\ \A u \in Sub \ {s} : status'[u] = IF u \in Active(p) THEN "expired" ELSE status[u]
    BY <2>2 DEF IInv, TypeOK
  <2> QED
    BY <2>1, <2>2, <2>3, PeriodsInsert DEF NoEnd
<1>7. \/ UNCHANGED <<owner, start, end, status>> /\ (now' = now \/ now' = now + 1)
      \/ \E p \in Profile : Purchase(p)
      \/ \E w \in Worker, s \in Sub : Renew(w, s) \/ Expire(w, s)
      \/ \E c \in Canceller : CancelSave(c)
      \/ \E p \in Profile, s \in Sub : Give(p, s)
  <2> USE DEF rows
  <2>1. CASE UNCHANGED vars
    BY <2>1 DEF vars
  <2>2. CASE Tick \/ \E pl \in Plan : EditPrice(pl)
    BY <2>2 DEF Tick, EditPrice
  <2>3. CASE \E w \in Worker : StartSweep(w) \/ Sweep(w)
    BY <2>3 DEF StartSweep, Sweep, Skip, Abort, FinishSweep
  <2>4. CASE \E b \in Tab : (\E s \in Sub : LoadToggle(b, s)) \/ SaveToggle(b)
    BY <2>4 DEF LoadToggle, SaveToggle
  <2>5. CASE \E c \in Canceller : (\E s \in Sub : ListForCancel(c, s)) \/ CancelRead(c)
                                 \/ CancelSync(c)
    BY <2>5 DEF ListForCancel, CancelRead, CancelSync
  <2>6. CASE \E f \in Form : (\E p \in Profile : LoadForm(f, p)) \/ SaveForm(f)
    BY <2>6 DEF LoadForm, SaveForm
  <2> QED
    BY <2>1, <2>2, <2>3, <2>4, <2>5, <2>6 DEF Next
<1> QED
  BY <1>1, <1>2, <1>3, <1>4, <1>5, <1>6, <1>7

\* No time is sold to a profile twice, for any buyers, sweeps, cancels, gifts and plans: a
\* sweep that works on an old list renews nothing that was bought over or closed since.
THEOREM PeriodsDoNotOverlapHolds == Spec => []PeriodsDoNotOverlap
<1>1. Init => PeriodsIInv
  BY DEF Init, PeriodsIInv, Sequel, PeriodsDoNotOverlap
<1>2. IInv /\ PeriodsIInv /\ [Next]_vars => PeriodsIInv'
  BY PeriodsStep
<1>3. PeriodsIInv => PeriodsDoNotOverlap
  BY DEF PeriodsIInv
<1> QED
  BY <1>1, <1>2, <1>3, InductiveInvariant, PTL DEF Spec

-----------------------------------------------------------------------------
(* The cache of the profile                                                 *)

\* The cache of a profile that has had a subscription is that of its active row; a row
\* that has run out, and none, may also be "not premium".
SyncedCache(p) ==
    /\ \A s \in Active(p) : \/ cache[p] = Granted(end[s])
                            \/ /\ ~cache[p].premium
                               /\ ~Running(end[s])
    /\ Active(p) = {} /\ (\E s \in Sub : owner[s] = p) => ~cache[p].premium

CacheIInv == \A p \in Profile : SyncedCache(p)

\* A step that touches neither this profile's cache nor its rows and their ends.
LEMMA CacheKept ==
  ASSUME IInv, NEW p \in Profile, SyncedCache(p), cache'[p] = cache[p], Active(p)' = Active(p),
         \A s \in Active(p) : end'[s] = end[s],
         now' = now \/ now' = now + 1,
         \A s \in Sub : owner'[s] = p => owner[s] = p
  PROVE  SyncedCache(p)'
<1>1. Active(p) \subseteq Sub
  BY DEF Active
<1>2. now \in Nat /\ \A s \in Sub : end[s] \in Nat
  BY DEF IInv, TypeOK
<1>3. ASSUME NEW s \in Active(p), ~Running(end[s]) PROVE ~Running(end[s])'
  <2>1. end'[s] = end[s] /\ end[s] \in Nat /\ end[s] # 0 /\ ~(end[s] > now)
    BY <1>1, <1>2, <1>3 DEF Running, NoEnd
  <2>2. \A e, m, n \in Nat : ~(e > m) /\ (n = m \/ n = m + 1) => ~(e > n)
    OBVIOUS
  <2>3. now' \in Nat
    BY <1>2
  <2> QED
    BY <1>2, <2>1, <2>2, <2>3 DEF Running, NoEnd
<1>4. ASSUME NEW s \in Active(p)'
      PROVE  \/ cache'[p] = Granted(end'[s])
             \/ /\ ~cache'[p].premium
                /\ ~Running(end[s])'
  <2>1. s \in Active(p)
    OBVIOUS
  <2>2. end'[s] = end[s]
    BY <2>1
  <2>3. CASE cache[p] = Granted(end[s])
    BY <2>2, <2>3
  <2>4. CASE ~cache[p].premium /\ ~Running(end[s])
    BY <1>3, <2>1, <2>4
  <2> QED
    BY <2>1, <2>3, <2>4 DEF SyncedCache
<1>5. Active(p)' = {} /\ (\E s \in Sub : owner'[s] = p) => ~cache'[p].premium
  BY DEF SyncedCache
<1> QED
  BY <1>4, <1>5 DEF SyncedCache

\* Purchases.
LEMMA CacheBought ==
  ASSUME IInv, CacheIInv, NEW p \in Profile, Purchase(p) PROVE CacheIInv'
<1>1. PICK s \in Sub, pl \in Plan, auto \in BOOLEAN : Extend(p, s, pl, auto) \/ Open(p, s, pl, auto)
  BY DEF Purchase
<1>2. CASE Extend(p, s, pl, auto)
  <2>1. /\ s \in Active(p) /\ now' = now /\ owner' = owner /\ status' = status
        /\ cache' = [cache EXCEPT ![p] = Granted(end[s] + Days[pl])]
        /\ end' = [end EXCEPT ![s] = @ + Days[pl]]
    BY <1>2 DEF Extend
  <2>2. \A q \in Profile : Active(q)' = Active(q)
    BY <2>1 DEF Active
  <2>3. \A u \in Active(p) : u = s
    BY <2>1 DEF IInv, OneActive
  <2>4. cache'[p] = Granted(end'[s])
    BY <2>1 DEF IInv, TypeOK
  <2>5. SyncedCache(p)'
    BY <2>1, <2>2, <2>3, <2>4 DEF SyncedCache, Granted
  <2>6. ASSUME NEW q \in Profile, q # p PROVE SyncedCache(q)'
    <3>1. \A u \in Active(q) : u # s /\ end'[u] = end[u]
      BY <2>1, <2>6 DEF Active, IInv, TypeOK
    <3>2. cache'[q] = cache[q]
      BY <2>1, <2>6 DEF IInv, TypeOK
    <3> QED
      BY <2>1, <2>2, <3>1, <3>2, CacheKept DEF CacheIInv
  <2> QED
    BY <2>5, <2>6 DEF CacheIInv
<1>3. CASE Open(p, s, pl, auto)
  <2>1. /\ status[s] = "none" /\ now' = now
        /\ owner' = [owner EXCEPT ![s] = p]
        /\ end' = [end EXCEPT ![s] = now + Days[pl]]
        /\ status' = [u \in Sub |-> CASE u = s -> "active"
                                      [] u \in Active(p) -> "expired"
                                      [] OTHER -> status[u]]
        /\ cache' = [cache EXCEPT ![p] = Granted(now + Days[pl])]
    BY <1>3 DEF Open, Insert, Unused, Superseded
  <2>2. Active(p)' = {s}
    BY <2>1 DEF Active, IInv, TypeOK
  <2>3. cache'[p] = Granted(end'[s])
    BY <2>1 DEF IInv, TypeOK
  <2>4. SyncedCache(p)'
    BY <2>2, <2>3 DEF SyncedCache, Granted
  <2>5. ASSUME NEW q \in Profile, q # p PROVE SyncedCache(q)'
    <3>1. Active(q)' = Active(q)
      BY <2>1, <2>5 DEF Active, IInv, TypeOK
    <3>2. \A u \in Active(q) : u # s /\ end'[u] = end[u]
      BY <2>1 DEF Active, IInv, TypeOK
    <3>3. cache'[q] = cache[q] /\ \A u \in Sub : owner'[u] = q => owner[u] = q
      BY <2>1, <2>5 DEF IInv, TypeOK
    <3> QED
      BY <2>1, <3>1, <3>2, <3>3, CacheKept DEF CacheIInv
  <2> QED
    BY <2>4, <2>5 DEF CacheIInv
<1> QED
  BY <1>1, <1>2, <1>3

\* Renewals and expiries.
LEMMA CacheSwept ==
  ASSUME IInv, CacheIInv, NEW w \in Worker, NEW s \in Sub, Renew(w, s) \/ Expire(w, s)
  PROVE  CacheIInv'
<1>1. PICK p \in Profile : p = owner[s]
  BY DEF Renew, Expire, MustClose, IInv, Rows
<1>2. s \in Active(p) /\ \A u \in Active(p) : u = s
  BY <1>1 DEF Renew, Expire, MustClose, Active, IInv, OneActive
<1>3. CASE Renew(w, s)
  <2>1. PICK e \in Nat : e = end[s] + Days[plan[s]]
    <3>1. plan[s] \in Plan /\ end[s] \in Nat
      BY <1>3 DEF Renew, MustClose, IInv, Rows, TypeOK
    <3>2. Days[plan[s]] \in Nat
      <4>1. \A pl \in Plan : Days[pl] \in Nat
        BY DEF SubscriptionsAssumption
      <4> QED
        BY <3>1, <4>1
    <3>3. end[s] + Days[plan[s]] \in Nat
      BY <3>1, <3>2
    <3> QED
      BY <3>3
  <2>2. /\ now' = now /\ owner' = owner /\ status' = status
        /\ end' = [end EXCEPT ![s] = e]
        /\ cache' = [cache EXCEPT ![p] = IF Running(e) THEN Granted(e) ELSE NotPremium]
    BY <1>1, <1>3, <2>1 DEF Renew
  <2>3. \A q \in Profile : Active(q)' = Active(q)
    BY <2>2 DEF Active
  <2>4. end'[s] = e /\ cache'[p] = IF Running(e) THEN Granted(e) ELSE NotPremium
    BY <2>2 DEF IInv, TypeOK
  <2>5. SyncedCache(p)'
    <3>1. Active(p)' # {} /\ \A u \in Active(p)' : u = s
      BY <1>2, <2>3
    <3>2. Running(end[s])' = Running(e)
      BY <2>2, <2>4 DEF Running
    <3>3. CASE Running(e)
      BY <2>4, <3>1, <3>3 DEF SyncedCache
    <3>4. CASE ~Running(e)
      <4>1. ~cache'[p].premium
        BY <2>4, <3>4 DEF NotPremium
      <4> QED
        BY <3>1, <3>2, <3>4, <4>1 DEF SyncedCache
    <3> QED
      BY <3>3, <3>4
  <2>6. ASSUME NEW q \in Profile, q # p PROVE SyncedCache(q)'
    <3>1. \A u \in Active(q) : u # s /\ end'[u] = end[u]
      BY <1>1, <2>2, <2>6 DEF Active, IInv, TypeOK
    <3>2. cache'[q] = cache[q]
      BY <2>2, <2>6 DEF IInv, TypeOK
    <3> QED
      BY <2>2, <2>3, <3>1, <3>2, CacheKept DEF CacheIInv
  <2> QED
    BY <2>5, <2>6 DEF CacheIInv
<1>4. CASE Expire(w, s)
  <2>1. /\ now' = now /\ owner' = owner /\ end' = end
        /\ status' = [status EXCEPT ![s] = "expired"]
        /\ cache' = [cache EXCEPT ![p] = NotPremium]
    BY <1>1, <1>4 DEF Expire, Expired, Revoked
  <2>2. \A q \in Profile : Active(q)' = Active(q) \ {s}
    BY <2>1 DEF Active, IInv, TypeOK
  <2>3. Active(p)' = {} /\ cache'[p] = NotPremium
    BY <1>2, <2>1, <2>2 DEF IInv, TypeOK
  <2>4. SyncedCache(p)'
    BY <2>3 DEF SyncedCache, NotPremium
  <2>5. ASSUME NEW q \in Profile, q # p PROVE SyncedCache(q)'
    <3>1. Active(q)' = Active(q)
      BY <1>1, <2>2, <2>5 DEF Active
    <3>2. cache'[q] = cache[q]
      BY <2>1, <2>5 DEF IInv, TypeOK
    <3> QED
      BY <2>1, <3>1, <3>2, CacheKept DEF CacheIInv
  <2> QED
    BY <2>4, <2>5 DEF CacheIInv
<1> QED
  BY <1>3, <1>4

\* The sweep's last step takes away premium that no active row backs.
LEMMA CacheFinished ==
  ASSUME IInv, CacheIInv, NEW w \in Worker, FinishSweep(w) PROVE CacheIInv'
<1>1. /\ now' = now /\ owner' = owner /\ status' = status /\ end' = end
      /\ \A p \in Profile : cache'[p] = IF Lapsed(w, p) THEN [cache[p] EXCEPT !.premium = FALSE]
                                        ELSE cache[p]
  BY DEF FinishSweep, rows
<1>2. \A q \in Profile : Active(q)' = Active(q)
  BY <1>1 DEF Active
<1>3. ASSUME NEW p \in Profile, Lapsed(w, p) PROVE SyncedCache(p)'
  <2>1. Active(p)' = {}
    BY <1>2, <1>3 DEF Lapsed
  <2>2. cache[p] = [premium |-> cache[p].premium, until |-> cache[p].until]
    BY DEF IInv, TypeOK, Cache
  <2>3. cache'[p] = [premium |-> FALSE, until |-> cache[p].until]
    BY <1>1, <1>3, <2>2
  <2>4. ~cache'[p].premium
    BY <2>3
  <2> QED
    BY <2>1, <2>4 DEF SyncedCache
<1>4. ASSUME NEW p \in Profile, ~Lapsed(w, p) PROVE SyncedCache(p)'
  <2>1. cache'[p] = cache[p]
    BY <1>1, <1>4
  <2> QED
    BY <1>1, <1>2, <2>1, CacheKept DEF CacheIInv
<1> QED
  BY <1>3, <1>4 DEF CacheIInv

\* Without forms, gifts and cancels, every other step leaves caches and rows alone.
LEMMA CacheStep ==
  ASSUME Canceller = {}, Form = {}, Gifted = {} PROVE IInv /\ CacheIInv /\ [Next]_vars => CacheIInv'
<1> SUFFICES ASSUME IInv, CacheIInv, [Next]_vars PROVE CacheIInv'
  OBVIOUS
<1>1. ASSUME NEW p \in Profile, Purchase(p) PROVE CacheIInv'
  BY <1>1, CacheBought
<1>2. ASSUME NEW w \in Worker, NEW s \in Sub, Renew(w, s) \/ Expire(w, s) PROVE CacheIInv'
  BY <1>2, CacheSwept
<1>3. ASSUME NEW w \in Worker, FinishSweep(w) PROVE CacheIInv'
  BY <1>3, CacheFinished
<1>4. ASSUME UNCHANGED <<owner, status, end, cache>>, now' = now \/ now' = now + 1 PROVE CacheIInv'
  <2>1. \A q \in Profile : Active(q)' = Active(q)
    BY <1>4 DEF Active
  <2>2. \A p \in Profile : SyncedCache(p)'
    BY <1>4, <2>1, CacheKept DEF CacheIInv
  <2> QED
    BY <2>2 DEF CacheIInv
<1>5. \/ UNCHANGED <<owner, status, end, cache>> /\ (now' = now \/ now' = now + 1)
      \/ \E p \in Profile : Purchase(p)
      \/ \E w \in Worker, s \in Sub : Renew(w, s) \/ Expire(w, s)
      \/ \E w \in Worker : FinishSweep(w)
  <2> USE DEF rows
  <2>1. CASE UNCHANGED vars
    BY <2>1 DEF vars
  <2>2. CASE Tick \/ \E pl \in Plan : EditPrice(pl)
    BY <2>2 DEF Tick, EditPrice
  <2>3. CASE \E w \in Worker : StartSweep(w) \/ Sweep(w)
    BY <2>3 DEF StartSweep, Sweep, Skip, Abort
  <2>4. CASE \E b \in Tab : (\E s \in Sub : LoadToggle(b, s)) \/ SaveToggle(b)
    BY <2>4 DEF LoadToggle, SaveToggle
  <2>5. ASSUME NEW p \in Profile, NEW s \in Sub, Give(p, s) PROVE FALSE
    BY <2>5 DEF Give
  <2> QED
    BY <2>1, <2>2, <2>3, <2>4, <2>5 DEF Next
<1> QED
  BY <1>1, <1>2, <1>3, <1>4, <1>5

\* _sync_profile_cache: the player lets a profile in exactly while its subscription runs, for
\* any buyers, sweeps, plans and tabs, as long as nothing writes the cache beside it: no
\* profile form, no cancel and no gift from the admin, each of which breaks it.
THEOREM CacheAgreesHolds ==
  ASSUME Canceller = {}, Form = {}, Gifted = {}
  PROVE  Spec => []CacheAgrees
<1>1. Init => CacheIInv
  <2> SUFFICES ASSUME Init, NEW p \in Profile PROVE SyncedCache(p)
    BY DEF CacheIInv
  <2>0. owner = [s \in Sub |-> NoProfile] /\ NoProfile # p
    BY DEF Init
  <2>2. \A s \in Sub : owner[s] # p
    BY <2>0
  <2>3. Active(p) = {}
    BY <2>2 DEF Active
  <2> QED
    BY <2>2, <2>3 DEF SyncedCache
<1>2. IInv /\ CacheIInv /\ [Next]_vars => CacheIInv'
  BY CacheStep
<1>3. IInv /\ CacheIInv => CacheAgrees
  <2> SUFFICES ASSUME IInv, CacheIInv, NEW p \in Profile, \E s \in Sub : owner[s] = p
               PROVE  Gate(p) <=> Entitled(p)
    BY DEF CacheAgrees
  <2>1. SyncedCache(p)
    BY DEF CacheIInv
  <2>2. CASE Active(p) = {}
    BY <2>1, <2>2 DEF SyncedCache, Gate, Entitled
  <2>3. ASSUME NEW s \in Active(p) PROVE Gate(p) <=> Entitled(p)
    <3>1. \A u \in Active(p) : u = s
      BY <2>3 DEF IInv, OneActive
    <3>2. Entitled(p) <=> Running(end[s])
      BY <3>1 DEF Entitled
    <3>3. CASE cache[p] = Granted(end[s])
      BY <3>2, <3>3 DEF Gate, Granted
    <3>4. CASE ~cache[p].premium /\ ~Running(end[s])
      BY <3>2, <3>4 DEF Gate
    <3> QED
      BY <2>1, <3>3, <3>4 DEF SyncedCache
  <2> QED
    BY <2>2, <2>3
<1> QED
  BY <1>1, <1>2, <1>3, InductiveInvariant, PTL DEF Spec
=============================================================================
