--------------------------- MODULE Subscriptions ----------------------------
(***************************************************************************)
(* VIP subscriptions paid in coins, and the copy of their state that the   *)
(* profile caches for the player: users/services/subscriptions.py, the     *)
(* hourly task expire_premium, and the admin and profile pages that touch  *)
(* the same rows.                                                          *)
(*                                                                         *)
(* purchase and close_or_renew run in one transaction that locks the       *)
(* active Subscription row first, so each is one step.  cancel,            *)
(* toggle_auto_renew and the profile forms have neither a lock nor a       *)
(* transaction around their read and write, so each is several.            *)
(*                                                                         *)
(* Dates are whole units of time counted from 1; 0 is NULL.                *)
(***************************************************************************)
EXTENDS Integers

CONSTANTS
    Profile,
    Plan,
    Sub,         \* primary keys, in the order in which rows are created
    Worker,      \* Celery workers that may run expire_premium
    Tab,         \* browser tabs in which auto_renew is toggled
    Canceller,   \* admins who run the "cancel" action
    Form,        \* whole-row saves of a profile (settings_view, ProfileInline)
    Gifted,      \* profiles an admin may give an endless subscription
    Days,        \* SubscriptionPlan.duration_days
    Prices,      \* prices an admin may give a plan, in coins
    Coins,       \* the coins of a profile at the start
    NoProfile,
    NoPlan,
    NoSub,
    MaxTime      \* bound: the clock stops there

ASSUME SubscriptionsAssumption ==
    /\ Sub \subseteq Nat
    /\ Gifted \subseteq Profile
    /\ Days \in [Plan -> Nat \ {0}]
    /\ Prices \subseteq Nat
    /\ Coins \in Nat
    /\ NoProfile \notin Profile /\ NoPlan \notin Plan /\ NoSub \notin Sub
    /\ MaxTime \in Nat \ {0}

VARIABLES
    now,
    price,      \* SubscriptionPlan.price_coins
    owner,      \* Subscription.profile
    plan,       \* Subscription.plan
    status,     \* Subscription.status, "none" before the row exists
    start,      \* Subscription.start_at
    end,        \* Subscription.end_at
    renew,      \* Subscription.auto_renew
    paid,       \* the days bought by the ledger rows "subscription:<pk>"
    balance,    \* Profile.balance
    cache,      \* Profile.is_premium and premium_until
    busy,       \* workers inside expire_premium
    since,      \* per worker: the time its task started
    sweep,      \* per worker: stale subscriptions its loop has still to visit
    toggling,   \* per tab: the subscription it has read
    turned,     \* per tab: the auto_renew it will write
    canceling,  \* per canceller: the subscription it is at
    phase,      \* per canceller: how far cancel() has got
    synced,     \* per canceller: the cache it will write
    editing,    \* per form: the profile it has loaded
    stale       \* per form: the cache it has loaded

vars == <<now, price, owner, plan, status, start, end, renew, paid, balance,
          cache, busy, since, sweep, toggling, turned, canceling, phase, synced,
          editing, stale>>

rows   == <<owner, plan, status, start, end, renew, paid>>
beat   == <<busy, since, sweep>>
tabs   == <<toggling, turned>>
admins == <<canceling, phase, synced>>
forms  == <<editing, stale>>

NoEnd == 0

Cache == [premium : BOOLEAN, until : Nat]

NotPremium == [premium |-> FALSE, until |-> NoEnd]

Running(e) == e = NoEnd \/ e > now

Active(p) == {s \in Sub : owner[s] = p /\ status[s] = "active"}

\* Before its first subscription a profile may carry premium that an admin gave.
Init ==
    /\ now = 1
    /\ price \in [Plan -> Prices \ {0}]
    /\ owner = [s \in Sub |-> NoProfile]
    /\ plan = [s \in Sub |-> NoPlan]
    /\ status = [s \in Sub |-> "none"]
    /\ start = [s \in Sub |-> 0]
    /\ end = [s \in Sub |-> NoEnd]
    /\ renew = [s \in Sub |-> FALSE]
    /\ paid = [s \in Sub |-> 0]
    /\ balance = [p \in Profile |-> Coins]
    /\ cache \in [Profile -> {NotPremium, [premium |-> TRUE, until |-> 2]}]
    /\ busy = {}
    /\ since = [w \in Worker |-> 0]
    /\ sweep = [w \in Worker |-> {}]
    /\ toggling = [b \in Tab |-> NoSub]
    /\ turned = [b \in Tab |-> FALSE]
    /\ canceling = [c \in Canceller |-> NoSub]
    /\ phase = [c \in Canceller |-> "idle"]
    /\ synced = [c \in Canceller |-> NotPremium]
    /\ editing = [f \in Form |-> NoProfile]
    /\ stale = [f \in Form |-> NotPremium]

-----------------------------------------------------------------------------
(* users/services/subscriptions.py: purchase                               *)

\* _sync_profile_cache: the cache of the active, unexpired subscription, which
\* is the only one, or of none.
Granted(e) == [premium |-> TRUE, until |-> e]

\* wallet.debit: an amount of 0 is a ValueError, too large a one is refused, and
\* either rolls the purchase back.
CanPay(p, pl) == price[pl] > 0 /\ price[pl] <= balance[p]

Pay(p, s, pl) ==
    /\ balance' = [balance EXCEPT ![p] = @ - price[pl]]
    /\ paid' = [paid EXCEPT ![s] = @ + Days[pl]]

\* The active subscription is still running: it gets longer.
Extend(p, s, pl, auto) ==
    /\ s \in Active(p) /\ end[s] # NoEnd /\ end[s] > now
    /\ CanPay(p, pl)
    /\ end' = [end EXCEPT ![s] = @ + Days[pl]]
    /\ plan' = [plan EXCEPT ![s] = pl]
    /\ renew' = [renew EXCEPT ![s] = auto \/ @]
    /\ Pay(p, s, pl)
    /\ cache' = [cache EXCEPT ![p] = Granted(end[s] + Days[pl])]
    /\ UNCHANGED <<now, price, owner, status, start, beat, tabs, admins, forms>>

Unused == {s \in Sub : status[s] = "none"}

\* A new row, after every earlier one.  The unique constraint on active rows turns
\* away a creator that still sees no active row when there is one.
Insert(p, s, pl, e, auto) ==
    /\ s \in Unused /\ \A u \in Unused : s <= u
    /\ owner' = [owner EXCEPT ![s] = p]
    /\ plan' = [plan EXCEPT ![s] = pl]
    /\ start' = [start EXCEPT ![s] = now]
    /\ end' = [end EXCEPT ![s] = e]
    /\ renew' = [renew EXCEPT ![s] = auto]

\* Mutant: the stale row is not moved to the past.
Superseded_Kept(p) == {}

\* The active row the beat has not closed yet.
Superseded(p) == Active(p)

\* There is no active subscription, or it has run out: a new period begins.
Open(p, s, pl, auto) ==
    /\ \A u \in Active(p) : end[u] # NoEnd /\ end[u] <= now
    /\ CanPay(p, pl)
    /\ Insert(p, s, pl, now + Days[pl], auto)
    /\ status' = [u \in Sub |-> CASE u = s -> "active"
                                  [] u \in Superseded(p) -> "expired"
                                  [] OTHER -> status[u]]
    /\ Pay(p, s, pl)
    /\ cache' = [cache EXCEPT ![p] = Granted(now + Days[pl])]
    /\ UNCHANGED <<now, price, beat, tabs, admins, forms>>

Purchase(p) ==
    \E s \in Sub, pl \in Plan, auto \in BOOLEAN :
        Extend(p, s, pl, auto) \/ Open(p, s, pl, auto)

-----------------------------------------------------------------------------
(* users/tasks.py: expire_premium, and close_or_renew                      *)

Due(s) == status[s] = "active" /\ end[s] # NoEnd /\ end[s] < now

StartSweep(w) ==
    /\ w \notin busy
    /\ busy' = busy \cup {w}
    /\ since' = [since EXCEPT ![w] = now]
    /\ sweep' = [sweep EXCEPT ![w] = {s \in Sub : Due(s)}]
    /\ UNCHANGED <<now, price, rows, balance, cache, tabs, admins, forms>>

\* The loop takes the newest first (Meta.ordering), whatever happened to it since.
Visits(w, s) ==
    /\ s \in sweep[w] /\ \A u \in sweep[w] : u <= s
    /\ sweep' = [sweep EXCEPT ![w] = @ \ {s}]

\* Mutant: the row is not checked again under the lock.
MustClose_Unchecked(s) == TRUE

MustClose(s) == status[s] = "active" /\ end[s] # NoEnd /\ end[s] <= now

Skip(w, s) ==
    /\ Visits(w, s)
    /\ ~MustClose(s)
    /\ UNCHANGED <<now, price, rows, balance, cache, busy, since, tabs, admins,
                   forms>>

\* _sync_profile_cache after a renewal, which may be too late to reach the present.
Renew(w, s) ==
    LET p == owner[s]
        e == end[s] + Days[plan[s]] IN
    /\ Visits(w, s)
    /\ MustClose(s) /\ renew[s] /\ CanPay(p, plan[s])
    /\ end' = [end EXCEPT ![s] = e]
    /\ Pay(p, s, plan[s])
    /\ cache' = [cache EXCEPT ![p] = IF Running(e) THEN Granted(e) ELSE NotPremium]
    /\ UNCHANGED <<now, price, owner, plan, status, start, renew, busy, since,
                   tabs, admins, forms>>

\* Mutant: the end is moved before the debit, whose savepoint alone rolls back.
Expired_KeepsExtension(s) ==
    [end EXCEPT ![s] = IF renew[s] THEN @ + Days[plan[s]] ELSE @]

Expired(s) == end

\* Mutant: only the debit that succeeds is thought of.
Unpaid_NeverRefused(s) == ~renew[s]

Unpaid(s) == ~renew[s] \/ price[plan[s]] > balance[owner[s]]

Revoked(p) == [cache EXCEPT ![p] = NotPremium]

Expire(w, s) ==
    /\ Visits(w, s)
    /\ MustClose(s) /\ Unpaid(s)
    /\ status' = [status EXCEPT ![s] = "expired"]
    /\ end' = Expired(s)
    /\ cache' = Revoked(owner[s])
    /\ UNCHANGED <<now, price, owner, plan, start, renew, paid, balance, busy,
                   since, tabs, admins, forms>>

\* A plan that costs 0: wallet.debit raises ValueError, which nothing catches; the
\* task ends there, and neither the rest of the loop nor the legacy step runs.
Abort(w, s) ==
    /\ s \in sweep[w] /\ \A u \in sweep[w] : u <= s
    /\ MustClose(s) /\ renew[s] /\ price[plan[s]] = 0
    /\ sweep' = [sweep EXCEPT ![w] = {}]
    /\ busy' = busy \ {w}
    /\ since' = [since EXCEPT ![w] = 0]
    /\ UNCHANGED <<now, price, rows, balance, cache, tabs, admins, forms>>

\* Premium that an admin gave by hand and that has run out.
Lapsed(w, p) ==
    /\ cache[p].premium
    /\ cache[p].until # NoEnd /\ cache[p].until < since[w]
    /\ Active(p) = {}

FinishSweep(w) ==
    /\ w \in busy /\ sweep[w] = {}
    /\ cache' = [p \in Profile |-> IF Lapsed(w, p)
                                   THEN [cache[p] EXCEPT !.premium = FALSE]
                                   ELSE cache[p]]
    /\ busy' = busy \ {w}
    /\ since' = [since EXCEPT ![w] = 0]
    /\ UNCHANGED <<now, price, rows, balance, sweep, tabs, admins, forms>>

Sweep(w) ==
    \/ \E s \in Sub : Skip(w, s) \/ Renew(w, s) \/ Expire(w, s) \/ Abort(w, s)
    \/ FinishSweep(w)

-----------------------------------------------------------------------------
(* toggle_auto_renew: read, then write                                     *)

LoadToggle(b, s) ==
    /\ toggling[b] = NoSub
    /\ status[s] = "active"
    /\ toggling' = [toggling EXCEPT ![b] = s]
    /\ turned' = [turned EXCEPT ![b] = ~renew[s]]
    /\ UNCHANGED <<now, price, rows, balance, cache, beat, admins, forms>>

SaveToggle(b) ==
    /\ toggling[b] # NoSub
    /\ renew' = [renew EXCEPT ![toggling[b]] = turned[b]]
    /\ toggling' = [toggling EXCEPT ![b] = NoSub]
    /\ turned' = [turned EXCEPT ![b] = FALSE]
    /\ UNCHANGED <<now, price, owner, plan, status, start, end, paid, balance,
                   cache, beat, admins, forms>>

-----------------------------------------------------------------------------
(* cancel, from the admin's list of active subscriptions                   *)

ListForCancel(c, s) ==
    /\ phase[c] = "idle"
    /\ status[s] = "active"
    /\ canceling' = [canceling EXCEPT ![c] = s]
    /\ phase' = [phase EXCEPT ![c] = "listed"]
    /\ UNCHANGED <<now, price, rows, balance, cache, beat, tabs, synced, forms>>

CancelSave(c) ==
    /\ phase[c] = "listed"
    /\ status' = [status EXCEPT ![canceling[c]] = "canceled"]
    /\ phase' = [phase EXCEPT ![c] = "saved"]
    /\ UNCHANGED <<now, price, owner, plan, start, end, renew, paid, balance,
                   cache, beat, tabs, canceling, synced, forms>>

\* _sync_profile_cache, the query
CancelRead(c) ==
    LET live == {s \in Active(owner[canceling[c]]) : Running(end[s])} IN
    /\ phase[c] = "saved"
    /\ \/ /\ live = {}
          /\ synced' = [synced EXCEPT ![c] = NotPremium]
       \/ \E s \in live :
             /\ \A u \in live : u <= s
             /\ synced' = [synced EXCEPT ![c] = Granted(end[s])]
    /\ phase' = [phase EXCEPT ![c] = "read"]
    /\ UNCHANGED <<now, price, rows, balance, cache, beat, tabs, canceling, forms>>

\* _sync_profile_cache, the save
CancelSync(c) ==
    /\ phase[c] = "read"
    /\ cache' = [cache EXCEPT ![owner[canceling[c]]] = synced[c]]
    /\ canceling' = [canceling EXCEPT ![c] = NoSub]
    /\ phase' = [phase EXCEPT ![c] = "idle"]
    /\ synced' = [synced EXCEPT ![c] = NotPremium]
    /\ UNCHANGED <<now, price, rows, balance, beat, tabs, forms>>

-----------------------------------------------------------------------------
(* Forms                                                                   *)

LoadForm(f, p) ==
    /\ editing[f] = NoProfile
    /\ editing' = [editing EXCEPT ![f] = p]
    /\ stale' = [stale EXCEPT ![f] = cache[p]]
    /\ UNCHANGED <<now, price, rows, balance, cache, beat, tabs, admins>>

SaveForm(f) ==
    /\ editing[f] # NoProfile
    /\ cache' = [cache EXCEPT ![editing[f]] = stale[f]]
    /\ editing' = [editing EXCEPT ![f] = NoProfile]
    /\ stale' = [stale EXCEPT ![f] = NotPremium]
    /\ UNCHANGED <<now, price, rows, balance, beat, tabs, admins>>

\* The "add subscription" page of the admin, end_at left empty.
Give(p, s) ==
    /\ p \in Gifted
    /\ Active(p) = {}
    /\ \E pl \in Plan : Insert(p, s, pl, NoEnd, FALSE)
    /\ status' = [status EXCEPT ![s] = "active"]
    /\ UNCHANGED <<now, price, paid, balance, cache, beat, tabs, admins, forms>>

EditPrice(pl) ==
    /\ price' \in [Plan -> Prices]
    /\ \A other \in Plan \ {pl} : price'[other] = price[other]
    /\ price' # price
    /\ UNCHANGED <<now, rows, balance, cache, beat, tabs, admins, forms>>

-----------------------------------------------------------------------------
Tick ==
    /\ now < MaxTime
    /\ now' = now + 1
    /\ UNCHANGED <<price, rows, balance, cache, beat, tabs, admins, forms>>

Next ==
    \/ Tick
    \/ \E p \in Profile : Purchase(p)
    \/ \E w \in Worker : StartSweep(w) \/ Sweep(w)
    \/ \E b \in Tab : (\E s \in Sub : LoadToggle(b, s)) \/ SaveToggle(b)
    \/ \E c \in Canceller :
         \/ \E s \in Sub : ListForCancel(c, s)
         \/ CancelSave(c)
         \/ CancelRead(c)
         \/ CancelSync(c)
    \/ \E f \in Form : (\E p \in Profile : LoadForm(f, p)) \/ SaveForm(f)
    \/ \E p \in Profile, s \in Sub : Give(p, s)
    \/ \E pl \in Plan : EditPrice(pl)

Spec == Init /\ [][Next]_vars

\* Celery beat starts the task every hour and a started task runs on.  Nobody has
\* to buy, cancel, toggle or edit anything.
Fairness == \A w \in Worker : WF_vars(StartSweep(w)) /\ WF_vars(Sweep(w))

FairSpec == Spec /\ Fairness

-----------------------------------------------------------------------------
(* Properties                                                              *)

TypeOK ==
    /\ now \in 1..MaxTime
    /\ price \in [Plan -> Prices]
    /\ owner \in [Sub -> Profile \cup {NoProfile}]
    /\ plan \in [Sub -> Plan \cup {NoPlan}]
    /\ status \in [Sub -> {"none", "active", "expired", "canceled"}]
    /\ start \in [Sub -> Nat]
    /\ end \in [Sub -> Nat]
    /\ renew \in [Sub -> BOOLEAN]
    /\ paid \in [Sub -> Nat]
    /\ balance \in [Profile -> Nat]
    /\ cache \in [Profile -> Cache]
    /\ busy \subseteq Worker
    /\ since \in [Worker -> Nat]
    /\ sweep \in [Worker -> SUBSET Sub]
    /\ toggling \in [Tab -> Sub \cup {NoSub}]
    /\ turned \in [Tab -> BOOLEAN]
    /\ canceling \in [Canceller -> Sub \cup {NoSub}]
    /\ phase \in [Canceller -> {"idle", "listed", "saved", "read"}]
    /\ synced \in [Canceller -> Cache]
    /\ editing \in [Form -> Profile \cup {NoProfile}]
    /\ stale \in [Form -> Cache]

\* A profile never has two active subscriptions, also when it buys over one that
\* has run out and that the beat has not closed yet.
OneActive == \A p \in Profile : \A s, u \in Active(p) : s = u

\* Profile.is_currently_premium: what the player asks.
Gate(p) == cache[p].premium /\ Running(cache[p].until)

Entitled(p) == \E s \in Active(p) : Running(end[s])

\* The cache never lies: as soon as a profile has had a subscription, the player
\* lets it in exactly while an active one is running - also while time passes,
\* between two sweeps, and across purchases (models.py:442).  A cancel between its
\* save and its synchronisation is given the time to finish.
CacheAgrees ==
    (\A c \in Canceller : phase[c] \in {"idle", "listed"}) =>
        \A p \in Profile :
            (\E s \in Sub : owner[s] = p) => (Gate(p) <=> Entitled(p))

\* Every day of a subscription that was bought has been paid for, and every day
\* paid for has been granted, also when a renewal fails halfway.
TimeIsPaid ==
    \A s \in Sub : status[s] # "none" /\ end[s] # NoEnd =>
        end[s] - start[s] = paid[s]

\* No time is sold to a profile twice: a subscription that it had before ends, renewals
\* included, no later than the next one starts, whether the next one is bought over it or
\* given by an admin, and although sweeps work on lists that are out of date by then
\* (close_or_renew's second look under the lock).  A canceled one ended early.
PeriodsDoNotOverlap ==
    \A s, u \in Sub :
        /\ s < u /\ owner[s] = owner[u]
        /\ status[s] \in {"active", "expired"} /\ status[u] # "none"
        => end[s] # NoEnd /\ end[s] <= start[u]

\* A subscription that has run out is closed or renewed (tasks.py:18).
DueIsSettled == \A s \in Sub : Due(s) ~> ~Due(s)
=============================================================================
