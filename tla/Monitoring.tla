----------------------------- MODULE Monitoring -----------------------------
(***************************************************************************)
(* Alerts about the site's own condition (core/monitoring.py and           *)
(* core/tasks.py): every ten minutes a task looks for problems and tells   *)
(* the admins on Telegram of each, at most once an hour: a key in the      *)
(* cache, set before the alert is queued, holds further ones back.         *)
(*                                                                         *)
(* The same cache is one of the things that are watched, and it swallows   *)
(* its errors (IGNORE_EXCEPTIONS).  A unit of time is ten minutes.         *)
(***************************************************************************)
EXTENDS FiniteSets, Integers

CONSTANTS
    Problem,     \* stuck queue, stale top-ups, stale reports, ...
    CacheDown,   \* the problem that the cache does not answer
    Monitor,       \* workers that may run monitoring_alerts_task
    Cooldown,    \* an hour
    MaxRetries,
    MaxAlerts    \* bound: alerts that are not delivered yet

ASSUME MonitoringAssumption ==
    /\ CacheDown \in Problem
    /\ Cooldown \in Nat \ {0} /\ MaxRetries \in Nat /\ MaxAlerts \in Nat

VARIABLES
    present,     \* problems there are
    held,        \* cache "monitoring:alert:<problem>": its remaining time
    ago,         \* time since the last alert of a problem was queued, up to Cooldown
    round,       \* per worker: its problems to come, and the one found not held back
    alerts,      \* notify_telegram_task: the problem, and how often it was tried
    lapsed,      \* history: problems whose key was lost or not seen, or set without an alert
    overlapped,  \* history: <<w, p>>, p was told since w has found it not held back
    again        \* history: problems told within an hour of an alert sent before the
                 \* worker looked

history == <<lapsed, overlapped, again>>
monitoringVars == <<present, held, ago, round, alerts, history>>

Off == [todo |-> {}, found |-> {}]
CacheUp == CacheDown \notin present

MonitoringInit ==
    /\ present = {}
    /\ held = [p \in Problem |-> 0]
    /\ ago = [p \in Problem |-> Cooldown]
    /\ round = [w \in Monitor |-> Off]
    /\ alerts = {} /\ lapsed = {} /\ overlapped = {} /\ again = {}

-----------------------------------------------------------------------------
(* monitoring_alerts_task                                                  *)

collect_problems(w) ==
    /\ round[w] = Off /\ present # {}
    /\ round' = [round EXCEPT ![w].todo = present]
    /\ UNCHANGED <<present, held, ago, alerts, history>>

\* A cache that is down holds nothing back.
LookUp(w, p) ==
    /\ round[w].found = {} /\ p \in round[w].todo
    /\ round' = [round EXCEPT ![w] = [todo |-> @.todo \ {p},
                                      found |-> IF CacheUp /\ held[p] > 0 THEN {} ELSE {p}]]
    /\ lapsed' = IF ~CacheUp /\ held[p] > 0 THEN lapsed \cup {p} ELSE lapsed
    /\ UNCHANGED <<present, held, ago, alerts, overlapped, again>>

\* Mutant: the key does not live for the whole hour.
Timeout_Short == Cooldown - 1

Timeout == Cooldown

\* Other workers that have found p not held back and have not told it yet.
Rivals(w, p) == {v \in Monitor \ {w} : p \in round[v].found}

\* The key is set, and the alert is queued; or the broker refuses it, or the worker dies,
\* and the rest of the round is lost with it.
Alert(w) ==
    \E p \in round[w].found :
        /\ held' = IF CacheUp THEN [held EXCEPT ![p] = Timeout] ELSE held
        /\ \/ /\ Cardinality(alerts) < MaxAlerts
              /\ alerts' = alerts \cup {[problem |-> p, tries |-> 0]}
              /\ ago' = [ago EXCEPT ![p] = 0]
              /\ round' = [round EXCEPT ![w].found = {}]
              /\ lapsed' = IF CacheUp THEN lapsed \ {p} ELSE lapsed \cup {p}
              /\ overlapped' = (overlapped \ {<<w, p>>}) \cup (Rivals(w, p) \X {p})
              /\ again' = IF ago[p] < Cooldown /\ p \notin lapsed /\ <<w, p>> \notin overlapped
                          THEN again \cup {p} ELSE again
           \/ /\ round' = [round EXCEPT ![w] = Off]
              /\ lapsed' = lapsed \cup {p}
              /\ overlapped' = overlapped \ {<<w, p>>}
              /\ UNCHANGED <<alerts, ago, again>>
        /\ UNCHANGED present

\* notify_telegram_task: delivered, or tried again, or given up.
notify_telegram_task(a) ==
    /\ alerts' = (alerts \ {a}) \cup
           IF a.tries = MaxRetries THEN {} ELSE {[a EXCEPT !.tries = @ + 1]}
    /\ UNCHANGED <<present, held, ago, round, history>>

send_telegram(a) == alerts' = alerts \ {a} /\ UNCHANGED <<present, held, ago, round, history>>

-----------------------------------------------------------------------------
(* The surroundings                                                        *)

Arise(p) ==
    /\ p # CacheDown
    /\ present' = IF p \in present THEN present \ {p} ELSE present \cup {p}
    /\ UNCHANGED <<held, ago, round, alerts, history>>

\* The cache goes down, and comes back with its keys or without.
CacheFails ==
    /\ CacheUp
    /\ present' = present \cup {CacheDown}
    /\ UNCHANGED <<held, ago, round, alerts, history>>

CacheReturns ==
    /\ ~CacheUp
    /\ present' = present \ {CacheDown}
    /\ \/ UNCHANGED <<held, lapsed>>
       \/ /\ held' = [p \in Problem |-> 0]
          /\ lapsed' = lapsed \cup {p \in Problem : ago[p] < Cooldown}
    /\ UNCHANGED <<ago, round, alerts, overlapped, again>>

\* Ten minutes pass; a round takes seconds, unless the queue is stuck.
Pass ==
    /\ \A w \in Monitor : round[w] = Off
    /\ held' = [p \in Problem |-> IF held[p] = 0 THEN 0 ELSE held[p] - 1]
    /\ ago' = [p \in Problem |-> IF ago[p] = Cooldown THEN Cooldown ELSE ago[p] + 1]
    /\ lapsed' = {p \in lapsed : held'[p] > 0 \/ ago'[p] < Cooldown}
    /\ UNCHANGED <<present, round, alerts, overlapped, again>>

-----------------------------------------------------------------------------
MonitoringNext ==
    \/ \E w \in Monitor :
         \/ collect_problems(w)
         \/ \E p \in Problem : LookUp(w, p)
         \/ Alert(w)
    \/ \E a \in alerts : notify_telegram_task(a) \/ send_telegram(a)
    \/ \E p \in Problem : Arise(p)
    \/ CacheFails \/ CacheReturns \/ Pass

-----------------------------------------------------------------------------
(* Properties                                                              *)

MonitoringTypeOK ==
    /\ present \subseteq Problem
    /\ held \in [Problem -> 0..Cooldown]
    /\ ago \in [Problem -> 0..Cooldown]
    /\ round \in [Monitor -> [todo : SUBSET Problem, found : SUBSET Problem]]
    /\ alerts \subseteq [problem : Problem, tries : 0..MaxRetries]
    /\ lapsed \subseteq Problem
    /\ overlapped \subseteq Monitor \X Problem /\ again \subseteq Problem

\* Alerts of a problem are held back exactly as long as the last one is less than an hour
\* old: no silence that nobody was told before, and no second alert within the hour but
\* by a worker that had found the problem not held back before the first one was sent.
\* Excepted are problems whose key was set or looked up while the cache was down or was
\* lost with it, and those whose alert the broker refused.
HeldBackWhenTold ==
    /\ \A p \in Problem \ lapsed : (held[p] > 0) = (ago[p] < Cooldown)
    /\ again = {}
=============================================================================
