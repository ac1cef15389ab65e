----------------------------- MODULE OrderBook ------------------------------
(***************************************************************************)
(* What billing promises the rest of the site about an order, whichever    *)
(* provider settles it and however its callbacks are delivered: an order   *)
(* is created once with a fixed amount, and from then on every change      *)
(* settles or voids it.  The coins an order has granted are all of its     *)
(* coins while it is paid and none otherwise.                              *)
(***************************************************************************)
EXTENDS Naturals

CONSTANTS Order, UZS_PER_COIN

VARIABLES status, amount, granted

vars == <<status, amount, granted>>

Init ==
    /\ status = [o \in Order |-> "none"]
    /\ amount = [o \in Order |-> 0]
    /\ granted = [o \in Order |-> 0]

Create(o) ==
    /\ status[o] = "none"
    /\ status' = [status EXCEPT ![o] = "created"]
    /\ amount' \in [Order -> Nat]
    /\ \A p \in Order \ {o} : amount'[p] = amount[p]
    /\ UNCHANGED granted

Settle(o) ==
    /\ status[o] \in {"created", "canceled"}
    /\ status' = [status EXCEPT ![o] = "paid"]
    /\ granted' = [granted EXCEPT ![o] = amount[o] \div UZS_PER_COIN]
    /\ UNCHANGED amount

Void(o) ==
    /\ status[o] \in {"created", "paid"}
    /\ status' = [status EXCEPT ![o] = "canceled"]
    /\ granted' = [granted EXCEPT ![o] = 0]
    /\ UNCHANGED amount

Next == \E o \in Order : Create(o) \/ Settle(o) \/ Void(o)

Spec == Init /\ [][Next]_vars
=============================================================================
