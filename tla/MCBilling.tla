----------------------------- MODULE MCBilling ------------------------------
(***************************************************************************)
(* Instances of Billing for TLC: orders and transactions numbered, so that *)
(* the functions between them can be written down.                         *)
(***************************************************************************)
EXTENDS Billing

\* One order and two transactions that compete for it.
OneOrder == [t \in Txn |-> 1]
OneUser == [o \in Order |-> "buyer"]
AllClick == [o \in Order |-> "click"]
SameCharge == [t \in Txn |-> 2500]

\* An order of each provider for the same user, two transactions each.
TwoEach == [t \in Txn |-> IF t \in {1, 2} THEN 1 ELSE 2]
EachProvider == [o \in Order |-> IF o = 1 THEN "payme" ELSE "click"]
TwoCharges == [t \in Txn |-> IF t \in {1, 2} THEN 2500 ELSE 1000]
=============================================================================
