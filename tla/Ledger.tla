------------------------------- MODULE Ledger -------------------------------
(***************************************************************************)
(* What the coin wallet promises its callers, whatever happens inside:     *)
(* every profile has a balance and an append-only ledger, both move only   *)
(* when a database transaction commits, and always by the same amount, so  *)
(* "profile.balance == SUM(CoinTransaction.amount)" (the invariant stated  *)
(* at the top of users/services/wallet.py) can never be broken.            *)
(*                                                                         *)
(* ledger[p] stands for SUM(CoinTransaction.amount) over p's rows.         *)
(***************************************************************************)
EXTENDS Integers

CONSTANT Profile

VARIABLES balance, ledger

vars == <<balance, ledger>>

Init ==
    /\ balance = [p \in Profile |-> 0]
    /\ ledger = [p \in Profile |-> 0]

\* One committed transaction: any number of profiles move together.
Post ==
    /\ ledger' \in [Profile -> Int]
    /\ balance' = [p \in Profile |-> balance[p] + (ledger'[p] - ledger[p])]

Spec == Init /\ [][Post]_vars
=============================================================================
