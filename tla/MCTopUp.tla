------------------------------ MODULE MCTopUp -------------------------------
(***************************************************************************)
(* Instances of TopUp for TLC.                                             *)
(***************************************************************************)
EXTENDS TopUp, TLC

OneUser == [r \in Request |-> "payer"]
Usdt == [r \in Request |-> "usdt"]

\* 0.29 USDT are three coins.
ThreeCoins == [r \in Request |-> 29]

\* Admins and rows are interchangeable when the rows are alike.
Symmetry == Permutations(Admin) \cup Permutations(Request)
=============================================================================
