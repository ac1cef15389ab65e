----------------------------- MODULE MCFunding ------------------------------
(***************************************************************************)
(* Instances of Funding for TLC.                                           *)
(***************************************************************************)
EXTENDS Funding, TLC

TargetTwo == [p \in Project |-> 2]
One == [p \in Project |-> 1]

Symmetry == Permutations(Request) \cup Permutations(Page) \cup Permutations(Profile)
=============================================================================
