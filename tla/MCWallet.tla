------------------------------ MODULE MCWallet ------------------------------
(***************************************************************************)
(* Instances of Wallet for TLC.                                            *)
(***************************************************************************)
EXTENDS Wallet, TLC

\* Clients, profiles and editors are interchangeable (safety runs only).
Symmetry == Permutations(Client) \cup Permutations(Profile) \cup Permutations(Editor)
=============================================================================
