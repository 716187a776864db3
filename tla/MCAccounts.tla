------------------------------ MODULE MCAccounts ------------------------------
(***************************************************************************)
(* Accounts with model values for clients, workers and strings.            *)
(***************************************************************************)
EXTENDS Accounts, TLC

Symmetry == Permutations(Client) \cup Permutations(Worker)
=============================================================================
