----------------------------- MODULE MCAccounts -----------------------------
(* Accounts for TLC: requests, passwords and reset rows are interchangeable. *)
EXTENDS Accounts, TLC

Symmetric == Permutations(Requests) \union Permutations(Passwords) \union Permutations(Resets)
=============================================================================
