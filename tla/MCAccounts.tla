----------------------------- MODULE MCAccounts -----------------------------
(***************************************************************************)
(* Two requests at a time, of two accounts on one handset.                 *)
(***************************************************************************)
EXTENDS Accounts, TLC

Symmetric == Permutations(Ids) \cup Permutations(Nics) \cup Permutations(Requests)
=============================================================================
