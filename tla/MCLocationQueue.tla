-------------------------- MODULE MCLocationQueue ---------------------------
(***************************************************************************)
(* Small instances of LocationQueue.                                       *)
(***************************************************************************)
EXTENDS LocationQueue, TLC

\* Uploads are interchangeable, and so are the accounts.
PhoneSymmetry == Permutations(Tasks) \cup Permutations(Users)
=============================================================================
