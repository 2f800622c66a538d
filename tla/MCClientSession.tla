-------------------------- MODULE MCClientSession ---------------------------
(***************************************************************************)
(* Small instances of ClientSession.                                       *)
(***************************************************************************)
EXTENDS ClientSession, TLC

\* Flows are interchangeable, and so are the accounts (safety only).
SessionSymmetry == Permutations(Flows) \cup Permutations(Users)
=============================================================================
