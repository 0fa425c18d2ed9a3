----------------------------- MODULE MCAccounts -----------------------------
(***************************************************************************)
(* Instances of Accounts: the bootstrap admin, a second user, room for a   *)
(* third; calls are interchangeable.                                       *)
(***************************************************************************)
EXTENDS Accounts, TLC

AccountsSymmetry == Permutations(Calls) \cup Permutations(Passwords)
=============================================================================
