----------------------------- MODULE MCAccounts -----------------------------
(* Model-checking instance of Accounts. *)
EXTENDS Accounts, TLC

AccountSymmetry == Permutations(Ids \ {Admin0}) \cup Permutations(Handlers)
=============================================================================
