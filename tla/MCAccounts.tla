---------------------------- MODULE MCAccounts ----------------------------
(* Small instances of Accounts. *)
EXTENDS AccountsInv, TLC

CONSTANTS w1, w2, ann, bob
============================================================================
