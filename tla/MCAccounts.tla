---------------------------- MODULE MCAccounts ----------------------------
(***************************************************************************)
(* Accounts on a small instance: two keys, a name that needs the first     *)
(* amount of the donations and one that needs the second.                  *)
(***************************************************************************)
EXTENDS Accounts, TLC

CONSTANTS short, long, k1, k2

MCChars == (short :> 2) @@ (long :> 3)
MCAmounts == <<1, 2>>
============================================================================
