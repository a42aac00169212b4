----------------------------- MODULE MCReceipts -----------------------------
(***************************************************************************)
(* Receipts on a small instance: two zaps between two accounts, one of     *)
(* them with a relay that is not accepted.                                 *)
(***************************************************************************)
EXTENDS Receipts, TLC

CONSTANTS alice, bob, h1, h2

MCAmount == [h \in Hashes |-> 2]
MCDeposit == [u \in Users |-> 8]
MCTime == [h \in Hashes |-> 1]
============================================================================
