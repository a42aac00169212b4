------------------------------- MODULE MCNwc -------------------------------
(***************************************************************************)
(* Nwc on a small instance: two events of one account, which may both ask  *)
(* for the same payment.                                                   *)
(***************************************************************************)
EXTENDS Nwc, TLC

CONSTANTS alice, h1, w1, w2, e1, e2

MCAmount == [h \in Hashes |-> 2]
MCDeposit == [u \in Users |-> 8]
MCTime == [h \in Hashes |-> 1]
MCAuthor == [e \in Events |-> alice]
============================================================================
