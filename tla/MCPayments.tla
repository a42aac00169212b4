----------------------------- MODULE MCPayments -----------------------------
(***************************************************************************)
(* Payments on small instances.  Amounts are 2 and 3 msats; the percentages*)
(* are halves, so that an amount of 2 has a fee limit of 1 and a service   *)
(* fee of 1, and the limit jumps at SmallPay.                              *)
(***************************************************************************)
EXTENDS Payments, TLC

CONSTANTS alice, bob, h1, h2, w1, w2

MCAmount == h1 :> 2 @@ h2 :> 3
MCDeposit == [u \in Users |-> IF u = alice THEN 8 ELSE 5]
MCSameTime == h1 :> 1 @@ h2 :> 2

\* Workers are interchangeable.
MCSymmetry == Permutations({w1, w2})
=============================================================================
