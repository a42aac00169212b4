----------------------------- MODULE MCService -----------------------------
(***************************************************************************)
(* The whole service on a small instance: one invoice of our own and one   *)
(* of another node, two accounts that can each pay both, but not at once.  *)
(***************************************************************************)
EXTENDS Service, TLC

CONSTANTS alice, bob, own, other, w1

MCAmount == own :> 2 @@ other :> 2
MCDeposit == [u \in Users |-> 5]
MCTimes == own :> 1 @@ other :> 1
MCIndex == own :> 1 @@ other :> 2

\* The accounts are interchangeable.
MCSymmetry == Permutations({alice, bob})
============================================================================
