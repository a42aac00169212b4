--------------------------- MODULE MCTransactions ---------------------------
(***************************************************************************)
(* Transactions on a small instance: two invoices of two accounts, so that *)
(* internal payments go in both directions, and one of another node.       *)
(***************************************************************************)
EXTENDS Transactions, TLC

CONSTANTS alice, bob, h1, h2, h3, w1, w2, task

MCAmount == (h1 :> 1) @@ (h2 :> 1) @@ (h3 :> 2)
MCDeposit == (alice :> 8) @@ (bob :> 1)
MCRequests == (w1 :> {<<alice, h1>>, <<alice, h3>>})
                @@ (w2 :> {<<bob, h2>>}) @@ (task :> {})
MCOutcomes == (h1 :> {"success"}) @@ (h2 :> {"failed"})
                @@ (h3 :> {"success", "failed"})
MCSameTime == [h \in Hashes |-> 1]
MCPayee == (h1 :> bob) @@ (h2 :> alice)
=============================================================================
