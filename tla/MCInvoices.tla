----------------------------- MODULE MCInvoices -----------------------------
(***************************************************************************)
(* Invoices on small instances: one invoice, two accounts and three        *)
(* requests at a time, or two invoices with one of another program between *)
(* them in the node's list.                                                *)
(***************************************************************************)
EXTENDS Invoices, TLC

CONSTANTS alice, bob, h1, h2, w1, w2, w3

MCAmount == [h \in Hashes |-> IF h = h1 THEN 2 ELSE 3]
MCDeposit == [u \in Users |-> IF u = alice THEN 6 ELSE 5]
MCSmallDeposit == [u \in Users |-> 4]
MCTimes == [h \in Hashes |-> IF h = h1 THEN 1 ELSE 3]

\* Workers are interchangeable.
MCSymmetry == Permutations(Workers)
=============================================================================
