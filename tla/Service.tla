------------------------------ MODULE Service ------------------------------
(***************************************************************************)
(* The whole service: Payments and Invoices over one database, in one      *)
(* process with one node.  `pay` takes the external way for the invoices   *)
(* of other nodes and the internal way for those of our own, and the task  *)
(* `sync` runs sync_invoices, then sync_payments, then sleeps.             *)
(***************************************************************************)
EXTENDS Store

CONSTANTS
    Own,        \* the hashes whose payee is our node
    LateStart, Retries, SentAt,                                 \* Payments
    SelfPayment, Payers, Index, Others, PageSize, Overpaid,     \* Invoices
    Passes, Downtime, Foreign

VARIABLES
    job, sync, node,                                    \* Payments
    request, sweep, incoming, age, passes, foreign,     \* Invoices
    turn        \* which half of the loop the task is in

P == INSTANCE Payments
I == INSTANCE Invoices

ASSUME ServiceAssumption ==
    /\ Own \subseteq Hashes /\ IsFiniteSet(Users)
    /\ P!PaymentsAssumption /\ I!InvoicesAssumption

payVars == <<job, sync, node>>
invVars == <<request, sweep, incoming, age, passes, foreign>>
vars == <<store, faults, payVars, invVars, turn>>

Init == P!Init /\ I!Init /\ turn = "invoices"

\* pay asks whether the payee of the invoice is our node.
\* Mutant: it does not.
PayExternalAny(w, u, h) ==
    P!Begin(w, u, h, FALSE) /\ UNCHANGED <<invVars, turn>>

PayExternal(w, u, h) ==
    /\ h \notin Own
    /\ P!Begin(w, u, h, FALSE)
    /\ UNCHANGED <<invVars, turn>>

PayInternal(w, u, h) ==
    /\ h \in Own
    /\ I!BeginInternal(w, u, h)
    /\ UNCHANGED <<payVars, turn>>

CreateInvoice(w, u, h) ==
    /\ h \in Own
    /\ \E payer \in Payers : I!CreateInvoice(w, u, h, payer)
    /\ UNCHANGED <<payVars, turn>>

Handler(w) ==
    \/ P!Handler(w) /\ UNCHANGED <<invVars, turn>>
    \/ I!Handler(w) /\ UNCHANGED <<payVars, turn>>

\* A handler ends early or its call of the node fails.
Drop(w) ==
    \/ (P!Abandon(w) \/ P!PayFails(w)) /\ UNCHANGED <<invVars, turn>>
    \/ I!Abandon(w) /\ UNCHANGED <<payVars, turn>>

\* One iteration of the loop of `sync`: when one half is done, or has failed,
\* the other half runs.
SyncInvoices ==
    /\ turn = "invoices"
    /\ I!SweepTask \/ I!SweepFails
    /\ turn' = IF sweep'.pc = "idle" THEN "payments" ELSE turn
    /\ UNCHANGED payVars

SyncPayments ==
    /\ turn = "payments"
    /\ P!SyncTask \/ P!SyncFails
    /\ turn' = IF sync'.pc = "idle" THEN "invoices" ELSE turn
    /\ UNCHANGED invVars

Node(h) ==
    \/ P!Node(h) /\ UNCHANGED <<invVars, turn>>
    \/ /\ I!NodeReceives(h) \/ I!NodeCancels(h) \/ I!Expire(h)
          \/ I!LeaveWindow(h)
       /\ UNCHANGED <<payVars, turn>>

\* The process dies and starts again.
Crash ==
    /\ P!Crash
    /\ request' = <<>> /\ sweep' = I!Idle
    /\ turn' = "invoices"
    /\ UNCHANGED <<incoming, age, passes, foreign>>

Next ==
    \/ \E w \in Workers, u \in Users, h \in Hashes :
            \/ PayExternal(w, u, h) \/ PayInternal(w, u, h)
            \/ CreateInvoice(w, u, h)
    \/ \E w \in Workers : Handler(w) \/ Drop(w)
    \/ SyncInvoices \/ SyncPayments
    \/ \E h \in Hashes : Node(h)
    \/ Crash

Spec == Init /\ [][Next]_vars

----------------------------------------------------------------------------
(* Properties.                                                             *)

TypeOK ==
    /\ P!TypeOK
    /\ I!TypeOK
    /\ turn \in {"invoices", "payments"}

\* `pay` has kept the two kinds of invoices apart: those of our own node are
\* stored here and paid between accounts, by rows that are paid at once, and no
\* handler, row or payment of the node has the hash of one.
KindsApart ==
    /\ DOMAIN invoice \subseteq Own
    /\ \A w \in DOMAIN request :
            request[w].pc = "insert" => request[w].hash \in Own
    /\ \A w \in DOMAIN job : job[w].hash \notin Own
    /\ \A h \in Hashes : node[h].state # "none" => h \notin Own
    /\ \A h \in DOMAIN payment :
            /\ payment[h].internal <=> h \in Own
            /\ payment[h].internal => payment[h].status = "Paid"

\* What a payment has taken out of the accounts, and what the network has
\* paid into them.
Spent(h) ==
    IF h \notin DOMAIN payment THEN 0
    ELSE payment[h].lock_amount
            + IF payment[h].status = "Paid" /\ ~payment[h].internal
              THEN payment[h].total ELSE 0

Gained(h) ==
    IF h \in DOMAIN invoice /\ I!Received(h) THEN incoming[h].paid_amount ELSE 0

\* No transaction makes money: what the accounts hold and what was spent from
\* them is covered by what was deposited and received.
BooksBalance ==
    SumOf([u \in Users |-> user[u].balance]) + SumOf([h \in Hashes |-> Spent(h)])
        <= SumOf(Deposit) + SumOf([h \in Hashes |-> Gained(h)])

\* The inductive invariant: that of each part, which the other part does not
\* disturb, and what only the two together keep.
Consistent ==
    /\ P!Consistent /\ I!Consistent
    /\ turn \in {"invoices", "payments"}
    /\ KindsApart /\ BooksBalance

\* What a payment has taken or may still take from the node: the node has sent
\* it, or its lock covers it.
Outgoing(h) ==
    IF node[h].state = "succeeded" THEN Amount[h] + node[h].fee
    ELSE IF h \in DOMAIN payment THEN payment[h].lock_amount ELSE 0

\* The service can pay out what the accounts hold: the node has received, with
\* the deposits, what it has sent or may have to send and all the balances.
Solvent ==
    SumOf([u \in Users |-> user[u].balance]) + SumOf([h \in Hashes |-> Outgoing(h)])
        <= SumOf(Deposit) + SumOf([h \in Hashes |-> incoming[h].paid_amount])

\* What the users see: the service implements the abstract wallet.
Custodian == INSTANCE Custody WITH
    available <- [u \in Users |-> user[u].balance],
    held <- [h \in Hashes |->
                IF h \in DOMAIN payment THEN payment[h].lock_amount ELSE 0],
    payer <- [h \in Hashes |->
                IF h \in DOMAIN payment THEN payment[h].user_id ELSE "none"],
    paid <- [h \in Hashes |->
                IF h \notin DOMAIN payment THEN "no"
                ELSE IF payment[h].internal THEN "transferred"
                ELSE CASE payment[h].status = "Unpaid" -> "held"
                       [] payment[h].status = "Paid" -> "spent"
                       [] payment[h].status = "Canceled" -> "returned"],
    received <- [h \in Hashes |-> h \in DOMAIN invoice /\ I!Received(h)]

CustodySpec == Custodian!Spec
============================================================================
