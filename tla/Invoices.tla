------------------------------ MODULE Invoices ------------------------------
(***************************************************************************)
(* Receiving (service.rs): invoices are created at the node and stored,    *)
(* paid by another account through `internal_pay` or over the network, and *)
(* the background task `sync_invoices` credits what the node has received. *)
(* The two ways to pay one invoice race: both may succeed, and then the    *)
(* task credits the second amount as a duplicate.                          *)
(***************************************************************************)
EXTENDS Store

CONSTANTS
    SelfPayment,    \* service.self_payment: may an account pay itself
    Payers,         \* whom the payer data of an invoice may name, or "none"
    Index,          \* [Hashes -> Nat]: the node's index of its invoices
    Others,         \* the indexes of invoices other programs have made there
    PageSize,       \* invoices in a page of the node's list, 50 in cln.rs
    Overpaid,       \* what a network payment may exceed the amount by
    Passes,         \* rounds of the task between expiry and the window's end;
                    \* an hour and a round every five seconds in the code
    Downtime,       \* TRUE: the process may be down through that hour
    Foreign         \* TRUE: the node may hold an invoice made by others
                    \* that names no amount

ASSUME InvoicesAssumption ==
    /\ SelfPayment \in BOOLEAN /\ Downtime \in BOOLEAN /\ Foreign \in BOOLEAN
    /\ Payers \subseteq Users \cup {"none"}
    /\ Index \in [Hashes -> Nat]
    /\ \A g, h \in Hashes : Index[g] = Index[h] => g = h
    /\ Others \subseteq Nat /\ IsFiniteSet(Others)
    /\ \A h \in Hashes : Index[h] \notin Others
    /\ PageSize \in Nat \ {0}
    /\ Overpaid \in Nat
    /\ Passes \in Nat

VARIABLES
    request,    \* the running handlers: a function from a set of workers
    sweep,      \* sync_invoices: where it is and what it has read
    incoming,   \* [Hashes -> Incoming]: the invoices of our lightning node
    age,        \* [Hashes -> Age]: time as far as the code looks at it
    passes,     \* [Hashes -> Nat]: rounds begun since the invoice expired
    foreign     \* the node lists an invoice without an amount

invVars == <<request, sweep, incoming, age, passes, foreign>>
vars == <<store, faults, invVars>>

Incoming == [state: {"none", "open", "paid", "canceled"}, paid_amount: Nat]

\* "old": generated before the 25 hours sync_invoices looks back.
Age == {"fresh", "expired", "old"}

\* `inv` is the payee's invoice as internal_pay read it, <<>> before;
\* `seen` and `payeeSeen` are the balances in the two user models.
Request == [pc: {"insert", "find", "pay"}, user_id: Users, hash: Hashes,
            inv: Invoice \cup {<<>>}, seen: Int, payeeSeen: Int]

\* `rows` are the invoices of the snapshot with their rows as they were read,
\* `listed` those the node has listed as it showed them, `start` the index the
\* next page begins at; `hash` is the one being credited, `seen` the balance in
\* its user's model.
Sweep(rows, listed) ==
    [pc: {"idle", "list", "items", "credit"}, rows: {rows}, listed: {listed},
     start: Nat, hash: Hashes \cup {"none"}, seen: Int]

Idle == [pc |-> "idle", rows |-> <<>>, listed |-> <<>>, start |-> 0,
         hash |-> "none", seen |-> 0]

Init ==
    /\ StoreInit
    /\ request = <<>>
    /\ sweep = Idle
    /\ incoming = [h \in Hashes |-> [state |-> "none", paid_amount |-> 0]]
    /\ age = [h \in Hashes |-> "fresh"]
    /\ passes = [h \in Hashes |-> 0]
    /\ foreign = FALSE

----------------------------------------------------------------------------
(* The handlers.                                                           *)

Return(w) == request' = [v \in DOMAIN request \ {w} |-> request[v]]

\* create_invoice asks the node for an invoice with a fresh preimage ...
CreateInvoice(w, u, h, payer) ==
    /\ w \notin DOMAIN request
    /\ incoming[h].state = "none"
    /\ incoming' = [incoming EXCEPT ![h].state = "open"]
    /\ request' = Insert(request, w,
                    [pc |-> "insert", user_id |-> u, hash |-> h,
                     inv |-> NewInvoice(u, h, payer),
                     seen |-> 0, payeeSeen |-> 0])
    /\ UNCHANGED <<store, faults, sweep, age, passes, foreign>>

\* ... and stores it.
InsertInvoice(w) ==
    /\ request[w].pc = "insert"
    /\ invoice' = Insert(invoice, request[w].hash, request[w].inv)
    /\ Return(w)
    /\ UNCHANGED <<user, payment, donation, record>>
    /\ UNCHANGED <<sweep, incoming, age, passes, foreign>>

\* pay, for an invoice whose payee is our own node: internal_pay.  The user
\* model was read when the request was authenticated.
BeginInternal(w, u, h) ==
    /\ w \notin DOMAIN request
    /\ incoming[h].state # "none" /\ age[h] = "fresh"
    /\ user[u].balance >= InternalTotal(h)
    /\ request' = Insert(request, w,
                    [pc |-> "find", user_id |-> u, hash |-> h, inv |-> <<>>,
                     seen |-> user[u].balance, payeeSeen |-> 0])
    /\ UNCHANGED <<store, faults, sweep, incoming, age, passes, foreign>>

\* It reads the payee's invoice and account, one right after the other.
FindInvoice(w) ==
    LET u == request[w].user_id
        h == request[w].hash
        allowed == /\ h \in DOMAIN invoice
                   /\ SelfPayment \/ invoice[h].user_id # u
                   /\ invoice[h].status = "Unpaid"
    IN  /\ request[w].pc = "find"
        /\ \/ /\ allowed
              /\ request' = [request EXCEPT ![w].pc = "pay",
                    ![w].inv = invoice[h],
                    ![w].payeeSeen = user[invoice[h].user_id].balance]
           \/ ~allowed /\ Return(w)
        /\ UNCHANGED <<store, sweep, incoming, age, passes, foreign>>

\* Its transaction.
PayInternal(w) ==
    LET u == request[w].user_id
        h == request[w].hash
    IN  /\ request[w].pc = "pay"
        /\ \/ /\ InternalPayMatches(u, h)
              /\ InternalPay(u, h, request[w].inv, request[w].seen,
                             request[w].payeeSeen)
           \/ ~InternalPayMatches(u, h) /\ UNCHANGED store
        /\ Return(w)
        /\ UNCHANGED <<sweep, incoming, age, passes, foreign>>

Handler(w) ==
    /\ w \in DOMAIN request
    /\ InsertInvoice(w) \/ FindInvoice(w) \/ PayInternal(w)
    /\ UNCHANGED faults

\* The handler ends at an await: a call, a query or a transaction failed, or
\* the client went away and the server dropped the request.
Abandon(w) ==
    /\ w \in DOMAIN request
    /\ faults < MaxFaults
    /\ Return(w)
    /\ faults' = faults + 1
    /\ UNCHANGED <<store, sweep, incoming, age, passes, foreign>>

----------------------------------------------------------------------------
(* The task sync_invoices.                                                 *)

\* Mutant: the window ends when the invoices expire.
WindowOfADay == {h \in DOMAIN invoice :
                    invoice[h].status # "Canceled" /\ age[h] = "fresh"}

\* The invoices of the window that are not canceled.
Window == {h \in DOMAIN invoice :
              invoice[h].status # "Canceled" /\ age[h] # "old"}

\* A round counts for an invoice that has expired and that the node, prompt
\* to close expired invoices, has closed.  The snapshot is ordered by creation
\* time alone, and the index of its first is where the list begins.
SweepRead ==
    /\ sweep.pc = "idle"
    /\ IF Window = {} THEN UNCHANGED sweep
       ELSE \E first \in Window :
                /\ \A h \in Window : GeneratedAt[first] <= GeneratedAt[h]
                /\ sweep' = [pc |-> "list", rows |-> [h \in Window |-> invoice[h]],
                             listed |-> <<>>, start |-> Index[first],
                             hash |-> "none", seen |-> 0]
    /\ passes' = [h \in Hashes |->
                    IF /\ age[h] = "expired" /\ incoming[h].state # "open"
                       /\ passes[h] < Passes
                    THEN passes[h] + 1 ELSE passes[h]]
    /\ UNCHANGED <<store, faults, request, incoming, age, foreign>>

\* The invoices of the node.
Known == {h \in Hashes : incoming[h].state # "none"}

\* One answer of cln.rs, as indexes: the first of those from `start` on.
Page ==
    LET entries == {i \in Others \cup {Index[h] : h \in Known} : i >= sweep.start}
    IN  {i \in entries : Cardinality({j \in entries : j < i}) < PageSize}

\* What has been listed: lnd.rs gets the invoices of the window in one answer.
\* A later page replaces what an earlier one said of an invoice.
Listed ==
    LET shown == {h \in Known : Lnd \/ Index[h] \in Page}
    IN  [h \in DOMAIN sweep.listed \cup shown |->
            IF h \in shown THEN incoming[h] ELSE sweep.listed[h]]

\* What the loop does for an invoice of the snapshot the node has listed.
Action(row, remote) ==
    CASE row.status = "Unpaid" /\ remote.state = "paid" -> "credit"
      [] row.status = "Unpaid" /\ remote.state = "canceled" -> "cancel"
      [] row.status = "Paid" /\ remote.state = "paid"
            /\ row.internal /\ ~row.duplicate -> "duplicate"
      [] OTHER -> "none"

\* After a full page the list goes on, and begins the next page with the last
\* of this one.  Mutant: there is one page.
FullNever == FALSE

Full == ~Lnd /\ Cardinality(Page) >= PageSize

SweepPage ==
    /\ sweep.pc = "list" /\ Full
    /\ \E last \in Page :
        /\ \A i \in Page : i <= last
        /\ sweep' = [sweep EXCEPT !.listed = Listed, !.start = last]
    /\ UNCHANGED <<store, faults, request, incoming, age, passes, foreign>>

Items(rows, listed) ==
    [pc |-> "items", rows |-> rows, listed |-> listed, start |-> 0,
     hash |-> "none", seen |-> 0]

\* The last page.  The loop over the snapshot acts on what the node listed.
SweepList ==
    /\ sweep.pc = "list" /\ ~Full
    /\ LET listed == Listed
           todo == {h \in DOMAIN sweep.rows \cap DOMAIN listed :
                        Action(sweep.rows[h], listed[h]) # "none"}
       IN  sweep' = Items([h \in todo |-> sweep.rows[h]],
                          [h \in todo |-> listed[h]])
    /\ UNCHANGED <<store, faults, request, incoming, age, passes, foreign>>

\* The call fails as a whole when the list comes to an invoice that names no
\* amount.
SweepListFails ==
    /\ sweep.pc = "list" /\ foreign
    /\ sweep' = Idle
    /\ UNCHANGED <<store, faults, request, incoming, age, passes, foreign>>

\* What is left of the snapshot after an item.
Rest(h) == Items([g \in DOMAIN sweep.rows \ {h} |-> sweep.rows[g]],
                 [g \in DOMAIN sweep.listed \ {h} |-> sweep.listed[g]])

SweepCancel(h) ==
    /\ sweep.pc = "items" /\ h \in DOMAIN sweep.rows
    /\ Action(sweep.rows[h], sweep.listed[h]) = "cancel"
    /\ CancelInvoice(h)
    /\ sweep' = Rest(h)
    /\ UNCHANGED <<faults, request, incoming, age, passes, foreign>>

\* invoice_paid and invoice_dup_paid read the user ...
SweepReadUser(h) ==
    /\ sweep.pc = "items" /\ h \in DOMAIN sweep.rows
    /\ Action(sweep.rows[h], sweep.listed[h]) \in {"credit", "duplicate"}
    /\ sweep' = [sweep EXCEPT !.pc = "credit", !.hash = h,
                    !.seen = user[sweep.rows[h].user_id].balance]
    /\ UNCHANGED <<store, faults, request, incoming, age, passes, foreign>>

\* ... and run their transaction; the task ignores its error.
SweepCredit ==
    LET h   == sweep.hash
        row == sweep.rows[h]
        amount == sweep.listed[h].paid_amount
    IN  /\ sweep.pc = "credit"
        /\ \/ /\ Action(row, sweep.listed[h]) = "credit" /\ InvoicePaidMatches(h)
              /\ InvoicePaid(h, row, amount, sweep.seen)
           \/ /\ Action(row, sweep.listed[h]) = "duplicate" /\ InvoiceDupPaidMatches(h)
              /\ InvoiceDupPaid(h, row, amount, sweep.seen)
           \/ /\ Action(row, sweep.listed[h]) = "credit" => ~InvoicePaidMatches(h)
              /\ Action(row, sweep.listed[h]) = "duplicate" => ~InvoiceDupPaidMatches(h)
              /\ UNCHANGED store
        /\ sweep' = Rest(h)
        /\ UNCHANGED <<faults, request, incoming, age, passes, foreign>>

SweepDone ==
    /\ sweep.pc = "items" /\ DOMAIN sweep.rows = {}
    /\ sweep' = Idle
    /\ UNCHANGED <<store, faults, request, incoming, age, passes, foreign>>

SweepTask ==
    \/ SweepRead \/ SweepPage \/ SweepList \/ SweepListFails
    \/ SweepCredit \/ SweepDone
    \/ \E h \in Hashes : SweepCancel(h) \/ SweepReadUser(h)

\* list_invoices fails, and the task gives up this round; or a query or a
\* transaction for one invoice fails, and it goes on with the next.
SweepFails ==
    /\ faults < MaxFaults
    /\ \/ sweep.pc = "list" /\ sweep' = Idle
       \/ /\ sweep.pc \in {"items", "credit"}
          /\ \E h \in DOMAIN sweep.rows :
                /\ sweep.pc = "credit" => h = sweep.hash
                /\ sweep' = Rest(h)
    /\ faults' = faults + 1
    /\ UNCHANGED <<store, request, incoming, age, passes, foreign>>

----------------------------------------------------------------------------
(* The lightning node (external), time and the process.                    *)

\* Someone pays an invoice that has been handed out.
NodeReceives(h) ==
    /\ incoming[h].state = "open" /\ age[h] = "fresh"
    /\ h \in DOMAIN invoice
    /\ \E extra \in 0..Overpaid :
        incoming' = [incoming EXCEPT ![h] = [state |-> "paid",
                                paid_amount |-> Amount[h] + extra]]
    /\ UNCHANGED <<store, faults, request, sweep, age, passes, foreign>>

\* The node closes an expired invoice.
NodeCancels(h) ==
    /\ incoming[h].state = "open" /\ age[h] = "expired"
    /\ incoming' = [incoming EXCEPT ![h].state = "canceled"]
    /\ UNCHANGED <<store, faults, request, sweep, age, passes, foreign>>

NodeForeign ==
    /\ Foreign /\ ~foreign
    /\ foreign' = TRUE
    /\ UNCHANGED <<store, faults, request, sweep, incoming, age, passes>>

\* After a day the invoice expires, an hour later it leaves the window.  No
\* handler takes a day to store it.
Expire(h) ==
    /\ incoming[h].state # "none" /\ age[h] = "fresh"
    /\ \A w \in DOMAIN request :
            request[w].pc = "insert" => request[w].hash # h
    /\ age' = [age EXCEPT ![h] = "expired"]
    /\ UNCHANGED <<store, faults, request, sweep, incoming, passes, foreign>>

LeaveWindow(h) ==
    /\ age[h] = "expired"
    /\ Downtime \/ (passes[h] = Passes /\ sweep.pc = "idle")
    /\ age' = [age EXCEPT ![h] = "old"]
    /\ UNCHANGED <<store, faults, request, sweep, incoming, passes, foreign>>

\* The process dies and starts again.
Crash ==
    /\ faults < MaxFaults
    /\ request' = <<>>
    /\ sweep' = Idle
    /\ faults' = faults + 1
    /\ UNCHANGED <<store, incoming, age, passes, foreign>>

----------------------------------------------------------------------------
Next ==
    \/ \E w \in Workers, u \in Users, h \in Hashes :
        \/ \E payer \in Payers : CreateInvoice(w, u, h, payer)
        \/ BeginInternal(w, u, h)
    \/ \E w \in Workers : Handler(w) \/ Abandon(w)
    \/ SweepTask
    \/ SweepFails
    \/ \E h \in Hashes :
        NodeReceives(h) \/ NodeCancels(h) \/ Expire(h) \/ LeaveWindow(h)
    \/ NodeForeign
    \/ Crash

\* Tokio polls every task that can run; every call of the node client ends,
\* within a timeout; the node closes what has expired.
Fairness ==
    /\ \A w \in Workers : WF_vars(Handler(w))
    /\ WF_vars(SweepTask)
    /\ \A h \in Hashes : WF_vars(NodeCancels(h))

Spec == Init /\ [][Next]_vars

FairSpec == Spec /\ Fairness

----------------------------------------------------------------------------
(* Properties.                                                             *)

TypeOK ==
    /\ StoreTypeOK
    /\ IsTable(request, Workers, Request)
    /\ sweep \in Sweep(sweep.rows, sweep.listed)
    /\ IsTable(sweep.rows, Hashes, Invoice)
    /\ IsTable(sweep.listed, Hashes, Incoming)
    /\ incoming \in [Hashes -> Incoming]
    /\ age \in [Hashes -> Age]
    /\ passes \in [Hashes -> 0..Passes]
    /\ foreign \in BOOLEAN

\* What the handlers, the task and the node know of each other.  An invoice
\* that a handler is about to store is new, unpaid and no other handler has it;
\* one it is about to pay is stored, for the payee it knows.
RequestAgrees(w) ==
    LET h   == request[w].hash
        inv == request[w].inv
    IN  /\ request[w].pc \in {"insert", "pay"} => inv \in Invoice
        /\ request[w].pc = "pay" =>
                h \in DOMAIN invoice /\ inv.user_id = invoice[h].user_id
        /\ request[w].pc = "insert" =>
                /\ inv.status = "Unpaid" /\ ~inv.internal /\ ~inv.duplicate
                /\ incoming[h].state # "none" /\ h \notin DOMAIN invoice
                /\ \A v \in DOMAIN request \ {w} :
                        request[v].pc = "insert" => request[v].hash # h

RequestsAgree == \A w \in DOMAIN request : RequestAgrees(w)

\* A row of the snapshot that is paid may have been paid again since, and has
\* not changed otherwise.  What the node has listed as paid is what it shows.
SweepAgrees ==
    /\ \A h \in DOMAIN sweep.rows :
        /\ h \in DOMAIN invoice /\ invoice[h].user_id = sweep.rows[h].user_id
        /\ sweep.rows[h].status = "Paid" =>
                /\ invoice[h].status = "Paid"
                /\ invoice[h] = sweep.rows[h] \/ invoice[h].duplicate
    /\ \A h \in DOMAIN sweep.listed :
            sweep.listed[h].state = "paid" => sweep.listed[h] = incoming[h]
    /\ sweep.pc \in {"items", "credit"} => DOMAIN sweep.listed = DOMAIN sweep.rows
    /\ sweep.pc = "credit" => sweep.hash \in DOMAIN sweep.rows

\* The network's money has been credited for h.
Received(h) ==
    invoice[h].status = "Paid" /\ (invoice[h].internal => invoice[h].duplicate)

NodeAgrees ==
    /\ \A h \in DOMAIN invoice :
        /\ incoming[h].state # "none"
        /\ Received(h) => incoming[h].state = "paid"
    /\ \A h \in Hashes :
            incoming[h].state = "paid" => incoming[h].paid_amount >= Amount[h]

\* What the tables say of an invoice: how it was paid only when it is, no
\* donation before that, no credit for one that is not stored.
InvoicesAgree ==
    /\ \A h \in DOMAIN invoice :
            invoice[h].internal \/ invoice[h].duplicate => invoice[h].status = "Paid"
    /\ \A h \in DOMAIN donation : h \in DOMAIN invoice /\ invoice[h].status = "Paid"
    /\ \A u \in Users : \A i \in DOMAIN record[u] :
            record[u][i].change > 0 => record[u][i].hash \in DOMAIN invoice \cup {"admin"}

\* The inductive invariant: the state has its type, the ledger of the store,
\* and what the parts know of each other is still so after whatever has run in
\* between.
Consistent ==
    /\ TypeOK /\ Ledger
    /\ RequestsAgree /\ SweepAgrees /\ NodeAgrees /\ InvoicesAgree

\* What the statement of u was credited for an invoice: the sum of the records
\* that are not charges.
Credits(rows, h) ==
    [i \in {j \in DOMAIN rows : rows[j].hash = h} |-> rows[i].change]

Credited(u, h) == SumOf(Credits(record[u], h))

\* An invoice is credited to its owner for exactly what was paid to it: once
\* what the internal payer paid, once what the node received, in either order
\* or both, and nothing else, whatever snapshots the task works from.
CreditedWhatWasPaid ==
    \A h \in DOMAIN invoice :
        LET inv == invoice[h]
            internal == IF inv.internal THEN Amount[h] ELSE 0
            external == IF Received(h) THEN incoming[h].paid_amount ELSE 0
        IN  /\ Credited(inv.user_id, h) = internal + external
            /\ inv.status = "Paid" => inv.paid_amount = internal + external
            /\ external > 0 => incoming[h].state = "paid"

\* donate_amount is the sum of the account's rows in donations.
Donations(u) ==
    [h \in {g \in DOMAIN donation : donation[g].user_id = u} |-> donation[h].amount]

DonatedIsSum == \A u \in Users : user[u].donate_amount = SumOf(Donations(u))

\* An invoice that was paid stays paid; only a second payment, of the other
\* kind, touches it again, and only once.  A canceled one is closed for good.
PaidForGood ==
    [][\A h \in DOMAIN invoice :
        LET old == invoice[h]
            new == invoice'[h]
        IN  /\ old.status # "Unpaid" => new.status = old.status
            /\ old.status # "Unpaid" /\ new # old =>
                    /\ old.internal /\ ~old.duplicate /\ new.duplicate
                    /\ new.paid_amount > old.paid_amount]_vars

\* What the node has received is credited, also when the invoice was paid
\* internally before the task looked.
ReceivedIsCredited ==
    \A h \in Hashes :
        incoming[h].state = "paid" ~>
            /\ h \in DOMAIN invoice
            /\ invoice[h].status = "Paid"
            /\ invoice[h].internal => invoice[h].duplicate

\* An invoice the node has closed unpaid does not stay open in the database.
ClosedIsClosed ==
    \A h \in Hashes :
        incoming[h].state = "canceled" /\ h \in DOMAIN invoice ~>
            h \in DOMAIN invoice /\ invoice[h].status # "Unpaid"
=============================================================================
