------------------------------ MODULE Receipts ------------------------------
(***************************************************************************)
(* Zap receipts (lnurl.rs): an invoice made for a zap request is answered, *)
(* once paid, with a receipt on the request's relays.  A task of its own   *)
(* reads the paid zaps without a receipt, sends one for each and marks it. *)
(*                                                                         *)
(* The task meets the rest of the service in the database only, so what    *)
(* other handlers and tasks do appears as the transactions of Store they   *)
(* run, each with the rows as they are.                                    *)
(***************************************************************************)
EXTENDS Store

CONSTANTS
    MinSendable, MaxSendable,   \* bounds on what LNURL callers may ask for
    Unreachable                 \* zaps one of whose relays is not accepted

ASSUME ReceiptsAssumption ==
    /\ MinSendable \in Nat /\ MaxSendable \in Nat
    /\ Unreachable \subseteq Hashes

VARIABLES
    zap,        \* the request of each invoice that is a zap, by hash
    zap_status, \* the invoices marked as having a receipt
    task,       \* handle_receipts: where it is and what it has read
    relays      \* receipts on the relays (external)

zapVars == <<zap, zap_status, task, relays>>
vars == <<store, faults, zapVars>>

\* As far as the validation looks at it: the number of p and e tags, whether
\* relays are named, and the amount tag if there is one.
ZapRequest == [p: 0..2, e: 0..2, relays: BOOLEAN,
               amount: {"none", "same", "other"}]

\* The id of a receipt is a hash over its tags, of which the preimage follows
\* from the invoice, and paid_at; `internal` stands for paid_at, because each
\* way to pay writes both.
Receipt == [hash: Hashes, internal: BOOLEAN, p: 0..1, e: 0..1]

\* What the task holds: the invoices its query returned that it still has to
\* see to, as they were read, and the one whose receipt it has sent.
Round(rows) == [pc: {"idle", "send", "mark"}, rows: {rows},
                hash: Hashes \cup {"none"}]

Idle == [pc |-> "idle", rows |-> <<>>, hash |-> "none"]

Init ==
    /\ StoreInit
    /\ zap = <<>>
    /\ zap_status = {}
    /\ task = Idle
    /\ relays = {}

----------------------------------------------------------------------------
(* The LNURL callback.                                                     *)

\* Mutant: the p tags are not counted.
ValidAnyTags(r) == r.e <= 1 /\ r.relays /\ r.amount # "other"

Valid(r) == r.p = 1 /\ r.e <= 1 /\ r.relays /\ r.amount # "other"

\* create_invoice: the invoice of a valid zap request, or a plain one.
CreateInvoice(u, h) ==
    /\ h \notin DOMAIN invoice
    /\ Amount[h] \in MinSendable..MaxSendable
    /\ invoice' = Insert(invoice, h, NewInvoice(u, h, "none"))
    /\ \/ \E r \in ZapRequest : Valid(r) /\ zap' = Insert(zap, h, r)
       \/ UNCHANGED zap
    /\ UNCHANGED <<user, payment, donation, record, faults>>
    /\ UNCHANGED <<zap_status, task, relays>>

----------------------------------------------------------------------------
(* What becomes of an invoice.                                             *)

PaidByAccount(u, h) ==
    LET inv == invoice[h]
    IN  /\ InternalPayMatches(u, h)
        /\ InternalPay(u, h, inv, user[u].balance, user[inv.user_id].balance)
        /\ UNCHANGED <<faults, zapVars>>

PaidByNetwork(h) ==
    LET inv  == invoice[h]
        seen == user[inv.user_id].balance
    IN  /\ \/ InvoicePaidMatches(h) /\ InvoicePaid(h, inv, Amount[h], seen)
           \/ /\ InvoiceDupPaidMatches(h)
              /\ InvoiceDupPaid(h, inv, Amount[h], seen)
        /\ UNCHANGED <<faults, zapVars>>

Canceled(h) ==
    /\ invoice[h].status = "Unpaid"
    /\ CancelInvoice(h)
    /\ UNCHANGED <<faults, zapVars>>

Wallet ==
    \/ \E u \in Users, h \in Hashes : CreateInvoice(u, h)
    \/ \E h \in DOMAIN invoice :
            \/ \E u \in Users : PaidByAccount(u, h)
            \/ PaidByNetwork(h) \/ Canceled(h)

----------------------------------------------------------------------------
(* The task.                                                               *)

\* Mutant: plain invoices are not left out.
UnmarkedPlain ==
    {h \in DOMAIN invoice : h \notin zap_status /\ invoice[h].status = "Paid"}

\* Mutant: the query does not ask for paid invoices.
UnmarkedUnpaid == {h \in DOMAIN zap : h \notin zap_status}

\* The query of handle_receipts.  The task sleeps again when it finds none.
Unmarked ==
    {h \in DOMAIN zap : h \notin zap_status /\ invoice[h].status = "Paid"}

ReadZaps ==
    /\ task.pc = "idle"
    /\ task' = IF Unmarked = {} THEN Idle
               ELSE [Idle EXCEPT !.pc = "send",
                                 !.rows = [h \in Unmarked |-> invoice[h]]]
    /\ UNCHANGED <<store, faults, zap, zap_status, relays>>

\* Mutant: a receipt that cannot be sent ends the round.
RestNever(h) == task' = Idle

\* The loop goes on, whether the receipt was sent or not.
Rest(h) ==
    LET rest == DOMAIN task.rows \ {h}
    IN  task' = IF rest = {} THEN Idle
                ELSE [Idle EXCEPT !.pc = "send",
                                  !.rows = [g \in rest |-> task.rows[g]]]

\* send_receipt takes the first p tag and the first e tag of the request.
ReceiptOf(h) ==
    [hash |-> h, internal |-> task.rows[h].internal,
     p |-> IF zap[h].p > 0 THEN 1 ELSE 0, e |-> IF zap[h].e > 0 THEN 1 ELSE 0]

\* Mutant: marked before it is sent.
SendReceiptMarked(h) ==
    /\ task.pc = "send" /\ h \in DOMAIN task.rows
    /\ h \notin Unreachable
    /\ zap_status' = zap_status \cup {h}
    /\ task' = [task EXCEPT !.pc = "mark", !.hash = h]
    /\ UNCHANGED <<store, faults, zap, relays>>

SendReceipt(h) ==
    /\ task.pc = "send" /\ h \in DOMAIN task.rows
    /\ h \notin Unreachable
    /\ relays' = relays \cup {ReceiptOf(h)}
    /\ task' = [task EXCEPT !.pc = "mark", !.hash = h]
    /\ UNCHANGED <<store, faults, zap, zap_status>>

\* add_relay fails for one relay, and nothing is sent to the others.
SkipReceipt(h) ==
    /\ task.pc = "send" /\ h \in DOMAIN task.rows
    /\ h \in Unreachable
    /\ Rest(h)
    /\ UNCHANGED <<store, faults, zap, zap_status, relays>>

MarkSent ==
    /\ task.pc = "mark"
    /\ zap_status' = zap_status \cup {task.hash}
    /\ Rest(task.hash)
    /\ UNCHANGED <<store, faults, zap, relays>>

Task ==
    \/ ReadZaps \/ MarkSent
    \/ \E h \in Hashes : SendReceipt(h) \/ SkipReceipt(h)

\* Sending or marking one receipt fails; the loop goes on.
TaskFails ==
    /\ faults < MaxFaults
    /\ \E h \in DOMAIN task.rows :
            (task.pc = "mark" => h = task.hash) /\ Rest(h)
    /\ faults' = faults + 1
    /\ UNCHANGED <<store, zap, zap_status, relays>>

Crash ==
    /\ faults < MaxFaults /\ task # Idle
    /\ task' = Idle
    /\ faults' = faults + 1
    /\ UNCHANGED <<store, zap, zap_status, relays>>

Next == Wallet \/ Task \/ TaskFails \/ Crash

\* The task loops for ever and its calls end.
Spec == Init /\ [][Next]_vars /\ WF_vars(Task)

----------------------------------------------------------------------------
(* Properties.                                                             *)

TypeOK ==
    /\ StoreTypeOK
    /\ IsTable(zap, DOMAIN invoice, ZapRequest)
    /\ zap_status \subseteq DOMAIN zap
    /\ task \in Round(task.rows)
    /\ IsTable(task.rows, DOMAIN zap, Invoice)
    /\ task.pc = "mark" => task.hash \in DOMAIN task.rows
    /\ relays \subseteq Receipt

\* A receipt is the proof of a payment: it is published only for an invoice
\* that is and stays paid, in the way it was paid, and names whom and what
\* the request names.  So all receipts of an invoice are the same event, though
\* it is sent again after a failure or a restart, or paid a second time.
ReceiptIsTrue ==
    \A r \in relays :
        /\ invoice[r.hash].status = "Paid"
        /\ r.internal = invoice[r.hash].internal
        /\ r.p = zap[r.hash].p /\ r.e = zap[r.hash].e

\* An invoice marked has its receipt on the relays.
MarkedIsSent == \A h \in zap_status : \E r \in relays : r.hash = h

\* Why: what the task has read was paid, and stays as it was read.
TaskAgrees ==
    /\ \A h \in DOMAIN task.rows :
            /\ invoice[h].status = "Paid"
            /\ task.rows[h].internal = invoice[h].internal
    /\ task.pc = "mark" => \E r \in relays : r.hash = task.hash

\* The inductive invariant.
Truthful ==
    /\ \A h \in DOMAIN zap : Valid(zap[h])
    /\ \A r \in relays : r.hash \in DOMAIN zap
    /\ TaskAgrees
    /\ ReceiptIsTrue
    /\ MarkedIsSent

\* Every paid zap gets its receipt, unless its relays cannot be reached; those
\* that cannot do not hold up the others.
PaidIsReceipted ==
    \A h \in Hashes \ Unreachable :
        h \in DOMAIN zap /\ h \in DOMAIN invoice /\ invoice[h].status = "Paid"
            ~> h \in zap_status
============================================================================
