--------------------------- MODULE ServiceProofs ---------------------------
(***************************************************************************)
(* Proofs about Service: the two halves keep out of each other's way, the  *)
(* books balance, the service can pay out what it owes, and what the users *)
(* see is the abstract wallet of Custody.                                  *)
(*                                                                         *)
(* The first sections are about one step from a consistent state, given    *)
(* what it does to the tables.  That every step does that, and keeps the   *)
(* invariants of the halves, comes from the proofs about the halves, which *)
(* the last sections bring in.                                             *)
(***************************************************************************)
EXTENDS Service, StoreProofs

(* What a step of the payments does to the tables: it locks what a payment *)
(* may cost, or settles a pending one from its row as it stands.           *)
Charges ==
    \/ UNCHANGED store
    \/ \E w \in DOMAIN job :
        /\ LockBalanceMatches(job[w].user_id, job[w].hash)
        /\ LockBalance(job[w].user_id, job[w].hash)
    \/ \E h \in DOMAIN payment :
        /\ payment[h].status = "Unpaid"
        /\ \/ PayFailed(h, payment[h])
           \/ /\ node[h].state = "succeeded"
              /\ \E seen \in Int : PaySuccess(h, payment[h], node[h].fee, seen)

(* What a step of the invoices does to them: a new invoice is stored, one  *)
(* is canceled, or one is paid, internally or as the node received it.     *)
Stores(w) ==
    /\ request[w].pc = "insert"
    /\ invoice' = Insert(invoice, request[w].hash, request[w].inv)
    /\ UNCHANGED <<user, payment, donation, record>>

Pays(h, model, seen) ==
    \/ \E u \in Users, payeeSeen \in Int :
        InternalPayMatches(u, h) /\ InternalPay(u, h, model, seen, payeeSeen)
    \/ /\ incoming[h].state = "paid" /\ InvoicePaidMatches(h)
       /\ InvoicePaid(h, model, incoming[h].paid_amount, seen)
    \/ /\ incoming[h].state = "paid" /\ InvoiceDupPaidMatches(h)
       /\ model = invoice[h]
       /\ InvoiceDupPaid(h, model, incoming[h].paid_amount, seen)

Deposits ==
    \/ UNCHANGED store
    \/ \E w \in DOMAIN request : Stores(w)
    \/ \E h \in DOMAIN invoice : CancelInvoice(h)
    \/ \E h \in DOMAIN invoice, model \in Invoice, seen \in Int :
        model.user_id = invoice[h].user_id /\ Pays(h, model, seen)

(* The node does not take back what it has received.                       *)
ReceiptsKept ==
    \A h \in Hashes : incoming[h].state = "paid" => incoming'[h] = incoming[h]

(* What a step of the service does.                                        *)
Does ==
    \/ Charges /\ UNCHANGED incoming
    \/ Deposits /\ ReceiptsKept

----------------------------------------------------------------------------
(* What the invariant says of a state.                                     *)

\* The tables and the ledger of the halves are those of Store.
LEMMA SameStore ==
    /\ P!TablesOK <=> TablesOK
    /\ P!Ledger <=> Ledger
    /\ I!TablesOK <=> TablesOK
<1>1. /\ P!TablesOK <=> TablesOK
      /\ I!TablesOK <=> TablesOK
  BY DEF P!TablesOK, I!TablesOK, TablesOK, P!IsTable, I!IsTable, IsTable,
         P!User, I!User, User, P!Payment, I!Payment, Payment,
         P!Invoice, I!Invoice, Invoice, P!Donation, I!Donation, Donation,
         P!Record, I!Record, Record, P!Status, I!Status, Status
<1>2. \A h : P!Total(h) = Total(h) /\ P!ServiceFee(h) = ServiceFee(h)
  BY DEF P!Total, Total, P!pct, pct, P!MaxFee, MaxFee, P!ServiceFee, ServiceFee
<1>3. \A S : /\ P!IsFiniteSet(S) <=> IsFiniteSet(S)
             /\ P!Cardinality(S) = Cardinality(S)
  BY DEF P!IsFiniteSet, IsFiniteSet, P!Cardinality, Cardinality
<1>4. \A rows, u : P!Coins(rows, u) = Coins(rows, u)
  BY DEF P!Coins, Coins
<1> QED
  BY <1>1, <1>2, <1>3, <1>4
     DEF P!Ledger, Ledger, P!RowsAgree, RowsAgree, P!LockedFunds, LockedFunds,
         P!NoOverdraft, NoOverdraft

LEMMA PaymentFacts ==
    ASSUME P!Consistent
    PROVE  /\ TablesOK /\ Ledger
           /\ \A h \in Hashes : /\ node[h].fee \in Nat
                                /\ node[h].fee <= MaxFee(Amount[h])
                                /\ node[h].state # "none" => h \in DOMAIN payment
           /\ \A h \in DOMAIN payment :
                payment[h].status = "Paid" /\ ~payment[h].internal =>
                    payment[h].total = Amount[h] + node[h].fee
                                            + ServiceFee(Amount[h])
           /\ \A w \in DOMAIN job :
                job[w].user_id \in Users /\ job[w].hash \in Hashes
<1>1. /\ \A msats : P!MaxFee(msats) = MaxFee(msats)
      /\ \A msats : P!ServiceFee(msats) = ServiceFee(msats)
  BY DEF P!MaxFee, MaxFee, P!ServiceFee, ServiceFee, P!pct, pct
<1>2. TablesOK /\ Ledger
  BY SameStore DEF P!Consistent, P!TypeOK, P!StoreTypeOK
<1>3. \A h \in Hashes : /\ node[h].fee \in Nat
                        /\ node[h].fee <= MaxFee(Amount[h])
                        /\ node[h].state # "none" => h \in DOMAIN payment
  BY <1>1 DEF P!Consistent, P!TypeOK, P!NodeAgrees, P!Outgoing
<1>4. \A h \in DOMAIN payment :
        payment[h].status = "Paid" /\ ~payment[h].internal =>
            payment[h].total = Amount[h] + node[h].fee + ServiceFee(Amount[h])
  BY <1>1 DEF P!Consistent, P!ChargedWhatItCost
<1>5. \A w \in DOMAIN job : job[w].user_id \in Users /\ job[w].hash \in Hashes
  BY DEF P!Consistent, P!TypeOK, P!IsTable, P!Job
<1> QED
  BY <1>2, <1>3, <1>4, <1>5

LEMMA InvoiceFacts ==
    ASSUME I!Consistent
    PROVE  /\ \A h \in Hashes :
                /\ incoming[h].paid_amount \in Nat
                /\ incoming[h].state = "paid" =>
                        incoming[h].paid_amount >= Amount[h]
           /\ \A w \in DOMAIN request :
                /\ request[w].hash \in Hashes
                /\ request[w].pc = "insert" =>
                    /\ request[w].inv.status = "Unpaid"
                    /\ request[w].hash \notin DOMAIN invoice
           /\ \A h \in DOMAIN invoice :
                /\ h \in Hashes /\ invoice[h] \in Invoice
                /\ invoice[h].internal \/ invoice[h].duplicate =>
                        invoice[h].status = "Paid"
                /\ I!Received(h) => incoming[h].state = "paid"
<1>1. \A h \in Hashes :
        /\ incoming[h].paid_amount \in Nat
        /\ incoming[h].state = "paid" => incoming[h].paid_amount >= Amount[h]
  BY DEF I!Consistent, I!TypeOK, I!NodeAgrees, I!Incoming
<1>2. \A w \in DOMAIN request :
        /\ request[w].hash \in Hashes
        /\ request[w].pc = "insert" =>
            /\ request[w].inv.status = "Unpaid"
            /\ request[w].hash \notin DOMAIN invoice
  BY DEF I!Consistent, I!TypeOK, I!IsTable, I!Request, I!RequestsAgree,
         I!RequestAgrees
<1>3. \A h \in DOMAIN invoice :
        /\ h \in Hashes /\ invoice[h] \in Invoice
        /\ invoice[h].internal \/ invoice[h].duplicate => invoice[h].status = "Paid"
        /\ I!Received(h) => incoming[h].state = "paid"
  BY SameStore DEF TablesOK, IsTable, I!Consistent, I!TypeOK, I!StoreTypeOK,
                   I!InvoicesAgree, I!NodeAgrees
<1> QED
  BY <1>1, <1>2, <1>3

----------------------------------------------------------------------------
(* The two kinds of invoices stay apart.                                   *)

\* A handler keeps the hash of its request, and its request the way `pay` or
\* the create of the invoice has chosen; the node pays no other hashes.
HashesApart ==
    /\ \A w \in DOMAIN request : request[w].pc = "insert" => request[w].hash \in Own
    /\ \A w \in DOMAIN job : job[w].hash \notin Own
    /\ \A h \in Hashes : node[h].state # "none" => h \notin Own

LEMMA PaymentHashes ==
    ASSUME P!TypeOK, HashesApart, UNCHANGED request,
           \/ \E w \in Workers, u \in Users, h \in Hashes \ Own :
                P!Begin(w, u, h, FALSE)
           \/ \E w \in Workers : P!Handler(w) \/ P!Abandon(w) \/ P!PayFails(w)
           \/ P!SyncTask \/ P!SyncFails
           \/ \E h \in Hashes : P!Node(h)
    PROVE  HashesApart'
<1> USE DEF HashesApart
<1>1. /\ \A w \in DOMAIN job : job[w] \in P!Job
      /\ node \in [Hashes -> P!Outgoing]
  BY DEF P!TypeOK, P!IsTable
<1>2. ASSUME NEW w \in Workers, NEW u \in Users, NEW h \in Hashes \ Own,
             P!Begin(w, u, h, FALSE)
      PROVE  HashesApart'
  BY <1>2 DEF P!Begin, P!Insert
<1>3. ASSUME NEW w \in DOMAIN job, UNCHANGED node,
             P!Return(w) \/ \E pc : P!Goto(w, pc)
      PROVE  HashesApart'
  BY <1>1, <1>3 DEF P!Return, P!Goto, P!Job
<1>4. ASSUME NEW w \in Workers, P!Handler(w)
      PROVE  HashesApart'
  <2>1. w \in DOMAIN job
    BY <1>4 DEF P!Handler
  <2>2. CASE P!Pay(w)
    BY <1>1, <2>1, <2>2 DEF P!Pay, P!Goto, P!Job
  <2>3. CASE P!Lookup(w)
    BY <1>1, <1>3, <2>1, <2>3 DEF P!Lookup, P!Job
  <2>4. CASE P!ReadUser(w)
    BY <1>1, <2>1, <2>4 DEF P!ReadUser, P!Job
  <2> QED
    BY <1>3, <1>4, <2>1, <2>2, <2>3, <2>4
       DEF P!Handler, P!Lock, P!PayReturns, P!Refund, P!Charge
<1>5. ASSUME NEW w \in Workers, P!Abandon(w) \/ P!PayFails(w)
      PROVE  HashesApart'
  BY <1>3, <1>5 DEF P!Abandon, P!PayFails
<1>6. CASE P!SyncTask \/ P!SyncFails
  <2>1. UNCHANGED <<job, node>>
    BY <1>6 DEF P!SyncTask, P!SyncRead, P!SyncList, P!SyncRefund,
                P!SyncReadUser, P!SyncCharge, P!SyncDone, P!SyncFails
  <2> QED
    BY <2>1
<1>7. ASSUME NEW h \in Hashes, P!Node(h)
      PROVE  HashesApart'
  BY <1>1, <1>7 DEF P!Node, P!NodeStarts, P!NodeEnds
<1> QED
  BY <1>2, <1>4, <1>5, <1>6, <1>7

LEMMA InvoiceHashes ==
    ASSUME I!TypeOK, HashesApart, UNCHANGED <<job, node>>,
           \/ \E w \in Workers, u \in Users, h \in Hashes :
                \/ I!BeginInternal(w, u, h)
                \/ h \in Own /\ \E payer \in Payers : I!CreateInvoice(w, u, h, payer)
           \/ \E w \in Workers : I!Handler(w) \/ I!Abandon(w)
           \/ UNCHANGED request
    PROVE  HashesApart'
<1> USE DEF HashesApart
<1>1. \A w \in DOMAIN request : request[w] \in I!Request
  BY DEF I!TypeOK, I!IsTable
<1>2. ASSUME NEW w \in Workers, NEW u \in Users, NEW h \in Hashes,
             I!BeginInternal(w, u, h)
      PROVE  HashesApart'
  BY <1>2 DEF I!BeginInternal, I!Insert
<1>3. ASSUME NEW w \in Workers, NEW u \in Users, NEW h \in Own,
             NEW payer \in Payers, I!CreateInvoice(w, u, h, payer)
      PROVE  HashesApart'
  BY <1>3 DEF I!CreateInvoice, I!Insert
<1>4. ASSUME NEW w \in Workers, I!Return(w)
      PROVE  HashesApart'
  BY <1>4 DEF I!Return
<1>5. ASSUME NEW w \in DOMAIN request, I!FindInvoice(w)
      PROVE  HashesApart'
  BY <1>1, <1>4, <1>5 DEF I!FindInvoice, I!Request, I!Return
<1> QED
  BY <1>2, <1>3, <1>4, <1>5
     DEF I!Handler, I!InsertInvoice, I!PayInternal, I!Abandon

LEMMA StepHashes ==
    ASSUME P!TypeOK, I!TypeOK, HashesApart, [Next]_vars
    PROVE  HashesApart'
<1>1. ASSUME NEW w \in Workers, NEW u \in Users, NEW h \in Hashes,
             \/ PayExternal(w, u, h) \/ PayInternal(w, u, h)
             \/ CreateInvoice(w, u, h)
      PROVE  HashesApart'
  BY <1>1, PaymentHashes, InvoiceHashes
     DEF PayExternal, PayInternal, CreateInvoice, invVars, payVars
<1>2. ASSUME NEW w \in Workers, Handler(w) \/ Drop(w)
      PROVE  HashesApart'
  BY <1>2, PaymentHashes, InvoiceHashes DEF Handler, Drop, invVars, payVars
<1>3. CASE SyncPayments
  BY <1>3, PaymentHashes DEF SyncPayments, invVars
<1>4. CASE SyncInvoices
  <2>1. UNCHANGED request
    BY <1>4 DEF SyncInvoices, I!SweepTask, I!SweepFails, I!SweepRead,
                I!SweepPage, I!SweepList, I!SweepListFails, I!SweepCredit,
                I!SweepDone, I!SweepCancel, I!SweepReadUser
  <2> QED
    BY <1>4, <2>1, InvoiceHashes DEF SyncInvoices, payVars
<1>5. ASSUME NEW h \in Hashes, Node(h)
      PROVE  HashesApart'
  <2>1. CASE P!Node(h) /\ UNCHANGED <<invVars, turn>>
    BY <2>1, PaymentHashes DEF invVars
  <2>2. CASE /\ I!NodeReceives(h) \/ I!NodeCancels(h) \/ I!Expire(h)
                \/ I!LeaveWindow(h)
             /\ UNCHANGED payVars
    BY <2>2, InvoiceHashes
       DEF payVars, I!NodeReceives, I!NodeCancels, I!Expire, I!LeaveWindow
  <2> QED
    BY <1>5, <2>1, <2>2 DEF Node
<1>6. CASE Crash
  <2>1. job' = <<>> /\ request' = <<>> /\ node' = node
    BY <1>6 DEF Crash, P!Crash
  <2> QED
    BY <2>1, EmptyTable DEF HashesApart
<1>7. CASE UNCHANGED vars
  BY <1>7 DEF vars, payVars, invVars, HashesApart
<1> QED
  BY <1>1, <1>2, <1>3, <1>4, <1>5, <1>6, <1>7 DEF Next

\* No deposit touches a payment; one that adds a payment is between accounts.
LEMMA DepositsFrame ==
    ASSUME Deposits
    PROVE  \/ payment' = payment
           \/ \E h \in DOMAIN invoice :
                /\ h \notin DOMAIN payment
                /\ DOMAIN payment' = DOMAIN payment \cup {h}
                /\ \A g \in DOMAIN payment : payment'[g] = payment[g]
                /\ payment'[h].internal /\ payment'[h].status = "Paid"
                /\ payment'[h].lock_amount = 0
<1>1. CASE UNCHANGED store
  BY <1>1 DEF store
<1>2. CASE \E w \in DOMAIN request : Stores(w)
  BY <1>2 DEF Stores
<1>3. CASE \E h \in DOMAIN invoice : CancelInvoice(h)
  BY <1>3 DEF CancelInvoice
<1>4. ASSUME NEW h \in DOMAIN invoice, NEW model, NEW seen, Pays(h, model, seen)
      PROVE  \/ payment' = payment
             \/ /\ h \notin DOMAIN payment
                /\ DOMAIN payment' = DOMAIN payment \cup {h}
                /\ \A g \in DOMAIN payment : payment'[g] = payment[g]
                /\ payment'[h].internal /\ payment'[h].status = "Paid"
                /\ payment'[h].lock_amount = 0
  <2>1. ASSUME NEW u, NEW payeeSeen, InternalPayMatches(u, h),
               InternalPay(u, h, model, seen, payeeSeen)
        PROVE  /\ h \notin DOMAIN payment
               /\ DOMAIN payment' = DOMAIN payment \cup {h}
               /\ \A g \in DOMAIN payment : payment'[g] = payment[g]
               /\ payment'[h].internal /\ payment'[h].status = "Paid"
               /\ payment'[h].lock_amount = 0
    BY <2>1 DEF InternalPayMatches, InternalPay, Insert
  <2>2. ASSUME NEW amount, \/ InvoicePaid(h, model, amount, seen)
                           \/ InvoiceDupPaid(h, model, amount, seen)
        PROVE  payment' = payment
    BY <2>2 DEF InvoicePaid, InvoiceDupPaid
  <2> QED
    BY <1>4, <2>1, <2>2 DEF Pays
<1> QED
  BY <1>1, <1>2, <1>3, <1>4 DEF Deposits

\* A row is inserted for the hash its handler has, and keeps the way it is paid.
LEMMA StepKinds ==
    ASSUME Consistent, Does, [Next]_vars
    PROVE  KindsApart'
<1>1. HashesApart'
  BY StepHashes DEF Consistent, P!Consistent, I!Consistent, KindsApart, HashesApart
<1>2. TablesOK /\ DOMAIN payment \subseteq Hashes
  BY PaymentFacts DEF Consistent, TablesOK, IsTable
<1>3. DOMAIN invoice' \subseteq Own
  <2>1. CASE \E w \in DOMAIN request : Stores(w)
    BY <2>1 DEF Stores, Insert, Consistent, KindsApart
  <2>2. CASE Charges
    <3>1. invoice' = invoice
      BY <2>2 DEF Charges, store, LockBalance, PayFailed, PaySuccess
    <3> QED
      BY <3>1 DEF Consistent, KindsApart
  <2>3. CASE UNCHANGED store
    BY <2>3 DEF store, Consistent, KindsApart
  <2>4. CASE \E h \in DOMAIN invoice : CancelInvoice(h)
    BY <2>4 DEF CancelInvoice, Consistent, KindsApart
  <2>5. ASSUME NEW h \in DOMAIN invoice, NEW model, NEW seen, Pays(h, model, seen)
        PROVE  DOMAIN invoice' = DOMAIN invoice
    <3>1. ASSUME NEW u, NEW payeeSeen, InternalPay(u, h, model, seen, payeeSeen)
          PROVE  DOMAIN invoice' = DOMAIN invoice
      BY <3>1 DEF InternalPay
    <3>2. ASSUME NEW amount, \/ InvoicePaid(h, model, amount, seen)
                             \/ InvoiceDupPaid(h, model, amount, seen)
          PROVE  DOMAIN invoice' = DOMAIN invoice
      BY <3>2 DEF InvoicePaid, InvoiceDupPaid
    <3> QED
      BY <2>5, <3>1, <3>2 DEF Pays
  <2> QED
    BY <2>1, <2>2, <2>3, <2>4, <2>5 DEF Does, Deposits, Consistent, KindsApart
<1> DEFINE Apart(table) ==
        \A h \in DOMAIN table : /\ table[h].internal <=> h \in Own
                                /\ table[h].internal => table[h].status = "Paid"
<1>4. Apart(payment')
  <2>1. Apart(payment)
    BY DEF Consistent, KindsApart
  <2>2. CASE Charges
    <3>1. ASSUME NEW w \in DOMAIN job, LockBalance(job[w].user_id, job[w].hash)
          PROVE  Apart(payment')
      BY <2>1, <3>1 DEF LockBalance, Insert, Consistent, KindsApart
    <3>2. ASSUME NEW h \in DOMAIN payment, payment[h].status = "Unpaid",
                 \/ PayFailed(h, payment[h])
                 \/ \E fee, seen : PaySuccess(h, payment[h], fee, seen)
          PROVE  Apart(payment')
      <4>1. ~payment[h].internal /\ payment[h] \in Payment
        BY <1>2, <2>1, <3>2 DEF TablesOK, IsTable
      <4>2. CASE PayFailed(h, payment[h])
        BY <2>1, <4>1, <4>2 DEF PayFailed, Payment
      <4>3. CASE \E fee, seen : PaySuccess(h, payment[h], fee, seen)
        BY <2>1, <4>1, <4>3 DEF PaySuccess, Payment
      <4> QED
        BY <3>2, <4>2, <4>3
    <3> QED
      BY <2>1, <2>2, <3>1, <3>2 DEF Charges, store
  <2>3. CASE Deposits
    <3>1. \/ payment' = payment
          \/ \E h \in DOMAIN invoice :
                /\ h \notin DOMAIN payment
                /\ DOMAIN payment' = DOMAIN payment \cup {h}
                /\ \A g \in DOMAIN payment : payment'[g] = payment[g]
                /\ payment'[h].internal /\ payment'[h].status = "Paid"
      BY <2>3, DepositsFrame
    <3>2. ASSUME NEW h \in DOMAIN invoice,
                 DOMAIN payment' = DOMAIN payment \cup {h},
                 \A g \in DOMAIN payment : payment'[g] = payment[g],
                 payment'[h].internal, payment'[h].status = "Paid"
          PROVE  Apart(payment')
      <4>1. h \in Own
        BY DEF Consistent, KindsApart
      <4> QED
        BY <2>1, <3>2, <4>1
    <3> QED
      BY <2>1, <3>1, <3>2
  <2> QED
    BY <2>2, <2>3 DEF Does
<1> QED
  BY <1>1, <1>3, <1>4 DEF KindsApart, HashesApart

----------------------------------------------------------------------------
(* What the network has paid for, as the tables say.                       *)

ReceivedFor(h) == h \in DOMAIN invoice /\ I!Received(h)

\* To store an invoice, to cancel it and to pay it between accounts is not to
\* receive for it.
LEMMA NothingReceived ==
    ASSUME Consistent,
           \/ \E w \in DOMAIN request : Stores(w)
           \/ \E h \in DOMAIN invoice : CancelInvoice(h)
           \/ \E h \in DOMAIN invoice : \E u, model, seen, payeeSeen :
                InternalPayMatches(u, h) /\ InternalPay(u, h, model, seen, payeeSeen)
    PROVE  \A g : ReceivedFor(g)' = ReceivedFor(g)
<1>1. /\ \A w \in DOMAIN request : request[w].pc = "insert" =>
            /\ request[w].inv.status = "Unpaid"
            /\ request[w].hash \notin DOMAIN invoice
      /\ \A h \in DOMAIN invoice :
            /\ invoice[h] \in Invoice
            /\ invoice[h].internal \/ invoice[h].duplicate =>
                    invoice[h].status = "Paid"
  BY InvoiceFacts DEF Consistent
<1>2. ASSUME NEW w \in DOMAIN request, Stores(w)
      PROVE  \A g : ReceivedFor(g)' = ReceivedFor(g)
  BY <1>1, <1>2 DEF Stores, Insert, ReceivedFor, I!Received
<1>3. ASSUME NEW h \in DOMAIN invoice, CancelInvoice(h)
      PROVE  \A g : ReceivedFor(g)' = ReceivedFor(g)
  BY <1>1, <1>3 DEF CancelInvoice, ReceivedFor, I!Received, Invoice
<1>4. ASSUME NEW h \in DOMAIN invoice, NEW u, NEW model, NEW seen, NEW payeeSeen,
             InternalPayMatches(u, h), InternalPay(u, h, model, seen, payeeSeen)
      PROVE  \A g : ReceivedFor(g)' = ReceivedFor(g)
  <2>1. invoice[h].status = "Unpaid" /\ ~invoice[h].duplicate
    BY <1>1, <1>4 DEF InternalPayMatches, Invoice
  <2>2. invoice' = [invoice EXCEPT ![h].status = "Paid", ![h].amount = Amount[h],
                                   ![h].paid_amount = Amount[h],
                                   ![h].internal = TRUE]
    BY <1>4 DEF InternalPay
  <2> QED
    BY <1>1, <2>1, <2>2 DEF ReceivedFor, I!Received, Invoice
<1> QED
  BY <1>2, <1>3, <1>4

\* invoice_paid and invoice_dup_paid receive for their invoice, for the first
\* time, and the account gets what the node received.
LEMMA NowReceived ==
    ASSUME Consistent, NEW h \in DOMAIN invoice, NEW model \in Invoice,
           model.user_id = invoice[h].user_id, NEW seen \in Int,
           LET amount == incoming[h].paid_amount
           IN  \/ InvoicePaidMatches(h) /\ InvoicePaid(h, model, amount, seen)
               \/ InvoiceDupPaidMatches(h) /\ InvoiceDupPaid(h, model, amount, seen)
    PROVE  /\ ~ReceivedFor(h) /\ ReceivedFor(h)'
           /\ \A g : g # h => ReceivedFor(g)' = ReceivedFor(g)
           /\ payment' = payment
           /\ \A x \in Users : user'[x].balance = user[x].balance
                    + IF x = invoice[h].user_id THEN incoming[h].paid_amount ELSE 0
<1> DEFINE amount == incoming[h].paid_amount
<1>1. /\ TablesOK /\ h \in Hashes /\ amount \in Nat
      /\ \A g \in DOMAIN invoice : invoice[g] \in Invoice
  BY PaymentFacts, InvoiceFacts DEF Consistent
<1> HIDE DEF amount
<1>2. CASE InvoicePaidMatches(h) /\ InvoicePaid(h, model, amount, seen)
  <2>1. invoice' = [invoice EXCEPT ![h].status = "Paid", ![h].paid_amount = amount,
                                   ![h].internal = FALSE]
        /\ payment' = payment /\ invoice[h].status = "Unpaid"
    BY <1>2 DEF InvoicePaid, InvoicePaidMatches
  <2>2. /\ ~ReceivedFor(h) /\ ReceivedFor(h)'
        /\ \A g : g # h => ReceivedFor(g)' = ReceivedFor(g)
    BY <1>1, <2>1 DEF ReceivedFor, I!Received, Invoice
  <2>3. Receives(model.user_id, amount)
    BY <1>1, <1>2, InvoicePaidAccounts
  <2> QED
    BY <2>1, <2>2, <2>3 DEF Receives, amount
<1>3. CASE InvoiceDupPaidMatches(h) /\ InvoiceDupPaid(h, model, amount, seen)
  <2>1. invoice' = [invoice EXCEPT ![h].paid_amount = amount + model.paid_amount,
                                   ![h].duplicate = TRUE]
        /\ payment' = payment /\ invoice[h].status = "Paid"
        /\ invoice[h].internal /\ ~invoice[h].duplicate
    BY <1>3 DEF InvoiceDupPaid, InvoiceDupPaidMatches
  <2>2. /\ ~ReceivedFor(h) /\ ReceivedFor(h)'
        /\ \A g : g # h => ReceivedFor(g)' = ReceivedFor(g)
    BY <1>1, <2>1 DEF ReceivedFor, I!Received, Invoice
  <2>3. Receives(model.user_id, amount)
    BY <1>1, <1>3, InvoiceDupPaidAccounts
  <2> QED
    BY <2>1, <2>2, <2>3 DEF Receives, amount
<1> QED
  BY <1>2, <1>3 DEF amount

----------------------------------------------------------------------------
(* The books.                                                              *)

LEMMA AmountsAreNat ==
    ASSUME Consistent
    PROVE  /\ \A u \in Users : user[u].balance \in Nat
           /\ \A h \in Hashes : Spent(h) \in Nat /\ Gained(h) \in Nat
<1>1. TablesOK /\ Ledger /\ \A h \in Hashes : incoming[h].paid_amount \in Nat
  BY PaymentFacts, InvoiceFacts DEF Consistent
<1>2. \A u \in Users : user[u].balance \in Nat
  BY <1>1 DEF TablesOK, User, Ledger, NoOverdraft
<1>3. \A h \in DOMAIN payment : payment[h].lock_amount \in Nat /\ payment[h].total \in Nat
  BY <1>1 DEF TablesOK, IsTable, Payment
<1> QED
  BY <1>1, <1>2, <1>3 DEF Spent, Gained

\* The books move with two accounts, what is spent on one hash and what is
\* gained from it.
Booked(u, v, g, debit, credit, spent, gained) ==
    /\ u \in Users /\ v \in Users /\ g \in Hashes
    /\ debit \in Int /\ credit \in Nat /\ spent \in Int /\ gained \in Nat
    /\ user[u].balance + debit >= 0 /\ Spent(g) + spent >= 0
    /\ \A x \in Users : user'[x].balance
            = user[x].balance + (IF x = u THEN debit ELSE 0)
                              + (IF x = v THEN credit ELSE 0)
    /\ \A h \in Hashes : Spent(h)' = Spent(h) + IF h = g THEN spent ELSE 0
    /\ \A h \in Hashes : Gained(h)' = Gained(h) + IF h = g THEN gained ELSE 0
    /\ debit + credit + spent <= gained

\* They stay balanced when no more leaves them than comes in.
LEMMA BooksMoved ==
    ASSUME Consistent, NEW u, NEW v, NEW g,
           NEW debit, NEW credit, NEW spent, NEW gained,
           Booked(u, v, g, debit, credit, spent, gained)
    PROVE  BooksBalance'
<1> USE DEF Booked
<1> DEFINE balances == [x \in Users |-> user[x].balance]
           debited  == [x \in Users |-> user[x].balance + IF x = u THEN debit ELSE 0]
           credited == [x \in Users |-> user'[x].balance]
           oldSpent == [h \in Hashes |-> Spent(h)]
           newSpent == [h \in Hashes |-> Spent(h)']
           oldGained == [h \in Hashes |-> Gained(h)]
           newGained == [h \in Hashes |-> Gained(h)']
<1>1. /\ IsFiniteSet(Users) /\ IsFiniteSet(Hashes)
      /\ \A x \in Users : user[x].balance \in Nat
      /\ \A h \in Hashes : Spent(h) \in Nat /\ Gained(h) \in Nat
  BY AmountsAreNat, ServiceAssumption, StoreAssumption
     DEF ServiceAssumption, StoreAssumption
<1>2. SumOf(debited) = SumOf(balances) + debit
  <2>1. Moved(balances, debited, Users, u, debit)
    BY <1>1 DEF Moved
  <2> QED
    BY <1>1, <2>1, SumOfMoved
<1>3. SumOf(credited) = SumOf(debited) + credit
  <2>1. Moved(debited, credited, Users, v, credit)
    BY <1>1 DEF Moved
  <2> QED
    BY <1>1, <2>1, SumOfMoved
<1>4. SumOf(newSpent) = SumOf(oldSpent) + spent
  <2>1. Moved(oldSpent, newSpent, Hashes, g, spent)
    BY <1>1 DEF Moved
  <2> QED
    BY <1>1, <2>1, SumOfMoved
<1>5. SumOf(newGained) = SumOf(oldGained) + gained
  <2>1. Moved(oldGained, newGained, Hashes, g, gained)
    BY <1>1 DEF Moved
  <2> QED
    BY <1>1, <2>1, SumOfMoved
<1>6. SumOf(balances) \in Nat /\ SumOf(oldSpent) \in Nat /\ SumOf(oldGained) \in Nat
  BY <1>1, SumIsNat
<1>7. SumOf(Deposit) \in Nat
  BY <1>1, SumIsNat, StoreAssumption DEF StoreAssumption
<1>8. SumOf(balances) + SumOf(oldSpent) <= SumOf(Deposit) + SumOf(oldGained)
  BY DEF Consistent, BooksBalance
<1> HIDE DEF balances, debited, credited, oldSpent, newSpent, oldGained, newGained
<1>9. SumOf(credited) + SumOf(newSpent) <= SumOf(Deposit) + SumOf(newGained)
  BY <1>2, <1>3, <1>4, <1>5, <1>6, <1>7, <1>8
<1> QED
  BY <1>9 DEF BooksBalance, credited, newSpent, newGained

\* They stay when none of that moves.
LEMMA BooksFrame ==
    ASSUME Consistent,
           \A x \in Users : user'[x].balance = user[x].balance,
           \A h \in Hashes : Spent(h)' = Spent(h) /\ Gained(h)' = Gained(h)
    PROVE  BooksBalance'
<1>1. /\ [x \in Users |-> user'[x].balance] = [x \in Users |-> user[x].balance]
      /\ [h \in Hashes |-> Spent(h)'] = [h \in Hashes |-> Spent(h)]
      /\ [h \in Hashes |-> Gained(h)'] = [h \in Hashes |-> Gained(h)]
  OBVIOUS
<1>2. SumOf([x \in Users |-> user[x].balance]) + SumOf([h \in Hashes |-> Spent(h)])
        <= SumOf(Deposit) + SumOf([h \in Hashes |-> Gained(h)])
  BY DEF Consistent, BooksBalance
<1>3. SumOf([x \in Users |-> user'[x].balance]) + SumOf([h \in Hashes |-> Spent(h)'])
        <= SumOf(Deposit) + SumOf([h \in Hashes |-> Gained(h)'])
  BY <1>1, <1>2
<1> QED
  BY <1>3 DEF BooksBalance

\* The step locks what the payment may cost, or settles it for `cost`.
Locked(u, h) ==
    /\ Total(h) \in Nat /\ Total(h) > 0 /\ Total(h) <= user[u].balance
    /\ h \notin DOMAIN payment /\ DOMAIN payment' = DOMAIN payment \cup {h}
    /\ \A g \in DOMAIN payment : payment'[g] = payment[g]
    /\ payment'[h].user_id = u /\ payment'[h].status = "Unpaid"
    /\ payment'[h].lock_amount = Total(h) /\ ~payment'[h].internal
    /\ \A v \in Users : user'[v].balance = user[v].balance
             + IF v = u THEN -Total(h) ELSE 0

Settled(h, cost) ==
    /\ payment[h].status = "Unpaid" /\ payment[h].lock_amount = Total(h)
    /\ DOMAIN payment' = DOMAIN payment
    /\ \A g \in DOMAIN payment \ {h} : payment'[g] = payment[g]
    /\ payment'[h].user_id = payment[h].user_id
    /\ payment'[h].lock_amount = 0 /\ ~payment'[h].internal
    /\ \/ payment'[h].status = "Canceled" /\ cost = 0
       \/ payment'[h].status = "Paid" /\ cost > 0 /\ payment'[h].total = cost
    /\ \A v \in Users : user'[v].balance = user[v].balance
            + IF v = payment[h].user_id THEN Total(h) - cost ELSE 0

\* A payment is settled from its row: what the settling gives back and what it
\* takes are its lock.
LEMMA SettledPayment ==
    ASSUME Consistent, NEW h \in DOMAIN payment, payment[h].status = "Unpaid",
           \/ PayFailed(h, payment[h])
           \/ \E seen : PaySuccess(h, payment[h], node[h].fee, seen)
    PROVE  \E cost \in 0..Total(h) : Settled(h, cost)
<1>1. /\ TablesOK /\ Ledger /\ h \in Hashes /\ payment[h] \in Payment
      /\ payment[h].user_id \in Users /\ ~payment[h].internal
      /\ node[h].fee \in Nat /\ node[h].fee <= MaxFee(Amount[h])
  BY PaymentFacts DEF Consistent, KindsApart, TablesOK, IsTable, Payment
<1>2. /\ payment[h].lock_amount = Total(h) /\ Total(h) \in Nat
      /\ Payback(h, payment[h], node[h].fee) \in Nat
      /\ Payback(h, payment[h], node[h].fee) = Total(h) - Cost(h, payment[h], node[h].fee)
      /\ Cost(h, payment[h], node[h].fee) \in 1..Total(h)
  BY <1>1, PaymentCost
<1>3. CASE PayFailed(h, payment[h])
  <2>1. user' = Unlock(payment[h].user_id, payment[h].lock_amount,
                       payment[h].lock_amount)
    BY <1>3 DEF PayFailed
  <2>2. \A v \in Users : user'[v].balance = user[v].balance
                + IF v = payment[h].user_id THEN payment[h].lock_amount ELSE 0
    BY <1>1, <1>2, <2>1, UnlockAccounts
  <2>3. \A v \in Users : user'[v].balance = user[v].balance
                + IF v = payment[h].user_id THEN Total(h) - 0 ELSE 0
    BY <1>2, <2>2
  <2>4. payment' = [payment EXCEPT ![h].status = "Canceled", ![h].lock_amount = 0]
    BY <1>3 DEF PayFailed
  <2>5. /\ DOMAIN payment' = DOMAIN payment
        /\ \A g \in DOMAIN payment \ {h} : payment'[g] = payment[g]
        /\ payment'[h].user_id = payment[h].user_id
        /\ payment'[h].lock_amount = 0 /\ ~payment'[h].internal
        /\ payment'[h].status = "Canceled"
    BY <1>1, <2>4 DEF Payment
  <2>6. Settled(h, 0)
    BY <1>2, <2>3, <2>5 DEF Settled
  <2> QED
    BY <1>2, <2>6
<1>4. ASSUME NEW seen, PaySuccess(h, payment[h], node[h].fee, seen)
      PROVE  \E cost \in 0..Total(h) : Settled(h, cost)
  <2> DEFINE back == Payback(h, payment[h], node[h].fee)
             cost == Cost(h, payment[h], node[h].fee)
  <2>1. user' = Unlock(payment[h].user_id, back, payment[h].lock_amount)
    BY <1>4 DEF PaySuccess
  <2>2. \A v \in Users : user'[v].balance = user[v].balance
                + IF v = payment[h].user_id THEN back ELSE 0
    BY <1>1, <1>2, <2>1, UnlockAccounts
  <2>3. payment' = [payment EXCEPT ![h].status = "Paid", ![h].lock_amount = 0,
                                   ![h].fee = node[h].fee, ![h].total = cost]
    BY <1>4 DEF PaySuccess
  <2>4. cost \in 1..Total(h) /\ back = Total(h) - cost
    BY <1>2
  <2> HIDE DEF back, cost
  <2>5. /\ DOMAIN payment' = DOMAIN payment
        /\ \A g \in DOMAIN payment \ {h} : payment'[g] = payment[g]
        /\ payment'[h].user_id = payment[h].user_id
        /\ payment'[h].lock_amount = 0 /\ ~payment'[h].internal
        /\ payment'[h].status = "Paid" /\ payment'[h].total = cost
    BY <1>1, <2>3 DEF Payment
  <2>6. Settled(h, cost)
    BY <1>2, <2>2, <2>4, <2>5 DEF Settled
  <2> QED
    BY <1>2, <2>4, <2>6
<1> QED
  BY <1>3, <1>4

LEMMA LockedPayment ==
    ASSUME TablesOK, NEW u \in Users, NEW h \in Hashes,
           LockBalanceMatches(u, h), LockBalance(u, h)
    PROVE  Locked(u, h)
<1>1. Total(h) \in Nat /\ Total(h) > 0 /\ user[u].balance \in Int
  BY TotalsArePositive DEF TablesOK, User
<1>2. \A v \in Users : user'[v].balance = user[v].balance
                    + IF v = u THEN -Total(h) ELSE 0
  <2>1. user' = MoveFunds(u, -Total(h), Total(h)) /\ -Total(h) \in Int
    BY <1>1 DEF LockBalance
  <2> QED
    BY <1>1, <2>1, MoveFundsFields DEF TablesOK
<1>3. /\ h \notin DOMAIN payment /\ Total(h) <= user[u].balance
      /\ payment' = Insert(payment, h,
                    [user_id |-> u, status |-> "Unpaid",
                     lock_amount |-> Total(h), fee |-> 0,
                     service_fee |-> ServiceFee(Amount[h]),
                     total |-> Total(h), internal |-> FALSE])
  BY <1>1 DEF LockBalance, LockBalanceMatches
<1> QED
  BY <1>1, <1>2, <1>3 DEF Insert, Locked

\* No charge reaches an invoice.
LEMMA ChargesKeepInvoices ==
    ASSUME Charges
    PROVE  UNCHANGED <<invoice, donation>>
  BY DEF Charges, store, LockBalance, PayFailed, PaySuccess

LEMMA LockedBooks ==
    ASSUME Consistent, UNCHANGED incoming, invoice' = invoice,
           NEW u \in Users, NEW h \in Hashes, Locked(u, h)
    PROVE  BooksBalance'
<1>1. /\ \A x \in Users : user[x].balance \in Nat
      /\ \A g \in Hashes : Spent(g) \in Nat /\ Gained(g) \in Nat
  BY AmountsAreNat
<1>2. \A g \in Hashes : Gained(g)' = Gained(g) + IF g = h THEN 0 ELSE 0
  BY <1>1 DEF Gained, I!Received
<1>3. Total(h) \in Nat /\ Total(h) <= user[u].balance
  BY DEF Locked
<1>4. Spent(h) = 0 /\ Spent(h)' = Total(h)
  BY <1>3 DEF Spent, Locked
<1>5. \A g \in Hashes \ {h} : Spent(g)' = Spent(g)
  BY DEF Spent, Locked
<1>6. \A g \in Hashes : Spent(g)' = Spent(g) + IF g = h THEN Total(h) ELSE 0
  BY <1>1, <1>3, <1>4, <1>5
<1>7. \A v \in Users : user'[v].balance = user[v].balance
            + (IF v = u THEN -Total(h) ELSE 0) + (IF v = u THEN 0 ELSE 0)
  BY <1>1, <1>3 DEF Locked
<1>8. /\ user[u].balance + (-Total(h)) >= 0 /\ Spent(h) + Total(h) >= 0
      /\ (-Total(h)) + 0 + Total(h) <= 0 /\ -Total(h) \in Int
  BY <1>1, <1>3, <1>4
<1>9. Booked(u, u, h, -Total(h), 0, Total(h), 0)
  BY <1>2, <1>3, <1>6, <1>7, <1>8 DEF Booked
<1> QED
  BY <1>9, BooksMoved

LEMMA SettledBooks ==
    ASSUME Consistent, UNCHANGED incoming, invoice' = invoice,
           NEW h \in DOMAIN payment, NEW cost \in 0..Total(h), Settled(h, cost)
    PROVE  BooksBalance'
<1> DEFINE u == payment[h].user_id
           back == Total(h) - cost
           spent == cost - Total(h)
<1>1. /\ \A x \in Users : user[x].balance \in Nat
      /\ \A g \in Hashes : Spent(g) \in Nat /\ Gained(g) \in Nat
  BY AmountsAreNat
<1>2. h \in Hashes /\ u \in Users /\ Total(h) \in Nat
  BY PaymentFacts, TotalsArePositive DEF Consistent, TablesOK, IsTable, Payment
<1>3. \A g \in Hashes : Gained(g)' = Gained(g) + IF g = h THEN 0 ELSE 0
  BY <1>1 DEF Gained, I!Received
<1>4. back \in Nat /\ spent \in Int /\ 0 + back + spent <= 0
  BY <1>2
<1>5. Spent(h) = Total(h) /\ Spent(h)' = cost
  BY <1>2 DEF Spent, Settled
<1>6. \A g \in Hashes \ {h} : Spent(g)' = Spent(g)
  BY DEF Spent, Settled
<1>7. \A g \in Hashes : Spent(g)' = Spent(g) + IF g = h THEN spent ELSE 0
  BY <1>1, <1>2, <1>5, <1>6
<1>8. \A v \in Users : user'[v].balance = user[v].balance
            + (IF v = u THEN 0 ELSE 0) + (IF v = u THEN back ELSE 0)
  BY <1>1, <1>4 DEF Settled
<1>9. user[u].balance + 0 >= 0 /\ Spent(h) + spent >= 0
  BY <1>1, <1>2, <1>5
<1> HIDE DEF u, back, spent
<1>10. Booked(u, u, h, 0, back, spent, 0)
  BY <1>2, <1>3, <1>4, <1>7, <1>8, <1>9 DEF Booked
<1> QED
  BY <1>10, BooksMoved

LEMMA ChargesBooks ==
    ASSUME Consistent, Charges, UNCHANGED incoming
    PROVE  BooksBalance'
<1>1. /\ TablesOK /\ invoice' = invoice
      /\ \A w \in DOMAIN job : job[w].user_id \in Users /\ job[w].hash \in Hashes
  BY PaymentFacts, ChargesKeepInvoices DEF Consistent
<1>2. CASE UNCHANGED store
  <2>1. \A h \in Hashes : Spent(h)' = Spent(h) /\ Gained(h)' = Gained(h)
    BY <1>2 DEF store, Spent, Gained, I!Received
  <2> QED
    BY <1>2, <2>1, BooksFrame DEF store
<1>3. ASSUME NEW u \in Users, NEW h \in Hashes,
             LockBalanceMatches(u, h), LockBalance(u, h)
      PROVE  BooksBalance'
  BY <1>1, <1>3, LockedPayment, LockedBooks
<1>4. ASSUME NEW w \in DOMAIN job,
             LockBalanceMatches(job[w].user_id, job[w].hash),
             LockBalance(job[w].user_id, job[w].hash)
      PROVE  BooksBalance'
  BY <1>1, <1>3, <1>4
<1>5. ASSUME NEW h \in DOMAIN payment, payment[h].status = "Unpaid",
             \/ PayFailed(h, payment[h])
             \/ \E seen : PaySuccess(h, payment[h], node[h].fee, seen)
      PROVE  BooksBalance'
  BY <1>1, <1>5, SettledPayment, SettledBooks
<1> QED
  BY <1>2, <1>4, <1>5 DEF Charges

\* What an internal payment does to the accounts and the tables.
Transferred(u, v, h) ==
    /\ h \in Hashes /\ u \in Users /\ v \in Users
    /\ InternalTotal(h) \in Nat /\ InternalTotal(h) >= Amount[h]
    /\ Amount[h] \in Nat \ {0}
    /\ InternalTotal(h) <= user[u].balance
    /\ h \notin DOMAIN payment /\ DOMAIN payment' = DOMAIN payment \cup {h}
    /\ \A g \in DOMAIN payment : payment'[g] = payment[g]
    /\ payment'[h].user_id = u /\ payment'[h].internal
    /\ payment'[h].lock_amount = 0 /\ payment'[h].status = "Paid"
    /\ \A x \in Users : user'[x].balance = user[x].balance
            + (IF x = u THEN -InternalTotal(h) ELSE 0)
            + (IF x = v THEN Amount[h] ELSE 0)

LEMMA InternalPayment ==
    ASSUME Consistent, NEW u \in Users, NEW h \in DOMAIN invoice,
           NEW model \in Invoice, model.user_id = invoice[h].user_id,
           NEW seen \in Int, NEW payeeSeen \in Int,
           InternalPayMatches(u, h), InternalPay(u, h, model, seen, payeeSeen)
    PROVE  Transferred(u, model.user_id, h)
<1>1. TablesOK /\ h \in Hashes /\ model.user_id \in Users
  BY PaymentFacts, InvoiceFacts DEF Consistent, Invoice
<1>2. /\ InternalTotal(h) \in Nat /\ Amount[h] \in Nat \ {0}
      /\ InternalTotal(h) >= Amount[h]
  BY <1>1, FeesAreNat, StoreAssumption
     DEF StoreAssumption, InternalTotal
<1>3. \A x \in Users : user'[x].balance = user[x].balance
            + (IF x = u THEN -InternalTotal(h) ELSE 0)
            + (IF x = model.user_id THEN Amount[h] ELSE 0)
  <2>1. \A x \in Users : user'[x].balance = user[x].balance
            + ((IF x = u THEN -InternalTotal(h) ELSE 0)
                + (IF x = model.user_id THEN Amount[h] ELSE 0))
    BY <1>1, InternalPayAccounts
  <2>2. \A x \in Users : user[x].balance \in Int
    BY <1>1 DEF TablesOK, User
  <2> QED
    BY <1>2, <2>1, <2>2
<1>4. /\ h \notin DOMAIN payment /\ InternalTotal(h) <= user[u].balance
      /\ payment' = Insert(payment, h,
            [user_id |-> u, status |-> "Paid", lock_amount |-> 0,
             fee |-> InternalFee(Amount[h]), service_fee |-> ServiceFee(Amount[h]),
             total |-> InternalTotal(h), internal |-> TRUE])
  BY DEF InternalPay, InternalPayMatches
<1> QED
  BY <1>1, <1>2, <1>3, <1>4 DEF Insert, Transferred

LEMMA TransferredBooks ==
    ASSUME Consistent, NEW u, NEW v, NEW h, Transferred(u, v, h),
           \A g \in Hashes : Gained(g)' = Gained(g)
    PROVE  BooksBalance'
<1> DEFINE debit  == -InternalTotal(h)
           credit == Amount[h]
<1>1. /\ \A x \in Users : user[x].balance \in Nat
      /\ \A g \in Hashes : Spent(g) \in Nat /\ Gained(g) \in Nat
  BY AmountsAreNat
<1>2. /\ h \in Hashes /\ u \in Users /\ v \in Users
      /\ InternalTotal(h) \in Nat /\ InternalTotal(h) >= Amount[h]
      /\ Amount[h] \in Nat /\ InternalTotal(h) <= user[u].balance
  BY DEF Transferred
<1>3. Spent(h) = 0 /\ Spent(h)' = 0
  BY DEF Spent, Transferred
<1>4. \A g \in Hashes \ {h} : Spent(g)' = Spent(g)
  BY DEF Spent, Transferred
<1>5. \A g \in Hashes : /\ Spent(g)' = Spent(g) + IF g = h THEN 0 ELSE 0
                        /\ Gained(g)' = Gained(g) + IF g = h THEN 0 ELSE 0
  BY <1>1, <1>3, <1>4
<1>6. \A x \in Users : user'[x].balance = user[x].balance
            + (IF x = u THEN debit ELSE 0) + (IF x = v THEN credit ELSE 0)
  BY DEF Transferred
<1>7. /\ user[u].balance + debit >= 0 /\ Spent(h) + 0 >= 0
      /\ debit + credit + 0 <= 0 /\ debit \in Int /\ credit \in Nat
  BY <1>1, <1>2
<1> HIDE DEF debit, credit
<1>8. Booked(u, v, h, debit, credit, 0, 0)
  BY <1>2, <1>5, <1>6, <1>7 DEF Booked
<1> QED
  BY <1>8, BooksMoved

LEMMA ReceivedBooks ==
    ASSUME Consistent, ReceiptsKept, NEW h \in DOMAIN invoice,
           incoming[h].state = "paid",
           ~ReceivedFor(h), ReceivedFor(h)',
           \A g : g # h => ReceivedFor(g)' = ReceivedFor(g),
           payment' = payment,
           \A x \in Users : user'[x].balance = user[x].balance
                + IF x = invoice[h].user_id THEN incoming[h].paid_amount ELSE 0
    PROVE  BooksBalance'
<1> DEFINE v == invoice[h].user_id
           amount == incoming[h].paid_amount
<1>1. /\ \A x \in Users : user[x].balance \in Nat
      /\ \A g \in Hashes : Spent(g) \in Nat /\ Gained(g) \in Nat
  BY AmountsAreNat
<1>2. /\ h \in Hashes /\ v \in Users /\ amount \in Nat
      /\ \A g \in Hashes : ReceivedFor(g) => incoming[g].state = "paid"
  BY InvoiceFacts DEF Consistent, Invoice, ReceivedFor
<1>3. \A g \in Hashes : Spent(g)' = Spent(g) + IF g = h THEN 0 ELSE 0
  BY <1>1 DEF Spent
<1>4. /\ \A g \in Hashes : Gained(g)
            = IF ReceivedFor(g) THEN incoming[g].paid_amount ELSE 0
      /\ \A g \in Hashes : Gained(g)'
            = IF ReceivedFor(g)' THEN incoming'[g].paid_amount ELSE 0
  BY DEF Gained, ReceivedFor
<1>5. Gained(h) = 0 /\ Gained(h)' = amount
  BY <1>2, <1>4 DEF ReceiptsKept
<1>6. \A g \in Hashes \ {h} : Gained(g)' = Gained(g)
  BY <1>2, <1>4 DEF ReceiptsKept
<1>7. \A g \in Hashes : Gained(g)' = Gained(g) + IF g = h THEN amount ELSE 0
  BY <1>1, <1>2, <1>5, <1>6
<1>8. \A x \in Users : user'[x].balance = user[x].balance
            + (IF x = v THEN 0 ELSE 0) + (IF x = v THEN amount ELSE 0)
  BY <1>1, <1>2
<1>9. user[v].balance + 0 >= 0 /\ Spent(h) + 0 >= 0 /\ 0 + amount + 0 <= amount
  BY <1>1, <1>2
<1> HIDE DEF v, amount
<1>10. Booked(v, v, h, 0, amount, 0, amount)
  BY <1>2, <1>3, <1>7, <1>8, <1>9 DEF Booked
<1> QED
  BY <1>10, BooksMoved

LEMMA GainsKept ==
    ASSUME Consistent, ReceiptsKept, \A g : ReceivedFor(g)' = ReceivedFor(g)
    PROVE  \A g \in Hashes : Gained(g)' = Gained(g)
<1>1. \A g \in Hashes : ReceivedFor(g) => incoming[g].state = "paid"
  BY InvoiceFacts DEF Consistent, ReceivedFor
<1>2. /\ \A g \in Hashes : Gained(g)
            = IF ReceivedFor(g) THEN incoming[g].paid_amount ELSE 0
      /\ \A g \in Hashes : Gained(g)'
            = IF ReceivedFor(g)' THEN incoming'[g].paid_amount ELSE 0
  BY DEF Gained, ReceivedFor
<1> QED
  BY <1>1, <1>2 DEF ReceiptsKept

LEMMA DepositsBooks ==
    ASSUME Consistent, Deposits, ReceiptsKept
    PROVE  BooksBalance'
<1>1. ASSUME UNCHANGED <<user, payment>>, \A g : ReceivedFor(g)' = ReceivedFor(g)
      PROVE  BooksBalance'
  <2>1. \A h \in Hashes : Spent(h)' = Spent(h)
    BY <1>1 DEF Spent
  <2> QED
    BY <1>1, <2>1, GainsKept, BooksFrame
<1>2. CASE UNCHANGED store
  BY <1>1, <1>2 DEF store, ReceivedFor, I!Received
<1>3. CASE \E w \in DOMAIN request : Stores(w)
  BY <1>1, <1>3, NothingReceived DEF Stores
<1>4. CASE \E h \in DOMAIN invoice : CancelInvoice(h)
  BY <1>1, <1>4, NothingReceived DEF CancelInvoice
<1>5. ASSUME NEW h \in DOMAIN invoice, NEW model \in Invoice, NEW seen \in Int,
             model.user_id = invoice[h].user_id,
             NEW u \in Users, NEW payeeSeen \in Int,
             InternalPayMatches(u, h), InternalPay(u, h, model, seen, payeeSeen)
      PROVE  BooksBalance'
  <2>1. Transferred(u, model.user_id, h)
    BY <1>5, InternalPayment
  <2>2. \A g : ReceivedFor(g)' = ReceivedFor(g)
    BY <1>5, NothingReceived
  <2> QED
    BY <2>1, <2>2, GainsKept, TransferredBooks
<1>6. ASSUME NEW h \in DOMAIN invoice, NEW model \in Invoice, NEW seen \in Int,
             model.user_id = invoice[h].user_id, incoming[h].state = "paid",
             LET amount == incoming[h].paid_amount
             IN  \/ InvoicePaidMatches(h) /\ InvoicePaid(h, model, amount, seen)
                 \/ InvoiceDupPaidMatches(h) /\ InvoiceDupPaid(h, model, amount, seen)
      PROVE  BooksBalance'
  <2>1. /\ ~ReceivedFor(h) /\ ReceivedFor(h)'
        /\ \A g : g # h => ReceivedFor(g)' = ReceivedFor(g)
        /\ payment' = payment
        /\ \A x \in Users : user'[x].balance = user[x].balance
                    + IF x = invoice[h].user_id THEN incoming[h].paid_amount ELSE 0
    BY <1>6, NowReceived
  <2> QED
    BY <1>6, <2>1, ReceivedBooks
<1> QED
  BY <1>2, <1>3, <1>4, <1>5, <1>6 DEF Deposits, Pays

\* A step of a half keeps the books, and at the start they balance.
LEMMA StepBooks ==
    ASSUME Consistent, Does
    PROVE  BooksBalance'
BY ChargesBooks, DepositsBooks DEF Does

LEMMA InitBooks ==
    ASSUME Init
    PROVE  BooksBalance /\ KindsApart
<1>1. /\ user = [u \in Users |-> [balance |-> Deposit[u], lock_amount |-> 0,
                                  donate_amount |-> 0]]
      /\ payment = <<>> /\ invoice = <<>> /\ job = <<>> /\ request = <<>>
      /\ node = [h \in Hashes |-> [state |-> "none", fee |-> 0]]
  BY DEF Init, P!Init, I!Init, P!StoreInit
<1>2. [u \in Users |-> user[u].balance] = Deposit
  BY <1>1, StoreAssumption DEF StoreAssumption
<1>3. \A h \in Hashes : Spent(h) = 0 /\ Gained(h) = 0
  BY <1>1, EmptyTable DEF Spent, Gained
<1>4. [h \in Hashes |-> Spent(h)] = [h \in Hashes |-> Gained(h)]
  BY <1>3
<1> DEFINE gained == [h \in Hashes |-> Gained(h)]
<1>5. SumOf(Deposit) \in Nat /\ SumOf(gained) \in Nat
  <2>1. /\ DOMAIN gained = Hashes /\ \A h \in Hashes : gained[h] \in Int
        /\ DOMAIN Deposit = Users /\ \A u \in Users : Deposit[u] \in Int
        /\ IsFiniteSet(Hashes) /\ IsFiniteSet(Users)
    BY <1>3, StoreAssumption, ServiceAssumption DEF StoreAssumption, ServiceAssumption
  <2> HIDE DEF gained
  <2> QED
    BY <2>1, SumIsNat
<1>6. BooksBalance
  BY <1>2, <1>4, <1>5 DEF BooksBalance
<1>7. KindsApart
  BY <1>1, EmptyTable DEF KindsApart
<1> QED
  BY <1>6, <1>7

\* What the node has sent, or may have to send, was spent from an account or
\* is locked in one; what the accounts gained, the node has received.
LEMMA BooksCover ==
    ASSUME Consistent, ~LateStart, ~Retries
    PROVE  Solvent
<1>1. /\ TablesOK /\ Ledger /\ P!NeverRefundedAndSent
      /\ \A h \in Hashes : /\ node[h].fee \in Nat
                           /\ node[h].fee <= MaxFee(Amount[h])
                           /\ node[h].state # "none" => h \in DOMAIN payment
      /\ \A h \in DOMAIN payment :
            payment[h].status = "Paid" /\ ~payment[h].internal =>
                payment[h].total = Amount[h] + node[h].fee + ServiceFee(Amount[h])
  BY PaymentFacts DEF Consistent, P!Consistent
<1>2. \A h \in Hashes : /\ Amount[h] \in Nat /\ MaxFee(Amount[h]) \in Nat
                        /\ ServiceFee(Amount[h]) \in Nat
  BY FeesAreNat, StoreAssumption DEF StoreAssumption
<1>3. \A h \in DOMAIN payment : h \in Hashes /\ payment[h] \in Payment
  BY <1>1 DEF TablesOK, IsTable
<1>4. ASSUME NEW h \in Hashes
      PROVE  Outgoing(h) \in Nat /\ Outgoing(h) <= Spent(h)
  <2>1. CASE node[h].state = "succeeded"
    <3>1. /\ h \in DOMAIN payment /\ ~payment[h].internal
          /\ payment[h].status # "Canceled"
      BY <1>1, <2>1 DEF P!NeverRefundedAndSent, Consistent, KindsApart
    <3>2. CASE payment[h].status = "Unpaid"
      <4>1. payment[h].lock_amount = Amount[h] + MaxFee(Amount[h])
                                        + ServiceFee(Amount[h])
        BY <1>1, <3>1, <3>2 DEF Ledger, RowsAgree, Total
      <4> QED
        BY <1>1, <1>2, <2>1, <3>1, <3>2, <4>1 DEF Outgoing, Spent
    <3>3. CASE payment[h].status = "Paid"
      <4>1. /\ payment[h].total = Amount[h] + node[h].fee + ServiceFee(Amount[h])
            /\ payment[h].lock_amount \in Nat
        BY <1>1, <1>3, <3>1, <3>3 DEF Payment
      <4> QED
        BY <1>1, <1>2, <2>1, <3>1, <3>3, <4>1 DEF Outgoing, Spent
    <3> QED
      BY <1>3, <3>1, <3>2, <3>3 DEF Payment, Status
  <2>2. CASE node[h].state # "succeeded"
    BY <1>3, <2>2 DEF Outgoing, Spent, Payment
  <2> QED
    BY <2>1, <2>2
<1>5. \A h \in Hashes : /\ incoming[h].paid_amount \in Nat
                        /\ Gained(h) <= incoming[h].paid_amount
  BY InvoiceFacts DEF Consistent, Gained
<1>6. /\ IsFiniteSet(Users) /\ IsFiniteSet(Hashes)
      /\ \A x \in Users : user[x].balance \in Nat
      /\ \A h \in Hashes : Spent(h) \in Nat /\ Gained(h) \in Nat
  BY AmountsAreNat, ServiceAssumption, StoreAssumption
     DEF ServiceAssumption, StoreAssumption
<1> DEFINE balances == [x \in Users |-> user[x].balance]
           outgoing == [h \in Hashes |-> Outgoing(h)]
           spent    == [h \in Hashes |-> Spent(h)]
           gained   == [h \in Hashes |-> Gained(h)]
           receipts == [h \in Hashes |-> incoming[h].paid_amount]
<1>7. /\ DOMAIN balances = Users /\ \A x \in Users : balances[x] \in Int
      /\ DOMAIN outgoing = Hashes /\ DOMAIN spent = Hashes
      /\ DOMAIN gained = Hashes /\ DOMAIN receipts = Hashes
      /\ \A h \in Hashes :
            /\ outgoing[h] \in Int /\ spent[h] \in Int /\ outgoing[h] <= spent[h]
            /\ gained[h] \in Int /\ receipts[h] \in Int /\ gained[h] <= receipts[h]
  BY <1>4, <1>5, <1>6
<1>8. SumOf(balances) + SumOf(spent) <= SumOf(Deposit) + SumOf(gained)
  BY DEF Consistent, BooksBalance
<1>9. SumOf(Deposit) \in Nat
  BY <1>6, SumIsNat, StoreAssumption DEF StoreAssumption
<1> HIDE DEF balances, outgoing, spent, gained, receipts
<1>10. SumOf(outgoing) <= SumOf(spent) /\ SumOf(gained) <= SumOf(receipts)
  BY <1>6, <1>7, SumOfMore
<1>11. /\ SumOf(balances) \in Nat /\ SumOf(outgoing) \in Nat /\ SumOf(spent) \in Nat
       /\ SumOf(gained) \in Nat /\ SumOf(receipts) \in Nat
  BY <1>6, <1>7, SumIsNat
<1>12. SumOf(balances) + SumOf(outgoing) <= SumOf(Deposit) + SumOf(receipts)
  BY <1>8, <1>9, <1>10, <1>11
<1> QED
  BY <1>12 DEF Solvent, balances, outgoing, receipts

----------------------------------------------------------------------------
(* The service implements Custody.                                         *)

\* The variables of Custody, as the service has them.
Available  == [u \in Users |-> user[u].balance]
HeldOf(h)  == IF h \in DOMAIN payment THEN payment[h].lock_amount ELSE 0
PayerOf(h) == IF h \in DOMAIN payment THEN payment[h].user_id ELSE "none"
Outcome(status) ==
    CASE status = "Unpaid" -> "held"
      [] status = "Paid" -> "spent"
      [] status = "Canceled" -> "returned"
PaidHow(h) ==
    IF h \notin DOMAIN payment THEN "no"
    ELSE IF payment[h].internal THEN "transferred"
    ELSE Outcome(payment[h].status)

Held     == [h \in Hashes |-> HeldOf(h)]
Payer    == [h \in Hashes |-> PayerOf(h)]
Paid     == [h \in Hashes |-> PaidHow(h)]
Credited == [h \in Hashes |-> ReceivedFor(h)]

\* A function that differs from another in one entry.
LEMMA OneEntry ==
    ASSUME NEW S, NEW f, NEW g, f = [y \in S |-> f[y]], g = [y \in S |-> g[y]],
           NEW x \in S, \A y \in S \ {x} : g[y] = f[y]
    PROVE  g = [f EXCEPT ![x] = g[x]]
  OBVIOUS

LEMMA CustodyHold ==
    ASSUME NEW u \in Users, NEW h \in Hashes, NEW n \in 1..Available[u],
           Paid[h] = "no",
           Available' = [Available EXCEPT ![u] = @ - n],
           Held' = [Held EXCEPT ![h] = n],
           Payer' = [Payer EXCEPT ![h] = u],
           Paid' = [Paid EXCEPT ![h] = "held"],
           Credited' = Credited
    PROVE  Custodian!Hold(u, h)
  BY DEF Custodian!Hold, Available, Held, Payer, Paid, Credited, HeldOf, PayerOf,
         PaidHow, Outcome, ReceivedFor

LEMMA CustodySettle ==
    ASSUME NEW h \in Hashes, NEW cost \in 0..Held[h], NEW outcome,
           outcome = "returned" => cost = 0, outcome = "spent" => cost > 0,
           Paid[h] = "held",
           Available' = [Available EXCEPT ![Payer[h]] = @ + Held[h] - cost],
           Held' = [Held EXCEPT ![h] = 0],
           Payer' = Payer,
           Paid' = [Paid EXCEPT ![h] = outcome],
           Credited' = Credited
    PROVE  Custodian!Settle(h, outcome)
  BY DEF Custodian!Settle, Available, Held, Payer, Paid, Credited, HeldOf, PayerOf,
         PaidHow, Outcome, ReceivedFor

LEMMA CustodyTransfer ==
    ASSUME NEW u \in Users, NEW v \in Users, NEW h \in Hashes,
           NEW cost \in 1..Available[u], NEW n \in 1..cost,
           Paid[h] = "no",
           Available' = [[Available EXCEPT ![u] = @ - cost] EXCEPT ![v] = @ + n],
           Held' = Held,
           Payer' = [Payer EXCEPT ![h] = u],
           Paid' = [Paid EXCEPT ![h] = "transferred"],
           Credited' = Credited
    PROVE  Custodian!Transfer(u, v, h)
<1>1. \E c \in 1..Available[u] : \E m \in 1..c :
        Available' = [[Available EXCEPT ![u] = @ - c] EXCEPT ![v] = @ + m]
  OBVIOUS
<1> QED
  BY <1>1 DEF Custodian!Transfer, Available, Held, Payer, Paid, Credited, HeldOf, PayerOf,
         PaidHow, Outcome, ReceivedFor

LEMMA CustodyReceive ==
    ASSUME NEW v \in Users, NEW h \in Hashes,
           ~Credited[h], Paid[h] \in {"no", "transferred"},
           Available'[v] > Available[v],
           Available' = [Available EXCEPT ![v] = Available'[v]],
           Credited' = [Credited EXCEPT ![h] = TRUE],
           Held' = Held, Payer' = Payer, Paid' = Paid
    PROVE  Custodian!Receive(v, h)
  BY DEF Custodian!Receive, Available, Held, Payer, Paid, Credited, HeldOf, PayerOf,
         PaidHow, Outcome, ReceivedFor

\* A row that stays is seen as before.
LEMMA RowSeen ==
    ASSUME NEW g, g \in DOMAIN payment' <=> g \in DOMAIN payment,
           g \in DOMAIN payment => payment'[g] = payment[g]
    PROVE  /\ PaidHow(g)' = PaidHow(g)
           /\ PayerOf(g)' = PayerOf(g)
           /\ HeldOf(g)' = HeldOf(g)
<1>1. CASE g \notin DOMAIN payment
  BY <1>1 DEF PaidHow, PayerOf, HeldOf
<1>2. CASE g \in DOMAIN payment
  BY <1>2 DEF PaidHow, PayerOf, HeldOf
<1> QED
  BY <1>1, <1>2

\* The step that locks a payment, settles it, transfers or receives is the one
\* of Custody.
LEMMA LockedCustody ==
    ASSUME Consistent, invoice' = invoice,
           NEW u \in Users, NEW h \in Hashes, Locked(u, h)
    PROVE  Custodian!Hold(u, h)
<1>1. /\ Total(h) \in 1..user[u].balance
      /\ \A v \in Users : user[v].balance \in Nat
  BY AmountsAreNat DEF Locked
<1>2. /\ PaidHow(h) = "no" /\ PaidHow(h)' = "held" /\ PayerOf(h)' = u
      /\ HeldOf(h)' = Total(h)
  BY DEF Locked, PaidHow, Outcome, PayerOf, HeldOf
<1>3. \A g \in Hashes \ {h} : /\ PaidHow(g)' = PaidHow(g)
                              /\ PayerOf(g)' = PayerOf(g)
                              /\ HeldOf(g)' = HeldOf(g)
  BY RowSeen DEF Locked
<1>4. Available' = [Available EXCEPT ![u] = @ - Total(h)]
  <2>1. \A v \in Users : user'[v].balance
            = IF v = u THEN user[v].balance - Total(h) ELSE user[v].balance
    BY <1>1 DEF Locked
  <2> QED
    BY <2>1 DEF Available
<1>5. /\ Paid[h] = "no" /\ Total(h) \in 1..Available[u]
      /\ Held' = [Held EXCEPT ![h] = Total(h)]
      /\ Payer' = [Payer EXCEPT ![h] = u]
      /\ Paid' = [Paid EXCEPT ![h] = "held"]
  BY <1>1, <1>2, <1>3 DEF Available, Held, Payer, Paid
<1>6. Credited' = Credited
  BY DEF Credited, ReceivedFor, I!Received
<1> QED
  BY <1>4, <1>5, <1>6, CustodyHold

LEMMA SettledCustody ==
    ASSUME Consistent, invoice' = invoice,
           NEW h \in DOMAIN payment, NEW cost \in 0..Total(h), Settled(h, cost)
    PROVE  h \in Hashes /\ \E outcome \in {"returned", "spent"} :
                                Custodian!Settle(h, outcome)
<1> DEFINE u == payment[h].user_id
<1>1. /\ h \in Hashes /\ u \in Users /\ Total(h) \in Nat /\ ~payment[h].internal
      /\ \A v \in Users : user[v].balance \in Nat
  BY PaymentFacts, AmountsAreNat, TotalsArePositive
     DEF Consistent, TablesOK, IsTable, Payment, KindsApart, Settled
<1>2. PICK outcome \in {"returned", "spent"} :
            /\ outcome = "returned" => cost = 0
            /\ outcome = "spent" => cost > 0
            /\ PaidHow(h)' = outcome
  <2>1. h \in DOMAIN payment' /\ ~payment'[h].internal
    BY DEF Settled
  <2>2. CASE payment'[h].status = "Canceled" /\ cost = 0
    BY <2>1, <2>2 DEF PaidHow, Outcome
  <2>3. CASE payment'[h].status = "Paid" /\ cost > 0
    BY <2>1, <2>3 DEF PaidHow, Outcome
  <2> QED
    BY <2>2, <2>3 DEF Settled
<1>3. /\ PaidHow(h) = "held"
      /\ PayerOf(h) = u /\ PayerOf(h)' = u
      /\ HeldOf(h) = Total(h) /\ HeldOf(h)' = 0
  BY <1>1 DEF Settled, PaidHow, Outcome, PayerOf, HeldOf
<1>4. \A g \in Hashes \ {h} : /\ PaidHow(g)' = PaidHow(g)
                              /\ PayerOf(g)' = PayerOf(g)
                              /\ HeldOf(g)' = HeldOf(g)
  BY RowSeen DEF Settled
<1>5. \A v \in Users : user'[v].balance = user[v].balance
            + IF v = u THEN Total(h) - cost ELSE 0
  BY DEF Settled
<1> HIDE DEF u
<1>6. /\ Paid[h] = "held" /\ Held[h] = Total(h) /\ Payer[h] = u
      /\ Held' = [Held EXCEPT ![h] = 0]
      /\ Payer' = Payer
      /\ Paid' = [Paid EXCEPT ![h] = outcome]
  BY <1>1, <1>2, <1>3, <1>4 DEF Held, Payer, Paid
<1>7. /\ Available' = [Available EXCEPT ![Payer[h]] = @ + Held[h] - cost]
      /\ cost \in 0..Held[h]
  <2>1. \A v \in Users : user'[v].balance
            = IF v = u THEN user[v].balance + Total(h) - cost ELSE user[v].balance
    BY <1>1, <1>5
  <2> QED
    BY <1>6, <2>1 DEF Available
<1>8. Credited' = Credited
  BY DEF Credited, ReceivedFor, I!Received
<1>9. Custodian!Settle(h, outcome)
  BY <1>1, <1>2, <1>6, <1>7, <1>8, CustodySettle
<1> QED
  BY <1>1, <1>2, <1>9

LEMMA TransferredCustody ==
    ASSUME Consistent, NEW u, NEW v, NEW h, Transferred(u, v, h),
           \A g : ReceivedFor(g)' = ReceivedFor(g)
    PROVE  Custodian!Transfer(u, v, h)
<1> DEFINE cost == InternalTotal(h)
           n == Amount[h]
<1>1. /\ h \in Hashes /\ u \in Users /\ v \in Users
      /\ \A x \in Users : user[x].balance \in Nat
      /\ cost \in 1..user[u].balance /\ n \in 1..cost
  BY AmountsAreNat DEF Transferred
<1>2. /\ PaidHow(h) = "no" /\ PaidHow(h)' = "transferred" /\ PayerOf(h)' = u
      /\ HeldOf(h) = 0 /\ HeldOf(h)' = 0
  BY DEF Transferred, PaidHow, PayerOf, HeldOf
<1>3. \A g \in Hashes \ {h} : /\ PaidHow(g)' = PaidHow(g)
                              /\ PayerOf(g)' = PayerOf(g)
                              /\ HeldOf(g)' = HeldOf(g)
  BY RowSeen DEF Transferred
<1>4. \A x \in Users : user'[x].balance = user[x].balance
            + (IF x = u THEN -cost ELSE 0) + (IF x = v THEN n ELSE 0)
  BY DEF Transferred
<1> HIDE DEF cost, n
<1>5. Available' = [[Available EXCEPT ![u] = @ - cost] EXCEPT ![v] = @ + n]
  BY <1>1, <1>4 DEF Available
<1>6. /\ Paid[h] = "no" /\ cost \in 1..Available[u]
      /\ Held' = Held
      /\ Payer' = [Payer EXCEPT ![h] = u]
      /\ Paid' = [Paid EXCEPT ![h] = "transferred"]
  BY <1>1, <1>2, <1>3 DEF Available, Held, Payer, Paid
<1>7. Credited' = Credited
  BY DEF Credited
<1> QED
  BY <1>1, <1>5, <1>6, <1>7, CustodyTransfer

LEMMA ReceivedCustody ==
    ASSUME Consistent, NEW h \in DOMAIN invoice, incoming[h].state = "paid",
           ~ReceivedFor(h), ReceivedFor(h)',
           \A g : g # h => ReceivedFor(g)' = ReceivedFor(g),
           payment' = payment,
           \A x \in Users : user'[x].balance = user[x].balance
                + IF x = invoice[h].user_id THEN incoming[h].paid_amount ELSE 0
    PROVE  h \in Hashes /\ invoice[h].user_id \in Users
           /\ Custodian!Receive(invoice[h].user_id, h)
<1> DEFINE v == invoice[h].user_id
           amount == incoming[h].paid_amount
<1>1. /\ h \in Hashes /\ v \in Users /\ amount \in Nat /\ amount > 0
      /\ \A x \in Users : user[x].balance \in Nat
  BY InvoiceFacts, AmountsAreNat, StoreAssumption
     DEF Consistent, Invoice, StoreAssumption
<1>2. \A x \in Users : user'[x].balance = user[x].balance
                                + IF x = v THEN amount ELSE 0
  OBVIOUS
<1>3. PaidHow(h) \in {"no", "transferred"}
  BY DEF PaidHow, Consistent, KindsApart
<1>4. ReceivedFor(h)' = TRUE /\ ReceivedFor(h) = FALSE
  BY DEF ReceivedFor, I!Received
<1> HIDE DEF v, amount
<1>5. /\ Available'[v] > Available[v]
      /\ Available' = [Available EXCEPT ![v] = Available'[v]]
  <2>1. \A x \in Users : user'[x].balance
            = IF x = v THEN user'[v].balance ELSE user[x].balance
    BY <1>1, <1>2
  <2>2. user'[v].balance > user[v].balance
    BY <1>1, <1>2
  <2>3. Available' = [Available EXCEPT ![v] = user'[v].balance]
    BY <2>1 DEF Available
  <2>4. Available'[v] = user'[v].balance /\ Available[v] = user[v].balance
    BY <1>1 DEF Available
  <2> QED
    BY <2>2, <2>3, <2>4
<1>6. /\ ~Credited[h] /\ Credited' = [Credited EXCEPT ![h] = TRUE]
  BY <1>1, <1>4 DEF Credited
<1>7. /\ Held' = Held /\ Payer' = Payer /\ Paid' = Paid
      /\ Paid[h] \in {"no", "transferred"}
  <2>1. \A g \in Hashes : /\ PaidHow(g)' = PaidHow(g)
                          /\ PayerOf(g)' = PayerOf(g)
                          /\ HeldOf(g)' = HeldOf(g)
    BY RowSeen
  <2> QED
    BY <1>1, <1>3, <2>1 DEF Held, Payer, Paid
<1>8. Custodian!Receive(v, h)
  BY <1>1, <1>5, <1>6, <1>7, CustodyReceive
<1> QED
  BY <1>1, <1>8 DEF v

LEMMA CustodyFrame ==
    ASSUME UNCHANGED <<user, payment>>, \A g : ReceivedFor(g)' = ReceivedFor(g)
    PROVE  UNCHANGED Custodian!vars
<1>1. /\ Available' = Available /\ Held' = Held /\ Payer' = Payer
      /\ Paid' = Paid /\ Credited' = Credited
  <2>1. \A g \in Hashes : /\ PaidHow(g)' = PaidHow(g)
                          /\ PayerOf(g)' = PayerOf(g)
                          /\ HeldOf(g)' = HeldOf(g)
    BY RowSeen
  <2> QED
    BY <2>1 DEF Available, Held, Payer, Paid, Credited
<1> QED
  BY <1>1 DEF Custodian!vars, Available, Held, Payer, Paid, Credited, HeldOf,
              PayerOf, PaidHow, Outcome, ReceivedFor

LEMMA StepCustody ==
    ASSUME Consistent, Does
    PROVE  [Custodian!Next]_(Custodian!vars)
<1>1. /\ TablesOK
      /\ \A w \in DOMAIN job : job[w].user_id \in Users /\ job[w].hash \in Hashes
  BY PaymentFacts DEF Consistent
<1>2. CASE UNCHANGED store
  BY <1>2, CustodyFrame DEF store, ReceivedFor, I!Received
<1>3. CASE Charges
  <2>1. invoice' = invoice
    BY <1>3, ChargesKeepInvoices
  <2>2. ASSUME NEW u \in Users, NEW h \in Hashes,
               LockBalanceMatches(u, h), LockBalance(u, h)
        PROVE  Custodian!Next
    <3>1. Custodian!Hold(u, h)
      BY <1>1, <2>1, <2>2, LockedPayment, LockedCustody
    <3> QED
      BY <3>1 DEF Custodian!Next
  <2>3. ASSUME NEW h \in DOMAIN payment, payment[h].status = "Unpaid",
               \/ PayFailed(h, payment[h])
               \/ \E seen : PaySuccess(h, payment[h], node[h].fee, seen)
        PROVE  Custodian!Next
    <3>1. h \in Hashes /\ \E outcome \in {"returned", "spent"} :
                                Custodian!Settle(h, outcome)
      BY <2>1, <2>3, SettledPayment, SettledCustody
    <3> QED
      BY <3>1 DEF Custodian!Next
  <2> QED
    BY <1>1, <1>2, <1>3, <2>2, <2>3 DEF Charges
<1>4. CASE Deposits
  <2>1. ASSUME UNCHANGED <<user, payment>>,
               \/ \E w \in DOMAIN request : Stores(w)
               \/ \E h \in DOMAIN invoice : CancelInvoice(h)
        PROVE  UNCHANGED Custodian!vars
    BY <2>1, NothingReceived, CustodyFrame
  <2>2. ASSUME NEW h \in DOMAIN invoice, NEW model \in Invoice, NEW seen \in Int,
               model.user_id = invoice[h].user_id,
               NEW u \in Users, NEW payeeSeen \in Int,
               InternalPayMatches(u, h), InternalPay(u, h, model, seen, payeeSeen)
        PROVE  Custodian!Next
    <3>1. Transferred(u, model.user_id, h)
      BY <2>2, InternalPayment
    <3>2. \A g : ReceivedFor(g)' = ReceivedFor(g)
      BY <2>2, NothingReceived
    <3>3. h \in Hashes /\ model.user_id \in Users
      BY <3>1 DEF Transferred
    <3> QED
      BY <3>1, <3>2, <3>3, TransferredCustody DEF Custodian!Next
  <2>3. ASSUME NEW h \in DOMAIN invoice, NEW model \in Invoice, NEW seen \in Int,
               model.user_id = invoice[h].user_id, incoming[h].state = "paid",
               LET amount == incoming[h].paid_amount
               IN  \/ InvoicePaidMatches(h) /\ InvoicePaid(h, model, amount, seen)
                   \/ InvoiceDupPaidMatches(h) /\ InvoiceDupPaid(h, model, amount, seen)
        PROVE  Custodian!Next
    <3>1. /\ ~ReceivedFor(h) /\ ReceivedFor(h)'
          /\ \A g : g # h => ReceivedFor(g)' = ReceivedFor(g)
          /\ payment' = payment
          /\ \A x \in Users : user'[x].balance = user[x].balance
                    + IF x = invoice[h].user_id THEN incoming[h].paid_amount ELSE 0
      BY <2>3, NowReceived
    <3>2. h \in Hashes /\ invoice[h].user_id \in Users
          /\ Custodian!Receive(invoice[h].user_id, h)
      BY <2>3, <3>1, ReceivedCustody
    <3> QED
      BY <3>2 DEF Custodian!Next
  <2> QED
    BY <1>2, <1>4, <2>1, <2>2, <2>3 DEF Deposits, Pays, Stores, CancelInvoice
<1> QED
  BY <1>3, <1>4 DEF Does

LEMMA InitCustody ==
    ASSUME Init
    PROVE  Custodian!Init
<1>1. /\ user = [u \in Users |-> [balance |-> Deposit[u], lock_amount |-> 0,
                                  donate_amount |-> 0]]
      /\ payment = <<>> /\ invoice = <<>>
  BY DEF Init, P!Init, P!StoreInit
<1>2. /\ Available \in [Users -> Nat]
      /\ Held = [h \in Hashes |-> 0] /\ Payer = [h \in Hashes |-> "none"]
      /\ Paid = [h \in Hashes |-> "no"] /\ Credited = [h \in Hashes |-> FALSE]
  BY <1>1, EmptyTable, StoreAssumption
     DEF StoreAssumption, Available, Held, Payer, Paid, HeldOf, PayerOf, PaidHow,
         Credited, ReceivedFor
<1> QED
  BY <1>2 DEF Custodian!Init, Available, Held, Payer, Paid, HeldOf, PayerOf,
              PaidHow, Outcome, Credited, ReceivedFor

----------------------------------------------------------------------------
(* The statements.                                                         *)

LEMMA StepStatements ==
    ASSUME Consistent, Explained, Does
    PROVE  Explained'
<1>1. /\ TablesOK /\ Ledger
      /\ \A w \in DOMAIN job : job[w].user_id \in Users /\ job[w].hash \in Hashes
      /\ \A h \in Hashes : node[h].fee \in Nat /\ node[h].fee <= MaxFee(Amount[h])
  BY PaymentFacts DEF Consistent
<1>2. CASE UNCHANGED <<user, record>>
  BY <1>2, ExplainedFrame
<1>3. ASSUME NEW w \in DOMAIN job, LockBalance(job[w].user_id, job[w].hash)
      PROVE  Explained'
  BY <1>1, <1>3, LockBalanceExplained
<1>4. ASSUME NEW h \in DOMAIN payment, payment[h].status = "Unpaid",
             \/ PayFailed(h, payment[h])
             \/ \E seen \in Int : PaySuccess(h, payment[h], node[h].fee, seen)
      PROVE  Explained'
  <2>1. h \in Hashes
    BY <1>1 DEF TablesOK, IsTable
  <2> QED
    BY <1>1, <1>4, <2>1, PayFailedExplained, PaySuccessExplained
<1>5. ASSUME NEW h \in DOMAIN invoice, NEW model \in Invoice, NEW seen \in Int,
             Pays(h, model, seen)
      PROVE  Explained'
  <2>1. h \in Hashes /\ incoming[h].paid_amount \in Nat
    BY InvoiceFacts DEF Consistent
  <2> QED
    BY <1>1, <1>5, <2>1, CreditsExplained DEF Pays
<1> QED
  BY <1>2, <1>3, <1>4, <1>5
     DEF Does, Charges, Deposits, store, Stores, CancelInvoice

----------------------------------------------------------------------------
(* The proofs about the halves.  The definitions they carry are those of P *)
(* and I, and of Store; this section says so for what is used here.        *)

PP == INSTANCE PaymentsProofs
II == INSTANCE InvoicesProofs

LEMMA HalvesAssume ==
    /\ PP!FeeAssumption /\ PP!StoreAssumption /\ PP!PaymentsAssumption
    /\ II!FeeAssumption /\ II!StoreAssumption /\ II!InvoicesAssumption
<1>1. /\ P!IsFiniteSet(Hashes) <=> IsFiniteSet(Hashes)
      /\ PP!IsFiniteSet(Hashes) <=> IsFiniteSet(Hashes)
      /\ II!IsFiniteSet(Hashes) <=> IsFiniteSet(Hashes)
      /\ II!IsFiniteSet(Others) <=> I!IsFiniteSet(Others)
  BY DEF IsFiniteSet, P!IsFiniteSet, PP!IsFiniteSet, I!IsFiniteSet,
         II!IsFiniteSet
<1>2. PP!FeeAssumption /\ II!FeeAssumption
  BY FeeAssumption DEF FeeAssumption, PP!FeeAssumption, II!FeeAssumption
<1>3. PP!StoreAssumption /\ II!StoreAssumption
  BY <1>1, StoreAssumption
     DEF StoreAssumption, PP!StoreAssumption, II!StoreAssumption
<1>4. PP!PaymentsAssumption /\ II!InvoicesAssumption
  BY <1>1, ServiceAssumption
     DEF ServiceAssumption, PP!PaymentsAssumption, II!InvoicesAssumption,
         P!PaymentsAssumption, I!InvoicesAssumption
<1> QED
  BY <1>2, <1>3, <1>4

\* The actions of the halves are those of the instances of Service.
LEMMA PaymentActs ==
    /\ \A w, u, h : P!Begin(w, u, h, FALSE) => PP!Begin(w, u, h, FALSE)
    /\ \A w : P!Handler(w) => PP!Handler(w)
    /\ \A w : P!PayFails(w) => PP!PayFails(w)
    /\ \A w : P!Abandon(w) => PP!Abandon(w)
    /\ P!SyncTask => PP!SyncTask
    /\ P!SyncFails => PP!SyncFails
    /\ \A h : P!Node(h) => PP!Node(h)
    /\ P!Crash => PP!Crash
<1> USE DEF P!Goto, PP!Goto, P!Return, PP!Return, P!store, PP!store,
            P!Insert, PP!Insert, P!MoveFunds, PP!MoveFunds,
            P!Unlock, PP!Unlock, P!NewRecord, PP!NewRecord,
            P!Total, PP!Total, P!pct, PP!pct, P!MaxFee, PP!MaxFee,
            P!ServiceFee, PP!ServiceFee, P!Payback, PP!Payback,
            P!Cost, PP!Cost, P!PayFailedMatches, PP!PayFailedMatches,
            P!PayFailed, PP!PayFailed, P!PaySuccessMatches,
            PP!PaySuccessMatches, P!PaySuccess, PP!PaySuccess,
            P!Idle, PP!Idle, P!Rest, PP!Rest
<1>1. \A w, u, h : P!Begin(w, u, h, FALSE) => PP!Begin(w, u, h, FALSE)
  BY DEF P!Begin, PP!Begin
<1>2. ASSUME NEW w, P!Handler(w) PROVE PP!Handler(w)
  BY <1>2 DEF P!Handler, PP!Handler, P!Lock, PP!Lock, P!Pay, PP!Pay,
         P!PayReturns, PP!PayReturns, P!Lookup, PP!Lookup, P!Refund, PP!Refund,
         P!ReadUser, PP!ReadUser, P!Charge, PP!Charge, P!Model, PP!Model,
         P!FirstFailed, PP!FirstFailed, P!LockBalanceMatches,
         PP!LockBalanceMatches, P!LockBalance, PP!LockBalance
<1>3. ASSUME NEW w
      PROVE  /\ P!PayFails(w) => PP!PayFails(w)
             /\ P!Abandon(w) => PP!Abandon(w)
  BY DEF P!PayFails, PP!PayFails, P!Abandon, PP!Abandon
<1>4. P!SyncTask => PP!SyncTask
  BY DEF P!SyncTask, PP!SyncTask, P!SyncRead, PP!SyncRead, P!SyncList,
         PP!SyncList, P!SyncRefund, PP!SyncRefund, P!SyncReadUser,
         PP!SyncReadUser, P!SyncCharge, PP!SyncCharge, P!SyncDone,
         PP!SyncDone, P!Pending, PP!Pending, P!Listed, PP!Listed
<1>5. /\ P!SyncFails => PP!SyncFails
      /\ P!Crash => PP!Crash
      /\ \A h : P!Node(h) => PP!Node(h)
  BY DEF P!SyncFails, PP!SyncFails, P!Crash, PP!Crash, P!Node, PP!Node,
         P!NodeStarts, PP!NodeStarts, P!NodeEnds, PP!NodeEnds
<1> QED
  BY <1>1, <1>2, <1>3, <1>4, <1>5

LEMMA InvoiceActs ==
    /\ \A w, u, h, payer :
            I!CreateInvoice(w, u, h, payer) => II!CreateInvoice(w, u, h, payer)
    /\ \A w, u, h : I!BeginInternal(w, u, h) => II!BeginInternal(w, u, h)
    /\ \A w : I!Handler(w) => II!Handler(w)
    /\ \A w : I!Abandon(w) => II!Abandon(w)
    /\ I!SweepTask => II!SweepTask
    /\ I!SweepFails => II!SweepFails
    /\ \A h : /\ I!NodeReceives(h) => II!NodeReceives(h)
              /\ I!NodeCancels(h) => II!NodeCancels(h)
              /\ I!Expire(h) => II!Expire(h)
              /\ I!LeaveWindow(h) => II!LeaveWindow(h)
<1> USE DEF I!Return, II!Return, I!store, II!store, I!Insert, II!Insert,
            I!NewRecord, II!NewRecord, I!SyncDonation, II!SyncDonation,
            I!Donor, II!Donor, I!InternalTotal, II!InternalTotal,
            I!pct, II!pct, I!InternalFee, II!InternalFee,
            I!ServiceFee, II!ServiceFee, I!Items, II!Items, I!Rest, II!Rest,
            I!Idle, II!Idle, I!Action, II!Action
<1>1. \A w, u, h, payer :
        I!CreateInvoice(w, u, h, payer) => II!CreateInvoice(w, u, h, payer)
  BY DEF I!CreateInvoice, II!CreateInvoice, I!NewInvoice, II!NewInvoice
<1>2. \A w, u, h : I!BeginInternal(w, u, h) => II!BeginInternal(w, u, h)
  BY DEF I!BeginInternal, II!BeginInternal
<1>3. ASSUME NEW w, I!Handler(w) PROVE II!Handler(w)
  BY <1>3 DEF I!Handler, II!Handler, I!InsertInvoice, II!InsertInvoice,
         I!FindInvoice, II!FindInvoice, I!PayInternal, II!PayInternal,
         I!InternalPayMatches, II!InternalPayMatches, I!InternalPay,
         II!InternalPay
<1>4. \A w : I!Abandon(w) => II!Abandon(w)
  BY DEF I!Abandon, II!Abandon
<1>5. I!SweepTask => II!SweepTask
  BY DEF I!SweepTask, II!SweepTask, I!SweepRead, II!SweepRead, I!SweepPage,
         II!SweepPage, I!SweepList, II!SweepList, I!SweepListFails,
         II!SweepListFails, I!SweepCredit, II!SweepCredit, I!SweepDone,
         II!SweepDone, I!SweepCancel, II!SweepCancel, I!SweepReadUser,
         II!SweepReadUser, I!Window, II!Window, I!Known, II!Known, I!Cardinality,
         II!Cardinality, I!Page,
         II!Page, I!Listed, II!Listed, I!Full, II!Full, I!CancelInvoice,
         II!CancelInvoice, I!InvoicePaidMatches, II!InvoicePaidMatches,
         I!InvoicePaid, II!InvoicePaid, I!InvoiceDupPaidMatches,
         II!InvoiceDupPaidMatches, I!InvoiceDupPaid, II!InvoiceDupPaid
<1>6. I!SweepFails => II!SweepFails
  BY DEF I!SweepFails, II!SweepFails
<1>7. \A h : /\ I!NodeReceives(h) => II!NodeReceives(h)
             /\ I!NodeCancels(h) => II!NodeCancels(h)
             /\ I!Expire(h) => II!Expire(h)
             /\ I!LeaveWindow(h) => II!LeaveWindow(h)
  BY DEF I!NodeReceives, II!NodeReceives, I!NodeCancels, II!NodeCancels,
         I!Expire, II!Expire, I!LeaveWindow, II!LeaveWindow
<1> QED
  BY <1>1, <1>2, <1>3, <1>4, <1>5, <1>6, <1>7

\* The tables and the ledger are the same for both, ...
LEMMA SameCounts ==
    /\ \A S : /\ P!IsFiniteSet(S) <=> IsFiniteSet(S)
              /\ PP!IsFiniteSet(S) <=> IsFiniteSet(S)
              /\ I!IsFiniteSet(S) <=> IsFiniteSet(S)
              /\ II!IsFiniteSet(S) <=> IsFiniteSet(S)
    /\ \A S : /\ P!Cardinality(S) = Cardinality(S)
              /\ PP!Cardinality(S) = Cardinality(S)
              /\ I!Cardinality(S) = Cardinality(S)
              /\ II!Cardinality(S) = Cardinality(S)
    /\ \A rows, u : /\ P!Coins(rows, u) = Coins(rows, u)
                    /\ PP!Coins(rows, u) = Coins(rows, u)
                    /\ I!Coins(rows, u) = Coins(rows, u)
                    /\ II!Coins(rows, u) = Coins(rows, u)
<1>1. \A S : /\ P!IsFiniteSet(S) <=> IsFiniteSet(S)
             /\ PP!IsFiniteSet(S) <=> IsFiniteSet(S)
             /\ I!IsFiniteSet(S) <=> IsFiniteSet(S)
             /\ II!IsFiniteSet(S) <=> IsFiniteSet(S)
  BY DEF P!IsFiniteSet, PP!IsFiniteSet, I!IsFiniteSet, II!IsFiniteSet, IsFiniteSet
<1>2. \A S : /\ P!Cardinality(S) = Cardinality(S)
             /\ PP!Cardinality(S) = Cardinality(S)
             /\ I!Cardinality(S) = Cardinality(S)
             /\ II!Cardinality(S) = Cardinality(S)
  BY DEF P!Cardinality, PP!Cardinality, I!Cardinality, II!Cardinality, Cardinality
<1>3. \A rows, u : /\ P!Coins(rows, u) = Coins(rows, u)
                   /\ PP!Coins(rows, u) = Coins(rows, u)
                   /\ I!Coins(rows, u) = Coins(rows, u)
                   /\ II!Coins(rows, u) = Coins(rows, u)
  BY DEF P!Coins, PP!Coins, I!Coins, II!Coins, Coins
<1> QED
  BY <1>1, <1>2, <1>3

LEMMA SameTables ==
    /\ P!TablesOK <=> TablesOK
    /\ I!TablesOK <=> TablesOK
    /\ PP!TablesOK <=> TablesOK
    /\ II!TablesOK <=> TablesOK
    /\ PP!TablesOK' <=> TablesOK'
    /\ II!TablesOK' <=> TablesOK'
  BY DEF P!TablesOK, PP!TablesOK, I!TablesOK, II!TablesOK, TablesOK,
         P!IsTable, PP!IsTable, I!IsTable, II!IsTable, IsTable,
         P!User, PP!User, I!User, II!User, User,
         P!Payment, PP!Payment, I!Payment, II!Payment, Payment,
         P!Invoice, PP!Invoice, I!Invoice, II!Invoice, Invoice,
         P!Donation, PP!Donation, I!Donation, II!Donation, Donation,
         P!Record, PP!Record, I!Record, II!Record, Record,
         P!Status, PP!Status, I!Status, II!Status, Status

LEMMA SameLedger ==
    /\ P!Ledger <=> Ledger
    /\ I!Ledger <=> Ledger
    /\ PP!Ledger <=> Ledger
    /\ II!Ledger <=> Ledger
    /\ PP!Ledger' <=> Ledger'
    /\ II!Ledger' <=> Ledger'
<1>1. \A h : /\ P!Total(h) = Total(h) /\ PP!Total(h) = Total(h)
             /\ I!Total(h) = Total(h) /\ II!Total(h) = Total(h)
             /\ P!ServiceFee(h) = ServiceFee(h) /\ PP!ServiceFee(h) = ServiceFee(h)
             /\ I!ServiceFee(h) = ServiceFee(h) /\ II!ServiceFee(h) = ServiceFee(h)
  BY DEF P!Total, PP!Total, I!Total, II!Total, Total,
         P!pct, PP!pct, I!pct, II!pct, pct,
         P!MaxFee, PP!MaxFee, I!MaxFee, II!MaxFee, MaxFee,
         P!ServiceFee, PP!ServiceFee, I!ServiceFee, II!ServiceFee, ServiceFee
<1>2. /\ P!RowsAgree <=> RowsAgree
      /\ I!RowsAgree <=> RowsAgree
      /\ PP!RowsAgree <=> RowsAgree
      /\ II!RowsAgree <=> RowsAgree
      /\ PP!RowsAgree' <=> RowsAgree'
      /\ II!RowsAgree' <=> RowsAgree'
  BY <1>1 DEF P!RowsAgree, PP!RowsAgree, I!RowsAgree, II!RowsAgree, RowsAgree
<1>3. /\ P!LockedFunds <=> LockedFunds
      /\ I!LockedFunds <=> LockedFunds
      /\ PP!LockedFunds <=> LockedFunds
      /\ II!LockedFunds <=> LockedFunds
      /\ PP!LockedFunds' <=> LockedFunds'
      /\ II!LockedFunds' <=> LockedFunds'
  BY SameCounts
     DEF P!LockedFunds, PP!LockedFunds, I!LockedFunds, II!LockedFunds, LockedFunds
<1> QED
  BY <1>2, <1>3, SameCounts
     DEF P!Ledger, PP!Ledger, I!Ledger, II!Ledger, Ledger, P!NoOverdraft,
         PP!NoOverdraft, I!NoOverdraft, II!NoOverdraft, NoOverdraft

\* ... and so are the invariants of the halves.
LEMMA SamePayments ==
    /\ P!Consistent <=> PP!Consistent
    /\ P!TypeOK <=> PP!TypeOK
    /\ PP!Consistent => /\ PP!TypeOK /\ TablesOK /\ Ledger
                        /\ faults \in 0..MaxFaults
<1>1. P!TypeOK <=> PP!TypeOK
  BY SameTables
     DEF P!TypeOK, PP!TypeOK, P!StoreTypeOK, PP!StoreTypeOK, P!IsTable,
         PP!IsTable, P!Payment, PP!Payment, P!Status, PP!Status,
         P!Job, PP!Job, P!Sync, PP!Sync, P!Outgoing, PP!Outgoing
<1>2. /\ P!JobsAgree <=> PP!JobsAgree
      /\ P!SyncAgrees <=> PP!SyncAgrees
      /\ P!NodeAgrees <=> PP!NodeAgrees
      /\ P!NeverRefundedAndSent <=> PP!NeverRefundedAndSent
      /\ P!ChargedWhatItCost <=> PP!ChargedWhatItCost
  BY DEF P!JobsAgree, PP!JobsAgree, P!JobAgrees, PP!JobAgrees, P!Owns, PP!Owns,
         P!SyncAgrees, PP!SyncAgrees, P!NodeAgrees, PP!NodeAgrees,
         P!NeverRefundedAndSent, PP!NeverRefundedAndSent,
         P!ChargedWhatItCost, PP!ChargedWhatItCost,
         P!Total, PP!Total, P!pct, PP!pct, P!MaxFee, PP!MaxFee,
         P!ServiceFee, PP!ServiceFee
<1> QED
  BY <1>1, <1>2, SameTables, SameLedger
     DEF P!Consistent, PP!Consistent, PP!TypeOK, PP!StoreTypeOK

LEMMA SameInvoices ==
    /\ I!Consistent <=> II!Consistent
    /\ I!TypeOK <=> II!TypeOK
    /\ II!Consistent => /\ II!TypeOK /\ TablesOK /\ Ledger
                        /\ faults \in 0..MaxFaults
<1>1. I!TypeOK <=> II!TypeOK
  BY SameTables
     DEF I!TypeOK, II!TypeOK, I!StoreTypeOK, II!StoreTypeOK, I!IsTable,
         II!IsTable, I!Invoice, II!Invoice, I!Status, II!Status,
         I!Request, II!Request, I!Sweep, II!Sweep, I!Incoming, II!Incoming,
         I!Age, II!Age
<1>2. /\ I!RequestsAgree <=> II!RequestsAgree
      /\ I!SweepAgrees <=> II!SweepAgrees
      /\ I!NodeAgrees <=> II!NodeAgrees
      /\ I!InvoicesAgree <=> II!InvoicesAgree
  BY DEF I!RequestsAgree, II!RequestsAgree, I!RequestAgrees, II!RequestAgrees,
         I!SweepAgrees, II!SweepAgrees, I!NodeAgrees, II!NodeAgrees,
         I!Received, II!Received, I!InvoicesAgree, II!InvoicesAgree,
         I!Invoice, II!Invoice, I!Status, II!Status
<1> QED
  BY <1>1, <1>2, SameTables, SameLedger
     DEF I!Consistent, II!Consistent, II!TypeOK, II!StoreTypeOK

----------------------------------------------------------------------------
(* A step of the service is a step of one half, at which the other stands  *)
(* still, or a crash of both.                                              *)

PaymentSide == [PP!Next]_(PP!vars) /\ UNCHANGED invVars

InvoiceSide == [II!Next]_(II!vars) /\ UNCHANGED payVars

CrashSide == PP!Crash /\ II!Crash

LEMMA InitHalves == ASSUME Init PROVE PP!Init /\ II!Init /\ StoreInit
<1>1. P!Init /\ I!Init
  BY DEF Init
<1>2. /\ P!StoreInit => PP!StoreInit
      /\ P!StoreInit => StoreInit
      /\ I!StoreInit => II!StoreInit
  BY DEF P!StoreInit, PP!StoreInit, I!StoreInit, II!StoreInit, StoreInit
<1> QED
  BY <1>1, <1>2 DEF P!Init, PP!Init, I!Init, II!Init, P!Idle, PP!Idle,
                    I!Idle, II!Idle

LEMMA StepSides ==
    ASSUME [Next]_vars
    PROVE  /\ PaymentSide \/ InvoiceSide \/ CrashSide
           /\ turn \in {"invoices", "payments"} => turn' \in {"invoices", "payments"}
<1> USE DEF PaymentSide, InvoiceSide, PP!Next, II!Next
<1>1. ASSUME NEW w \in Workers, NEW u \in Users, NEW h \in Hashes
      PROVE  /\ PayExternal(w, u, h) => PaymentSide
             /\ PayInternal(w, u, h) \/ CreateInvoice(w, u, h) => InvoiceSide
  BY PaymentActs, InvoiceActs DEF PayExternal, PayInternal, CreateInvoice
<1>2. ASSUME NEW w \in Workers
      PROVE  Handler(w) \/ Drop(w) => PaymentSide \/ InvoiceSide
  BY PaymentActs, InvoiceActs DEF Handler, Drop
<1>3. /\ SyncPayments => PaymentSide
      /\ SyncInvoices => InvoiceSide
  BY PaymentActs, InvoiceActs DEF SyncPayments, SyncInvoices
<1>4. ASSUME NEW h \in Hashes
      PROVE  Node(h) => PaymentSide \/ InvoiceSide
  BY PaymentActs, InvoiceActs DEF Node
<1>5. Crash => CrashSide
  BY PaymentActs
     DEF Crash, CrashSide, II!Crash, PP!Crash, I!Idle, II!Idle,
         PP!store, II!store
<1>6. UNCHANGED vars => PaymentSide
  BY DEF vars, payVars, store, PP!vars, PP!payVars, PP!store
<1>7. turn \in {"invoices", "payments"} => turn' \in {"invoices", "payments"}
  BY DEF Next, vars, PayExternal, PayInternal, CreateInvoice, Handler, Drop,
         SyncPayments, SyncInvoices, Node, Crash
<1> QED
  BY <1>1, <1>2, <1>3, <1>4, <1>5, <1>6, <1>7 DEF Next

LEMMA StepCharges ==
    ASSUME PP!Consistent, [PP!Next]_(PP!vars)
    PROVE  Charges
<1>1. PP!Transacts
  BY HalvesAssume, PP!StepTransacts
<1> QED
  BY <1>1
     DEF Charges, PP!Transacts, store, PP!store, LockBalanceMatches,
         PP!LockBalanceMatches, LockBalance, PP!LockBalance,
         PayFailed, PP!PayFailed, PaySuccess, PP!PaySuccess,
         MoveFunds, PP!MoveFunds, Unlock, PP!Unlock, Insert, PP!Insert,
         NewRecord, PP!NewRecord, Payback, PP!Payback, Cost, PP!Cost,
         Total, PP!Total, MaxFee, PP!MaxFee, ServiceFee, PP!ServiceFee,
         pct, PP!pct

LEMMA StepDeposits ==
    ASSUME II!Consistent, [II!Next]_(II!vars)
    PROVE  Deposits
<1>1. II!Transacts
  BY HalvesAssume, II!StepTransacts
<1>2. ASSUME NEW h, NEW model, NEW seen, II!Pays(h, model, seen)
      PROVE  Pays(h, model, seen)
  BY <1>2
     DEF Pays, II!Pays, InternalPayMatches, II!InternalPayMatches,
         InternalPay, II!InternalPay, InvoicePaidMatches,
         II!InvoicePaidMatches, InvoicePaid, II!InvoicePaid,
         InvoiceDupPaidMatches, II!InvoiceDupPaidMatches, InvoiceDupPaid,
         II!InvoiceDupPaid, Insert, II!Insert, NewRecord, II!NewRecord,
         SyncDonation, II!SyncDonation, Donor, II!Donor,
         InternalTotal, II!InternalTotal, InternalFee, II!InternalFee,
         ServiceFee, II!ServiceFee, pct, II!pct
<1> QED
  BY <1>1, <1>2
     DEF Deposits, II!Transacts, store, II!store, Stores, II!InsertInvoice,
         Insert, II!Insert, CancelInvoice, II!CancelInvoice,
         Invoice, II!Invoice, Status, II!Status

----------------------------------------------------------------------------
(* Each half keeps the invariant of the other.                             *)

\* A charge is no credit, and touches no invoice.
LEMMA ChargesFrame ==
    ASSUME P!Consistent, Charges, NEW S, II!CreditsWithin(record, S)
    PROVE  UNCHANGED <<invoice, donation>> /\ II!CreditsWithin(record', S)
<1>1. CASE UNCHANGED store
  BY <1>1 DEF store
<1>2. CASE \E w \in DOMAIN job : LockBalance(job[w].user_id, job[w].hash)
  BY <1>2 DEF LockBalance
<1>3. CASE \E h \in DOMAIN payment : PayFailed(h, payment[h])
  BY <1>3 DEF PayFailed
<1>4. ASSUME NEW h \in DOMAIN payment, payment[h].status = "Unpaid",
             NEW seen \in Int, PaySuccess(h, payment[h], node[h].fee, seen)
      PROVE  UNCHANGED <<invoice, donation>> /\ II!CreditsWithin(record', S)
  <2> DEFINE cost == Cost(h, payment[h], node[h].fee)
  <2>1. TablesOK /\ Ledger /\ h \in Hashes /\ payment[h].user_id \in Users
        /\ record \in [Users -> Seq(II!Record)]
    BY PaymentFacts DEF TablesOK, IsTable, Payment, Record, II!Record
  <2>2. cost \in Nat
    BY <1>4, <2>1, PaymentFacts, PaymentCost
  <2>3. -cost \in Int /\ -cost <= 0
    BY <2>2
  <2>4. record' = II!NewRecord(record, payment[h].user_id, seen, -cost, h,
                               "external_payment")
    BY <1>4 DEF PaySuccess, NewRecord, II!NewRecord
  <2>5. II!CreditsWithin(record', S)
    BY HalvesAssume, <2>1, <2>3, <2>4, II!NewRecordWithin
  <2> QED
    BY <1>4, <2>5 DEF PaySuccess
<1> QED
  BY <1>1, <1>2, <1>3, <1>4 DEF Charges

LEMMA PaymentsKeepInvoices ==
    ASSUME PP!Consistent, II!Consistent, PaymentSide
    PROVE  PP!Consistent' /\ II!Consistent'
<1>1. PP!TypeOK' /\ PP!Consistent'
  BY HalvesAssume, PP!StepType, PP!StepConsistent, SamePayments DEF PaymentSide
<1>2. TablesOK' /\ faults' \in 0..MaxFaults /\ Ledger'
  BY <1>1, SameTables, SameLedger
     DEF PP!Consistent, PP!TypeOK, PP!StoreTypeOK
<1>3. II!CreditsWithin(record, DOMAIN invoice)
  BY HalvesAssume, II!InvoicesAgreeParts DEF II!Consistent
<1>4. UNCHANGED <<invoice, donation>> /\ II!CreditsWithin(record', DOMAIN invoice)
  BY <1>3, StepCharges, ChargesFrame, SamePayments DEF PaymentSide
<1>5. II!TypeOK'
  BY <1>2, SameTables
     DEF II!Consistent, II!TypeOK, II!StoreTypeOK, PaymentSide, invVars
<1>6. II!Ledger'
  BY <1>2, SameLedger
<1>7. II!RequestsAgree' /\ II!SweepAgrees' /\ II!NodeAgrees'
  BY <1>4 DEF II!Consistent, PaymentSide, invVars, II!RequestsAgree,
              II!RequestAgrees, II!SweepAgrees, II!NodeAgrees, II!Received
<1>8. II!InvoicesAgree'
  <2>1. II!CreditsWithin(record', DOMAIN invoice')
    BY <1>4
  <2> QED
    BY HalvesAssume, <1>4, <2>1, II!InvoicesAgreeParts DEF II!Consistent
<1> QED
  BY <1>1, <1>5, <1>6, <1>7, <1>8 DEF II!Consistent

LEMMA InvoicesKeepPayments ==
    ASSUME PP!Consistent, II!Consistent, InvoiceSide
    PROVE  PP!Consistent' /\ II!Consistent'
<1>1. II!Consistent'
  BY HalvesAssume, II!StepConsistent DEF InvoiceSide
<1>2. TablesOK' /\ faults' \in 0..MaxFaults /\ Ledger'
  BY <1>1, SameTables, SameLedger
     DEF II!Consistent, II!TypeOK, II!StoreTypeOK
<1>3. /\ \A h \in DOMAIN payment :
            h \in DOMAIN payment' /\ payment'[h] = payment[h]
      /\ \A h \in DOMAIN payment' \ DOMAIN payment :
            payment'[h].internal /\ payment'[h].status = "Paid"
  BY StepDeposits, DepositsFrame DEF InvoiceSide
<1>4. UNCHANGED <<job, sync, node>>
  BY DEF InvoiceSide, payVars
<1>5. PP!TypeOK'
  BY <1>2, <1>4, SameTables DEF PP!Consistent, PP!TypeOK, PP!StoreTypeOK
<1>6. PP!Ledger'
  BY <1>2, SameLedger
<1>7. PP!JobsAgree' /\ PP!SyncAgrees' /\ PP!NodeAgrees'
  BY <1>3, <1>4 DEF PP!Consistent, PP!JobsAgree, PP!JobAgrees, PP!Owns,
                    PP!SyncAgrees, PP!NodeAgrees
<1>8. /\ PP!NeverRefundedAndSent => PP!NeverRefundedAndSent'
      /\ PP!ChargedWhatItCost => PP!ChargedWhatItCost'
  BY <1>3, <1>4 DEF PP!NeverRefundedAndSent, PP!ChargedWhatItCost
<1> QED
  BY <1>1, <1>5, <1>6, <1>7, <1>8 DEF PP!Consistent

LEMMA CrashKeeps ==
    ASSUME PP!Consistent, II!Consistent, CrashSide
    PROVE  PP!Consistent' /\ II!Consistent'
<1>1. PP!TypeOK' /\ PP!Consistent'
  BY HalvesAssume, PP!StepType, PP!StepConsistent, SamePayments
     DEF CrashSide, PP!Next
<1>2. II!Consistent'
  BY HalvesAssume, II!StepConsistent DEF CrashSide, II!Next
<1> QED
  BY <1>1, <1>2

----------------------------------------------------------------------------
(* The theorems.                                                           *)

\* A step does to the tables what the sections above are about.
LEMMA StepDoes ==
    ASSUME Consistent, [Next]_vars
    PROVE  Does
<1>1. PP!Consistent /\ II!Consistent
  BY SamePayments, SameInvoices DEF Consistent
<1>2. CASE PaymentSide \/ CrashSide
  <2>1. [PP!Next]_(PP!vars) /\ UNCHANGED incoming
    BY <1>2 DEF PaymentSide, CrashSide, PP!Next, II!Crash, invVars
  <2> QED
    BY <1>1, <2>1, StepCharges DEF Does
<1>3. CASE InvoiceSide
  <2>1. [II!Next]_(II!vars)
    BY <1>3 DEF InvoiceSide
  <2>2. II!NodeForward
    BY HalvesAssume, <1>1, <2>1, II!NodeStep
  <2> QED
    BY <1>1, <2>1, <2>2, StepDeposits DEF Does, ReceiptsKept, II!NodeForward
<1> QED
  BY <1>2, <1>3, StepSides

\* Consistent, as the proofs about the halves say it.
Inv ==
    /\ PP!Consistent /\ II!Consistent
    /\ turn \in {"invoices", "payments"}
    /\ KindsApart /\ BooksBalance

LEMMA InvIsConsistent == Inv <=> Consistent
  BY SamePayments, SameInvoices DEF Inv, Consistent

LEMMA InitInv == Init => Inv
<1> SUFFICES ASSUME Init PROVE Inv
  OBVIOUS
<1>1. PP!Consistent /\ II!Consistent
  BY HalvesAssume, InitHalves, PP!InitConsistent, II!InitConsistent
<1> QED
  BY <1>1, InitBooks DEF Inv, Init

LEMMA StepInv == Inv /\ [Next]_vars => Inv'
<1> SUFFICES ASSUME Inv, [Next]_vars PROVE Inv'
  OBVIOUS
<1>1. Consistent
  BY InvIsConsistent
<1>2. Does
  BY <1>1, StepDoes
<1>3. PP!Consistent' /\ II!Consistent'
  BY StepSides, PaymentsKeepInvoices, InvoicesKeepPayments, CrashKeeps DEF Inv
<1>4. turn' \in {"invoices", "payments"}
  BY StepSides DEF Inv
<1>5. KindsApart' /\ BooksBalance'
  BY <1>1, <1>2, StepKinds, StepBooks
<1> QED
  BY <1>3, <1>4, <1>5 DEF Inv

\* The inductive invariant of the whole: what each half relies on still holds
\* after any step of the other, `pay` keeps the two kinds of invoices apart,
\* and no transaction of service.rs makes money.
THEOREM ServiceConsistent == Spec => []Consistent
  BY InitInv, StepInv, InvIsConsistent, PTL DEF Spec

\* Every variable of the whole keeps its type.
THEOREM ServiceTypeCorrect == Spec => []TypeOK
<1>1. Consistent => TypeOK
  BY DEF Consistent, TypeOK, P!Consistent, I!Consistent
<1> QED
  BY <1>1, ServiceConsistent, PTL

\* Every account holds what its statement adds up to, whichever transactions of
\* service.rs run, from whatever was read before them.
THEOREM ServiceExplains == Spec => []Explained
<1>1. Init => Explained
  BY InitExplained, InitHalves
<1>2. Consistent /\ Explained /\ [Next]_vars => Explained'
  BY StepDoes, StepStatements
<1> QED
  BY <1>1, <1>2, ServiceConsistent, PTL DEF Spec

\* The service can pay out what the accounts hold: the node has received, with
\* the deposits, what it has sent or may have to send and all the balances.
\* That is so while no payment starts or is retried after the handler has
\* taken it for failed.
THEOREM ServiceSolvent ==
    ASSUME LateStart = FALSE, Retries = FALSE
    PROVE  Spec => []Solvent
<1>1. Consistent => Solvent
  BY BooksCover
<1> QED
  BY <1>1, ServiceConsistent, PTL

\* What the users see of the handlers of service.rs, its task, the node and
\* crashes is the abstract wallet: every hash moves money in an account at most
\* once in each way.
THEOREM ServiceIsCustody == Spec => CustodySpec
<1>1. Init => Custodian!Init
  BY InitCustody
<1>2. Consistent /\ [Next]_vars => [Custodian!Next]_(Custodian!vars)
  BY StepDoes, StepCustody
<1> QED
  BY <1>1, <1>2, ServiceConsistent, PTL DEF Spec, CustodySpec, Custodian!Spec
=============================================================================
