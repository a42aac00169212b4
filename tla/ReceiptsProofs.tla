--------------------------- MODULE ReceiptsProofs ---------------------------
(***************************************************************************)
(* Proofs about Receipts, for any accounts, invoices, amounts, zaps and    *)
(* number of faults.                                                       *)
(***************************************************************************)
EXTENDS Receipts, StoreProofs

----------------------------------------------------------------------------
(* Type correctness.                                                       *)

\* The sleeping task is well typed.
LEMMA IdleType ==
    Idle \in Round(Idle.rows) /\ DOMAIN Idle.rows = {} /\ Idle.pc = "idle"
  BY EmptyTable DEF Idle, Round

\* A round begins with what the query has returned.
LEMMA RoundBegins ==
    ASSUME NEW rows
    PROVE  LET round == [Idle EXCEPT !.pc = "send", !.rows = rows]
           IN  /\ round \in Round(rows)
               /\ round.pc = "send" /\ round.rows = rows
  BY DEF Idle, Round

\* A receipt that is sent is the one to mark.
LEMMA RoundMarks ==
    ASSUME task \in Round(task.rows), NEW h \in Hashes
    PROVE  LET round == [task EXCEPT !.pc = "mark", !.hash = h]
           IN  /\ round \in Round(task.rows)
               /\ round.rows = task.rows /\ round.hash = h
  BY DEF Round

\* The initial states are well typed.
LEMMA InitType == ASSUME Init PROVE TypeOK
<1>1. StoreTypeOK
  BY StoreInitType DEF Init
<1>2. IsTable(zap, DOMAIN invoice, ZapRequest) /\ zap_status = {}
  BY EmptyTable DEF Init
<1>3. /\ task \in Round(task.rows) /\ task.pc # "mark"
      /\ IsTable(task.rows, DOMAIN zap, Invoice)
  <2>1. task = Idle /\ task.rows = <<>>
    BY DEF Init, Idle
  <2> QED
    BY <2>1, IdleType, EmptyTable
<1> QED
  BY <1>1, <1>2, <1>3 DEF TypeOK, Init

\* The loop that goes on to its next invoice stays well typed.
LEMMA RestType ==
    ASSUME TypeOK, NEW h, Rest(h)
    PROVE  /\ task' \in Round(task'.rows) /\ task'.pc # "mark"
           /\ DOMAIN task'.rows \subseteq DOMAIN task.rows
           /\ \A g \in DOMAIN task'.rows : task'.rows[g] = task.rows[g]
           /\ IsTable(task'.rows, DOMAIN zap, Invoice)
<1> DEFINE rest == DOMAIN task.rows \ {h}
           rows == [g \in rest |-> task.rows[g]]
<1>1. CASE rest = {}
  <2>1. task' = Idle
    BY <1>1 DEF Rest
  <2>2. DOMAIN Idle.rows = {} /\ IsTable(Idle.rows, DOMAIN zap, Invoice)
    BY IdleType, EmptyTable DEF Idle
  <2> QED
    BY <2>1, <2>2, IdleType
<1>2. CASE rest # {}
  <2>1. task' = [pc |-> "send", rows |-> rows, hash |-> "none"]
    BY <1>2 DEF Rest, Idle
  <2>2. IsTable(rows, DOMAIN zap, Invoice)
    BY DEF TypeOK, IsTable
  <2> QED
    BY <2>1, <2>2 DEF Round
<1> QED
  BY <1>1, <1>2

\* What a transaction on an invoice leaves of the rest of the types.
LEMMA WalletType ==
    ASSUME TypeOK, TablesOK', DOMAIN invoice' = DOMAIN invoice,
           UNCHANGED <<faults, zapVars>>
    PROVE  TypeOK'
  BY DEF TypeOK, StoreTypeOK, zapVars

\* Every step keeps the types.
LEMMA StepType ==
    ASSUME TypeOK, [Next]_vars
    PROVE  TypeOK'
<1>0. TablesOK
  BY DEF TypeOK, StoreTypeOK
<1>1. ASSUME NEW u \in Users, NEW h \in Hashes, CreateInvoice(u, h)
      PROVE  TypeOK'
  <2>1. IsTable(invoice', Hashes, Invoice)
    <3>1. NewInvoice(u, h, "none") \in Invoice
      BY InvoiceRow
    <3> QED
      BY <1>0, <1>1, <3>1, InsertTable DEF CreateInvoice, TablesOK
  <2>2. DOMAIN invoice' = DOMAIN invoice \cup {h}
    BY <1>1 DEF CreateInvoice, Insert
  <2>3. /\ IsTable(zap', DOMAIN invoice', ZapRequest)
        /\ DOMAIN zap \subseteq DOMAIN zap'
    <3>1. IsTable(zap, DOMAIN invoice', ZapRequest)
      BY <2>2 DEF TypeOK, IsTable
    <3>2. CASE UNCHANGED zap
      BY <3>1, <3>2
    <3>3. ASSUME NEW r \in ZapRequest, zap' = Insert(zap, h, r)
          PROVE  /\ IsTable(zap', DOMAIN invoice', ZapRequest)
                 /\ DOMAIN zap \subseteq DOMAIN zap'
      <4>1. h \in DOMAIN invoice'
        BY <2>2
      <4>2. IsTable(zap', DOMAIN invoice', ZapRequest)
        BY <3>1, <3>3, <4>1, InsertTable
      <4> QED
        BY <3>3, <4>2 DEF Insert
    <3> QED
      BY <1>1, <3>2, <3>3 DEF CreateInvoice
  <2>4. IsTable(task'.rows, DOMAIN zap', Invoice)
    BY <1>1, <2>3 DEF CreateInvoice, TypeOK, IsTable
  <2>5. TablesOK'
    BY <1>0, <1>1, <2>1 DEF CreateInvoice, TablesOK
  <2> QED
    BY <1>1, <2>3, <2>4, <2>5 DEF CreateInvoice, TypeOK, StoreTypeOK
<1>2. ASSUME NEW h \in DOMAIN invoice,
             \/ \E u \in Users : PaidByAccount(u, h)
             \/ PaidByNetwork(h) \/ Canceled(h)
      PROVE  TypeOK'
  <2>1. /\ h \in Hashes /\ invoice[h] \in Invoice
        /\ invoice[h].user_id \in Users /\ Amount[h] \in Nat
        /\ \A u \in Users : user[u].balance \in Int
    BY <1>0, FeesAreNat DEF TablesOK, IsTable, Invoice, User
  <2>2. ASSUME NEW u \in Users, PaidByAccount(u, h)
        PROVE  TypeOK'
    <3>1. TablesOK'
      BY <1>0, <2>1, <2>2, InternalPayType DEF PaidByAccount
    <3>2. DOMAIN invoice' = DOMAIN invoice
      BY <1>0, <2>2, InternalPayKeepsPaid DEF PaidByAccount
    <3> QED
      BY <2>2, <3>1, <3>2, WalletType DEF PaidByAccount
  <2>3. CASE PaidByNetwork(h)
    <3>1. TablesOK'
      BY <1>0, <2>1, <2>3, InvoicePaidType, InvoiceDupPaidType
         DEF PaidByNetwork
    <3>2. DOMAIN invoice' = DOMAIN invoice
      BY <1>0, <2>3, InvoicePaidKeepsPaid, InvoiceDupPaidKeepsPaid
         DEF PaidByNetwork
    <3> QED
      BY <2>3, <3>1, <3>2, WalletType DEF PaidByNetwork
  <2>4. CASE Canceled(h)
    <3>1. TablesOK' /\ DOMAIN invoice' = DOMAIN invoice
      BY <1>0, <2>1, <2>4, CancelInvoiceType, CancelKeepsPaid DEF Canceled
    <3> QED
      BY <2>4, <3>1, WalletType DEF Canceled
  <2> QED
    BY <1>2, <2>2, <2>3, <2>4
<1>3. CASE ReadZaps
  <2> DEFINE rows == [h \in Unmarked |-> invoice[h]]
  <2>1. \/ task' = Idle
        \/ task' = [Idle EXCEPT !.pc = "send", !.rows = rows]
    BY <1>3, Zenon DEF ReadZaps
  <2>2. IsTable(rows, DOMAIN zap, Invoice) /\ IsTable(<<>>, DOMAIN zap, Invoice)
    BY <1>0, EmptyTable DEF Unmarked, TypeOK, TablesOK, IsTable
  <2> HIDE DEF rows
  <2>3. /\ task' \in Round(task'.rows) /\ task'.pc # "mark"
        /\ IsTable(task'.rows, DOMAIN zap, Invoice)
    <3>1. CASE task' = Idle
      BY <2>2, <3>1, IdleType DEF Idle
    <3>2. CASE task' = [Idle EXCEPT !.pc = "send", !.rows = rows]
      BY <2>2, <3>2, RoundBegins
    <3> QED
      BY <2>1, <3>1, <3>2
  <2>4. UNCHANGED <<store, faults, zap, zap_status, relays>>
    BY <1>3 DEF ReadZaps
  <2> QED
    BY <2>3, <2>4 DEF TypeOK, StoreTypeOK, TablesOK, store
<1>4. ASSUME NEW h \in Hashes, SendReceipt(h)
      PROVE  TypeOK'
  <2>1. ReceiptOf(h) \in Receipt
    <3>1. task.rows[h].internal \in BOOLEAN
      BY <1>4 DEF SendReceipt, TypeOK, IsTable, Invoice
    <3> QED
      BY <3>1 DEF ReceiptOf, Receipt
  <2>2. /\ task' \in Round(task'.rows) /\ task'.rows = task.rows
        /\ task'.hash \in DOMAIN task'.rows
    <3>1. task' = [task EXCEPT !.pc = "mark", !.hash = h]
      BY <1>4 DEF SendReceipt
    <3>2. task \in Round(task.rows) /\ h \in DOMAIN task.rows
      BY <1>4 DEF SendReceipt, TypeOK
    <3> QED
      BY <3>1, <3>2, RoundMarks
  <2>3. relays' \subseteq Receipt
    BY <1>4, <2>1 DEF SendReceipt, TypeOK
  <2>4. UNCHANGED <<store, faults, zap, zap_status>>
    BY <1>4 DEF SendReceipt
  <2> QED
    BY <2>2, <2>3, <2>4 DEF TypeOK, StoreTypeOK, TablesOK, store
<1>5. ASSUME NEW h \in Hashes, SkipReceipt(h)
      PROVE  TypeOK'
  BY <1>5, RestType DEF SkipReceipt, TypeOK, StoreTypeOK, TablesOK, store
<1>6. CASE MarkSent
  <2>1. task.hash \in DOMAIN zap
    BY <1>6 DEF MarkSent, TypeOK, IsTable
  <2> QED
    BY <1>6, <2>1, RestType
       DEF MarkSent, TypeOK, StoreTypeOK, TablesOK, store
<1>7. CASE TaskFails
  <2>1. faults' \in 0..MaxFaults
    BY <1>7, StoreAssumption DEF TaskFails, TypeOK, StoreTypeOK
  <2> QED
    BY <1>7, <2>1, RestType
       DEF TaskFails, TypeOK, StoreTypeOK, TablesOK, store
<1>8. CASE Crash
  <2>1. faults' \in 0..MaxFaults
    BY <1>8, StoreAssumption DEF Crash, TypeOK, StoreTypeOK
  <2>2. /\ task' \in Round(task'.rows) /\ task'.pc # "mark"
        /\ IsTable(task'.rows, DOMAIN zap, Invoice)
    BY <1>8, IdleType, EmptyTable DEF Crash, Idle
  <2> QED
    BY <1>8, <2>1, <2>2 DEF Crash, TypeOK, StoreTypeOK, TablesOK, store
<1>9. CASE UNCHANGED vars
  BY <1>9 DEF vars, zapVars, store, TypeOK, StoreTypeOK, TablesOK
<1> QED
  BY <1>1, <1>2, <1>3, <1>4, <1>5, <1>6, <1>7, <1>8, <1>9
     DEF Next, Wallet, Task

\* Every state of the receipts task and the tables under it is well typed.
THEOREM TypeCorrect == Spec => []TypeOK
  BY InitType, StepType, PTL DEF Spec

----------------------------------------------------------------------------
(* Receipts are true.                                                      *)

\* The initial states satisfy the invariant.
LEMMA InitTruthful == ASSUME Init PROVE Truthful
<1>1. DOMAIN zap = {} /\ relays = {} /\ zap_status = {}
  BY EmptyTable DEF Init
<1>2. DOMAIN task.rows = {} /\ task.pc # "mark"
  BY IdleType DEF Init
<1> QED
  BY <1>1, <1>2 DEF Truthful, TaskAgrees, ReceiptIsTrue, MarkedIsSent

\* A transaction that leaves an invoice paid, and paid in the way it was, takes
\* nothing back of what the task has read or published.
LEMMA PaidKeepsTruthful ==
    ASSUME TypeOK, Truthful,
           \A g \in DOMAIN invoice :
              invoice[g].status = "Paid" =>
                  /\ invoice'[g].status = "Paid"
                  /\ invoice'[g].internal = invoice[g].internal,
           \A g \in DOMAIN zap : g \in DOMAIN zap' /\ zap'[g] = zap[g],
           \A g \in DOMAIN zap' : Valid(zap'[g]),
           UNCHANGED <<zap_status, task, relays>>
    PROVE  Truthful'
<1>1. /\ DOMAIN task.rows \subseteq DOMAIN invoice
      /\ \A r \in relays : r.hash \in DOMAIN zap /\ r.hash \in DOMAIN invoice
  BY DEF TypeOK, Truthful, IsTable
<1>2. TaskAgrees'
  BY <1>1 DEF Truthful, TaskAgrees
<1>3. ReceiptIsTrue'
  BY <1>1 DEF Truthful, ReceiptIsTrue
<1>4. MarkedIsSent'
  BY DEF Truthful, MarkedIsSent
<1>5. \A r \in relays' : r.hash \in DOMAIN zap'
  BY <1>1
<1> QED
  BY <1>2, <1>3, <1>4, <1>5 DEF Truthful, Valid

\* A task that forgets some of what it has read keeps the invariant.
LEMMA RestKeepsTruthful ==
    ASSUME TypeOK, Truthful, UNCHANGED <<store, zap, relays>>,
           task'.pc # "mark",
           DOMAIN task'.rows \subseteq DOMAIN task.rows,
           \A g \in DOMAIN task'.rows : task'.rows[g] = task.rows[g],
           \A h \in zap_status' : \E r \in relays : r.hash = h
    PROVE  Truthful'
<1>1. TaskAgrees'
  BY DEF Truthful, TaskAgrees, store
<1>2. ReceiptIsTrue' /\ MarkedIsSent'
  BY DEF Truthful, ReceiptIsTrue, MarkedIsSent, store
<1> QED
  BY <1>1, <1>2 DEF Truthful, Valid

\* Every step keeps the invariant.
LEMMA StepTruthful ==
    ASSUME TypeOK, Truthful, [Next]_vars
    PROVE  Truthful'
<1>0. TablesOK
  BY DEF TypeOK, StoreTypeOK
<1>1. ASSUME NEW u \in Users, NEW h \in Hashes, CreateInvoice(u, h)
      PROVE  Truthful'
  <2>1. \A g \in DOMAIN invoice : invoice'[g] = invoice[g]
    BY <1>1 DEF CreateInvoice, Insert
  <2>2. h \notin DOMAIN zap
    BY <1>1 DEF CreateInvoice, TypeOK, IsTable
  <2>3. /\ \A g \in DOMAIN zap : g \in DOMAIN zap' /\ zap'[g] = zap[g]
        /\ \A g \in DOMAIN zap' : Valid(zap'[g])
    BY <1>1, <2>2 DEF CreateInvoice, Insert, Truthful
  <2> QED
    BY <1>1, <2>1, <2>3, PaidKeepsTruthful DEF CreateInvoice
<1>2. ASSUME NEW h \in DOMAIN invoice,
             \/ \E u \in Users : PaidByAccount(u, h)
             \/ PaidByNetwork(h) \/ Canceled(h)
      PROVE  Truthful'
  <2>1. \A g \in DOMAIN invoice :
            invoice[g].status = "Paid" =>
                /\ invoice'[g].status = "Paid"
                /\ invoice'[g].internal = invoice[g].internal
    <3>1. ASSUME NEW u \in Users, PaidByAccount(u, h)
          PROVE  \A g \in DOMAIN invoice :
                    invoice[g].status = "Paid" => invoice'[g] = invoice[g]
      BY <1>0, <3>1, InternalPayKeepsPaid DEF PaidByAccount
    <3>2. CASE PaidByNetwork(h)
      BY <1>0, <3>2, InvoicePaidKeepsPaid, InvoiceDupPaidKeepsPaid
         DEF PaidByNetwork
    <3>3. CASE Canceled(h)
      BY <1>0, <3>3, CancelKeepsPaid DEF Canceled
    <3> QED
      BY <1>2, <3>1, <3>2, <3>3
  <2>2. UNCHANGED zapVars
    BY <1>2 DEF PaidByAccount, PaidByNetwork, Canceled
  <2> QED
    BY <2>1, <2>2, PaidKeepsTruthful DEF zapVars, Truthful
<1>3. CASE ReadZaps
  <2> DEFINE rows == [h \in Unmarked |-> invoice[h]]
  <2>1. \/ task' = Idle
        \/ task' = [Idle EXCEPT !.pc = "send", !.rows = rows]
    BY <1>3, Zenon DEF ReadZaps
  <2>2. \A h \in DOMAIN rows : /\ invoice[h].status = "Paid"
                               /\ rows[h].internal = invoice[h].internal
    BY DEF Unmarked
  <2> HIDE DEF rows
  <2>3. /\ task'.pc # "mark"
        /\ \A h \in DOMAIN task'.rows :
                /\ invoice[h].status = "Paid"
                /\ task'.rows[h].internal = invoice[h].internal
    <3>1. CASE task' = Idle
      BY <3>1, IdleType
    <3>2. CASE task' = [Idle EXCEPT !.pc = "send", !.rows = rows]
      <4>1. task'.pc = "send" /\ task'.rows = rows
        BY <3>2, RoundBegins
      <4> QED
        BY <2>2, <4>1
    <3> QED
      BY <2>1, <3>1, <3>2
  <2>4. TaskAgrees'
    BY <1>3, <2>3 DEF TaskAgrees, ReadZaps, store
  <2> QED
    BY <1>3, <2>4
       DEF ReadZaps, Truthful, ReceiptIsTrue, MarkedIsSent, store, Valid
<1>4. ASSUME NEW h \in Hashes, SendReceipt(h)
      PROVE  Truthful'
  <2>1. /\ h \in DOMAIN task.rows /\ h \in DOMAIN zap /\ zap[h] \in ZapRequest
        /\ invoice[h].status = "Paid"
        /\ task.rows[h].internal = invoice[h].internal
    BY <1>4 DEF SendReceipt, TypeOK, IsTable, Truthful, TaskAgrees
  <2>2. /\ ReceiptOf(h).hash = h
        /\ ReceiptOf(h).internal = invoice[h].internal
        /\ ReceiptOf(h).p = zap[h].p /\ ReceiptOf(h).e = zap[h].e
    BY <2>1 DEF ReceiptOf, Truthful, Valid, ZapRequest
  <2>3. relays' = relays \cup {ReceiptOf(h)}
    BY <1>4 DEF SendReceipt
  <2>4. task'.rows = task.rows /\ task'.hash = h
    BY <1>4 DEF SendReceipt, TypeOK, Round
  <2>5. TaskAgrees'
    BY <1>4, <2>2, <2>3, <2>4 DEF SendReceipt, Truthful, TaskAgrees, store
  <2>6. ReceiptIsTrue'
    BY <1>4, <2>1, <2>2, <2>3 DEF SendReceipt, Truthful, ReceiptIsTrue, store
  <2>7. MarkedIsSent'
    BY <1>4, <2>3 DEF SendReceipt, Truthful, MarkedIsSent
  <2>8. \A r \in relays' : r.hash \in DOMAIN zap
    BY <2>1, <2>2, <2>3 DEF Truthful
  <2> QED
    BY <1>4, <2>5, <2>6, <2>7, <2>8 DEF SendReceipt, Truthful, Valid
<1>5. ASSUME NEW h \in Hashes, SkipReceipt(h)
      PROVE  Truthful'
  BY <1>5, RestType, RestKeepsTruthful
     DEF SkipReceipt, Truthful, MarkedIsSent
<1>6. CASE MarkSent
  <2>1. \E r \in relays : r.hash = task.hash
    BY <1>6 DEF MarkSent, Truthful, TaskAgrees
  <2> QED
    BY <1>6, <2>1, RestType, RestKeepsTruthful
       DEF MarkSent, Truthful, MarkedIsSent
<1>7. CASE TaskFails
  BY <1>7, RestType, RestKeepsTruthful DEF TaskFails, Truthful, MarkedIsSent
<1>8. CASE Crash
  BY <1>8, IdleType, RestKeepsTruthful DEF Crash, Truthful, MarkedIsSent
<1>9. CASE UNCHANGED vars
  BY <1>9 DEF vars, zapVars, store, Truthful, TaskAgrees, ReceiptIsTrue,
              MarkedIsSent, Valid
<1> QED
  BY <1>1, <1>2, <1>3, <1>4, <1>5, <1>6, <1>7, <1>8, <1>9
     DEF Next, Wallet, Task

\* The invariant: what the task has read is paid and stays as it was read,
\* whatever the handlers and the other tasks do to the database meanwhile.
THEOREM AlwaysTruthful == Spec => []Truthful
<1>1. Init => TypeOK /\ Truthful
  BY InitType, InitTruthful
<1>2. TypeOK /\ Truthful /\ [Next]_vars => TypeOK' /\ Truthful'
  BY StepType, StepTruthful
<1> QED
  BY <1>1, <1>2, PTL DEF Spec

\* Every receipt on the relays proves a payment, now and for ever: resends and
\* second payments change nothing of it (send_receipt).
THEOREM ReceiptsAreTrue == Spec => []ReceiptIsTrue
<1>1. Truthful => ReceiptIsTrue
  BY DEF Truthful
<1> QED
  BY <1>1, AlwaysTruthful, PTL

\* No zap is marked without a receipt: the mark follows the sending, and what
\* ends between the two is sent again (send_receipt).
THEOREM MarkedAreSent == Spec => []MarkedIsSent
<1>1. Truthful => MarkedIsSent
  BY DEF Truthful
<1> QED
  BY <1>1, AlwaysTruthful, PTL
=============================================================================
