--------------------------- MODULE InvoicesProofs ---------------------------
(***************************************************************************)
(* Proofs about Invoices, for any accounts, invoices, amounts, handlers,   *)
(* other programs' invoices, pages and faults, and for both node clients.  *)
(***************************************************************************)
EXTENDS Invoices, StoreProofs

----------------------------------------------------------------------------
(* Types.                                                                  *)

\* What an invoice may become: it stays its owner's, and nothing else of it is
\* settled once it is paid or canceled than a second payment.
Later(old, new) ==
    /\ new.user_id = old.user_id
    /\ old.status # "Unpaid" => new.status = old.status
    /\ old.status # "Unpaid" /\ new # old =>
            /\ old.internal /\ ~old.duplicate /\ new.duplicate
            /\ new.paid_amount > old.paid_amount

\* The parts of the type invariant.
SweepType ==
    /\ sweep \in Sweep(sweep.rows, sweep.listed)
    /\ IsTable(sweep.rows, Hashes, Invoice)
    /\ IsTable(sweep.listed, Hashes, Incoming)

NodeType ==
    /\ incoming \in [Hashes -> Incoming]
    /\ age \in [Hashes -> Age]
    /\ passes \in [Hashes -> 0..Passes]
    /\ foreign \in BOOLEAN

\* The type invariant is the conjunction of its parts.
LEMMA TypeParts ==
    /\ TypeOK <=> /\ TablesOK /\ faults \in 0..MaxFaults
                  /\ IsTable(request, Workers, Request)
                  /\ SweepType /\ NodeType
    /\ TypeOK' <=> /\ TablesOK' /\ faults' \in 0..MaxFaults
                   /\ IsTable(request', Workers, Request)
                   /\ SweepType' /\ NodeType'
<1>1. TypeOK <=> /\ TablesOK /\ faults \in 0..MaxFaults
                 /\ IsTable(request, Workers, Request)
                 /\ SweepType /\ NodeType
  BY DEF TypeOK, StoreTypeOK, SweepType, NodeType
<1>2. TypeOK' <=> /\ TablesOK' /\ faults' \in 0..MaxFaults
                  /\ IsTable(request', Workers, Request)
                  /\ SweepType' /\ NodeType'
  BY DEF TypeOK, StoreTypeOK, SweepType, NodeType
<1> QED
  BY <1>1, <1>2

\* Tables no action writes stay tables.
LEMMA TablesFrame == ASSUME TablesOK, UNCHANGED store PROVE TablesOK'
  BY DEF store, TablesOK

\* The task at rest is well typed.
LEMMA IdleSweep == ASSUME sweep' = Idle PROVE SweepType'
<1>1. IsTable(<<>>, Hashes, Invoice) /\ IsTable(<<>>, Hashes, Incoming)
  BY EmptyTable
<1>2. /\ Idle.rows = <<>> /\ Idle.listed = <<>>
      /\ Idle \in Sweep(<<>>, <<>>)
  BY DEF Idle, Sweep
<1> QED
  BY <1>1, <1>2 DEF SweepType

\* A table restricted to some of its rows is a table.
LEMMA RestrictTable ==
    ASSUME NEW t, NEW Keys, NEW Row, IsTable(t, Keys, Row),
           NEW S, S \subseteq DOMAIN t
    PROVE  IsTable([k \in S |-> t[k]], Keys, Row)
  BY DEF IsTable

\* A handler that returns leaves the others.
LEMMA ReturnType ==
    ASSUME IsTable(request, Workers, Request), NEW w, Return(w)
    PROVE  /\ IsTable(request', Workers, Request)
           /\ DOMAIN request' = DOMAIN request \ {w}
           /\ \A v \in DOMAIN request' : request'[v] = request[v]
  BY DEF Return, IsTable

\* A snapshot the loop works on is well typed when its tables are.
LEMMA ItemsSweep ==
    ASSUME NEW rows, NEW listed
    PROVE  LET s == Items(rows, listed)
           IN  /\ s.pc = "items" /\ s.rows = rows /\ s.listed = listed
               /\ s \in Sweep(rows, listed)
  BY DEF Items, Sweep

\* What is left of the snapshot after an item.
LEMMA RestSweep ==
    ASSUME SweepType, NEW h, sweep' = Rest(h)
    PROVE  /\ SweepType'
           /\ sweep'.pc = "items"
           /\ DOMAIN sweep'.rows = DOMAIN sweep.rows \ {h}
           /\ DOMAIN sweep'.listed = DOMAIN sweep.listed \ {h}
           /\ \A g \in DOMAIN sweep'.rows : sweep'.rows[g] = sweep.rows[g]
           /\ \A g \in DOMAIN sweep'.listed : sweep'.listed[g] = sweep.listed[g]
<1> DEFINE rows   == [g \in DOMAIN sweep.rows \ {h} |-> sweep.rows[g]]
           listed == [g \in DOMAIN sweep.listed \ {h} |-> sweep.listed[g]]
<1>1. IsTable(rows, Hashes, Invoice) /\ IsTable(listed, Hashes, Incoming)
  BY RestrictTable DEF SweepType
<1>2. /\ DOMAIN rows = DOMAIN sweep.rows \ {h}
      /\ DOMAIN listed = DOMAIN sweep.listed \ {h}
      /\ \A g \in DOMAIN rows : rows[g] = sweep.rows[g]
      /\ \A g \in DOMAIN listed : listed[g] = sweep.listed[g]
  OBVIOUS
<1>3. sweep' = Items(rows, listed)
  BY DEF Rest
<1> HIDE DEF rows, listed
<1>4. /\ sweep'.rows = rows /\ sweep'.listed = listed /\ sweep'.pc = "items"
      /\ sweep' \in Sweep(rows, listed)
  BY <1>3, ItemsSweep
<1> QED
  BY <1>1, <1>2, <1>4 DEF SweepType

\* An entry of the node's list.
LEMMA ListedType ==
    ASSUME SweepType, NodeType
    PROVE  /\ IsTable(Listed, Hashes, Incoming)
           /\ \A h \in DOMAIN Listed :
                \/ Listed[h] = incoming[h]
                \/ h \in DOMAIN sweep.listed /\ Listed[h] = sweep.listed[h]
<1> DEFINE shown == {h \in Known : Lnd \/ Index[h] \in Page}
<1>1. shown \subseteq Hashes
  BY DEF Known
<1>2. Listed = [h \in DOMAIN sweep.listed \cup shown |->
                    IF h \in shown THEN incoming[h] ELSE sweep.listed[h]]
  BY DEF Listed
<1> HIDE DEF shown
<1> QED
  BY <1>1, <1>2 DEF SweepType, NodeType, IsTable

\* The actions of the handlers keep the types.
LEMMA HandlersType ==
    ASSUME TypeOK, RequestsAgree,
           \/ \E w \in Workers, u \in Users, h \in Hashes :
                \/ \E payer \in Payers : CreateInvoice(w, u, h, payer)
                \/ BeginInternal(w, u, h)
           \/ \E w \in Workers : Handler(w) \/ Abandon(w)
    PROVE  TypeOK'
<1> USE TypeParts
<1>1. ASSUME NEW w \in Workers, NEW u \in Users, NEW h \in Hashes,
             NEW payer \in Payers, CreateInvoice(w, u, h, payer)
      PROVE  TypeOK'
  <2> DEFINE r == [pc |-> "insert", user_id |-> u, hash |-> h,
                   inv |-> NewInvoice(u, h, payer), seen |-> 0,
                   payeeSeen |-> 0]
  <2>1. NewInvoice(u, h, payer) \in Invoice
    BY <1>1, InvoiceRow, InvoicesAssumption
  <2>2. r \in Request
    BY <1>1, <2>1 DEF Request
  <2>3. request' = Insert(request, w, r)
    BY <1>1 DEF CreateInvoice
  <2> HIDE DEF r
  <2>4. IsTable(request', Workers, Request)
    BY <1>1, <2>2, <2>3, InsertTable
  <2>5. NodeType'
    <3>1. [incoming[h] EXCEPT !.state = "open"] \in Incoming
      BY <1>1 DEF NodeType, Incoming
    <3> QED
      BY <1>1, <3>1 DEF NodeType, CreateInvoice
  <2> QED
    BY <1>1, <2>4, <2>5, TablesFrame DEF CreateInvoice, SweepType
<1>2. ASSUME NEW w \in Workers, NEW u \in Users, NEW h \in Hashes,
             BeginInternal(w, u, h)
      PROVE  TypeOK'
  <2> DEFINE r == [pc |-> "find", user_id |-> u, hash |-> h, inv |-> <<>>,
                   seen |-> user[u].balance, payeeSeen |-> 0]
  <2>1. user[u].balance \in Int
    BY <1>2 DEF TablesOK, User
  <2>2. r \in Request
    BY <1>2, <2>1 DEF Request
  <2>3. request' = Insert(request, w, r)
    BY <1>2 DEF BeginInternal
  <2> HIDE DEF r
  <2>4. IsTable(request', Workers, Request)
    BY <1>2, <2>2, <2>3, InsertTable
  <2> QED
    BY <1>2, <2>4, TablesFrame DEF BeginInternal, SweepType, NodeType
<1>3. ASSUME NEW w \in Workers, w \in DOMAIN request, InsertInvoice(w),
             UNCHANGED faults
      PROVE  TypeOK'
  <2>1. request[w] \in Request /\ request[w].inv \in Invoice
    BY <1>3 DEF IsTable, RequestsAgree, RequestAgrees, InsertInvoice
  <2>2. request[w].hash \in Hashes
    BY <2>1 DEF Request
  <2>3. IsTable(invoice', Hashes, Invoice)
    BY <1>3, <2>1, <2>2, InsertTable DEF InsertInvoice, TablesOK
  <2> QED
    BY <1>3, <2>3, ReturnType DEF InsertInvoice, TablesOK, SweepType, NodeType
<1>4. ASSUME NEW w \in Workers, w \in DOMAIN request, FindInvoice(w),
             UNCHANGED faults
      PROVE  TypeOK'
  <2> DEFINE h == request[w].hash
  <2>1. CASE Return(w)
    BY <1>4, <2>1, ReturnType, TablesFrame
       DEF FindInvoice, SweepType, NodeType
  <2>2. CASE /\ h \in DOMAIN invoice
             /\ request' = [request EXCEPT ![w].pc = "pay", ![w].inv = invoice[h],
                    ![w].payeeSeen = user[invoice[h].user_id].balance]
    <3> DEFINE r == [request[w] EXCEPT !.pc = "pay", !.inv = invoice[h],
                        !.payeeSeen = user[invoice[h].user_id].balance]
    <3>1. invoice[h] \in Invoice
      BY <2>2 DEF TablesOK, IsTable
    <3>2. user[invoice[h].user_id].balance \in Int
      BY <3>1 DEF TablesOK, Invoice, User
    <3>3. request[w] \in Request
      BY <1>4 DEF IsTable
    <3>4. r \in Request
      BY <3>1, <3>2, <3>3 DEF Request
    <3>5. request' = [request EXCEPT ![w] = r]
      BY <2>2
    <3> HIDE DEF r
    <3>6. IsTable(request', Workers, Request)
      BY <3>4, <3>5, UpdateTable
    <3> QED
      BY <1>4, <3>6, TablesFrame DEF FindInvoice, SweepType, NodeType
  <2> QED
    BY <1>4, <2>1, <2>2 DEF FindInvoice
<1>5. ASSUME NEW w \in Workers, w \in DOMAIN request, PayInternal(w),
             UNCHANGED faults
      PROVE  TypeOK'
  <2>1. request[w] \in Request /\ request[w].inv \in Invoice
    BY <1>5 DEF IsTable, RequestsAgree, RequestAgrees, PayInternal
  <2>2. /\ request[w].hash \in Hashes /\ request[w].user_id \in Users
        /\ request[w].seen \in Int /\ request[w].payeeSeen \in Int
    BY <2>1 DEF Request
  <2>3. TablesOK'
    BY <1>5, <2>1, <2>2, InternalPayType, TablesFrame DEF PayInternal
  <2> QED
    BY <1>5, <2>3, ReturnType DEF PayInternal, SweepType, NodeType
<1>6. ASSUME NEW w \in Workers, Abandon(w)
      PROVE  TypeOK'
  <2>1. faults' \in 0..MaxFaults
    BY <1>6, StoreAssumption DEF Abandon
  <2> QED
    BY <1>6, <2>1, ReturnType, TablesFrame DEF Abandon, SweepType, NodeType
<1> QED
  BY <1>1, <1>2, <1>3, <1>4, <1>5, <1>6 DEF Handler

\* The actions of the task keep the types.
LEMMA TaskType ==
    ASSUME TypeOK, SweepAgrees, SweepTask \/ SweepFails
    PROVE  TypeOK'
<1> USE TypeParts
<1>0. /\ UNCHANGED <<request, incoming, age, foreign>> /\ NodeType'
      /\ IsTable(request', Workers, Request) /\ faults' \in 0..MaxFaults
  <2>1. UNCHANGED <<request, incoming, age, foreign>>
    BY DEF SweepTask, SweepFails, SweepRead, SweepPage, SweepList,
           SweepListFails, SweepCredit, SweepDone, SweepCancel, SweepReadUser
  <2>2. faults' = faults \/ (faults < MaxFaults /\ faults' = faults + 1)
    BY DEF SweepTask, SweepFails, SweepRead, SweepPage, SweepList,
           SweepListFails, SweepCredit, SweepDone, SweepCancel, SweepReadUser,
           store
  <2>3. passes' = passes \/ passes' = [h \in Hashes |->
                    IF /\ age[h] = "expired" /\ incoming[h].state # "open"
                       /\ passes[h] < Passes
                    THEN passes[h] + 1 ELSE passes[h]]
    BY DEF SweepTask, SweepFails, SweepRead, SweepPage, SweepList,
           SweepListFails, SweepCredit, SweepDone, SweepCancel, SweepReadUser
  <2>4. passes' \in [Hashes -> 0..Passes]
    BY <2>3, InvoicesAssumption DEF NodeType
  <2> QED
    BY <2>1, <2>2, <2>4, StoreAssumption DEF NodeType
<1>1. CASE SweepRead
  <2>1. CASE UNCHANGED sweep
    BY <1>0, <1>1, <2>1, TablesFrame DEF SweepRead, SweepType
  <2>2. ASSUME NEW first \in Window,
               sweep' = [pc |-> "list", rows |-> [h \in Window |-> invoice[h]],
                         listed |-> <<>>, start |-> Index[first],
                         hash |-> "none", seen |-> 0]
        PROVE  SweepType'
    <3> DEFINE rows == [h \in Window |-> invoice[h]]
    <3>1. IsTable(rows, Hashes, Invoice)
      BY RestrictTable DEF TablesOK, Window
    <3>2. IsTable(<<>>, Hashes, Incoming)
      BY EmptyTable
    <3>3. Index[first] \in Nat
      BY <2>2, InvoicesAssumption DEF TablesOK, IsTable, Window
    <3> HIDE DEF rows
    <3>4. sweep' = [pc |-> "list", rows |-> rows, listed |-> <<>>,
                    start |-> Index[first], hash |-> "none", seen |-> 0]
      BY <2>2 DEF rows
    <3>5. sweep'.rows = rows /\ sweep'.listed = <<>> /\ sweep' \in Sweep(rows, <<>>)
      BY <3>3, <3>4 DEF Sweep
    <3> QED
      BY <3>1, <3>2, <3>5 DEF SweepType
  <2> QED
    BY <1>0, <1>1, <2>1, <2>2, TablesFrame DEF SweepRead
<1>2. CASE SweepPage
  <2>1. PICK last \in Page : sweep' = [sweep EXCEPT !.listed = Listed, !.start = last]
    BY <1>2 DEF SweepPage
  <2>2. last \in Nat
    BY <2>1, InvoicesAssumption DEF Page, Known
  <2>3. sweep'.rows = sweep.rows /\ sweep'.listed = Listed
        /\ sweep' \in Sweep(sweep.rows, Listed)
    BY <2>1, <2>2 DEF SweepType, Sweep
  <2>4. SweepType'
    BY <2>3, ListedType DEF SweepType
  <2> QED
    BY <1>0, <1>2, <2>4, TablesFrame DEF SweepPage
<1>3. CASE SweepList
  <2>1. PICK todo \in SUBSET (DOMAIN sweep.rows \cap DOMAIN Listed) :
            sweep' = Items([h \in todo |-> sweep.rows[h]],
                           [h \in todo |-> Listed[h]])
    BY <1>3 DEF SweepList
  <2>2. /\ IsTable([h \in todo |-> sweep.rows[h]], Hashes, Invoice)
        /\ IsTable([h \in todo |-> Listed[h]], Hashes, Incoming)
    BY ListedType, RestrictTable DEF SweepType
  <2>3. SweepType'
    BY <2>1, <2>2, ItemsSweep DEF SweepType
  <2> QED
    BY <1>0, <1>3, <2>3, TablesFrame DEF SweepList
<1>4. CASE SweepListFails
  BY <1>0, <1>4, IdleSweep, TablesFrame DEF SweepListFails
<1>5. ASSUME NEW h \in Hashes, SweepCancel(h)
      PROVE  TypeOK'
  BY <1>0, <1>5, RestSweep, CancelInvoiceType DEF SweepCancel
<1>6. ASSUME NEW h \in Hashes, SweepReadUser(h)
      PROVE  TypeOK'
  <2>1. user[sweep.rows[h].user_id].balance \in Int
    BY <1>6 DEF SweepReadUser, SweepType, IsTable, Invoice, TablesOK, User
  <2>2. /\ sweep'.rows = sweep.rows /\ sweep'.listed = sweep.listed
        /\ sweep' \in Sweep(sweep.rows, sweep.listed)
    BY <1>6, <2>1 DEF SweepReadUser, SweepType, Sweep
  <2>3. SweepType'
    BY <2>2 DEF SweepType
  <2> QED
    BY <1>0, <1>6, <2>3, TablesFrame DEF SweepReadUser
<1>7. CASE SweepCredit
  <2> DEFINE h == sweep.hash
  <2>1. h \in DOMAIN sweep.rows /\ h \in DOMAIN sweep.listed
    BY <1>7 DEF SweepCredit, SweepAgrees
  <2>2. /\ h \in Hashes /\ sweep.rows[h] \in Invoice
        /\ sweep.listed[h] \in Incoming
    BY <2>1 DEF SweepType, IsTable
  <2>3. sweep.listed[h].paid_amount \in Nat /\ sweep.seen \in Int
    BY <2>2 DEF Incoming, SweepType, Sweep
  <2>4. SweepType'
    BY <1>7, RestSweep DEF SweepCredit
  <2>5. TablesOK'
    BY <1>7, <2>2, <2>3, InvoicePaidType, InvoiceDupPaidType, TablesFrame
       DEF SweepCredit
  <2> QED
    BY <1>0, <2>4, <2>5
<1>8. CASE SweepDone
  BY <1>0, <1>8, IdleSweep, TablesFrame DEF SweepDone
<1>9. CASE SweepFails
  <2>1. SweepType'
    BY <1>9, IdleSweep, RestSweep DEF SweepFails
  <2> QED
    BY <1>0, <1>9, <2>1, TablesFrame DEF SweepFails
<1> QED
  BY <1>1, <1>2, <1>3, <1>4, <1>5, <1>6, <1>7, <1>8, <1>9 DEF SweepTask

\* The node, time and a restart keep the types.
LEMMA NodeKeepsType ==
    ASSUME TypeOK,
           \/ \E h \in Hashes : NodeReceives(h) \/ NodeCancels(h)
                                \/ Expire(h) \/ LeaveWindow(h)
           \/ NodeForeign \/ Crash \/ UNCHANGED vars
    PROVE  TypeOK'
<1> USE TypeParts
<1>1. ASSUME NEW h \in Hashes, NodeReceives(h)
      PROVE  TypeOK'
  <2>1. PICK extra \in 0..Overpaid : incoming' = [incoming EXCEPT ![h] =
                [state |-> "paid", paid_amount |-> Amount[h] + extra]]
    BY <1>1 DEF NodeReceives
  <2>2. [state |-> "paid", paid_amount |-> Amount[h] + extra] \in Incoming
    BY <1>1, FeesAreNat DEF Incoming
  <2> QED
    BY <1>1, <2>1, <2>2, TablesFrame DEF NodeReceives, SweepType, NodeType
<1>2. ASSUME NEW h \in Hashes, NodeCancels(h)
      PROVE  TypeOK'
  <2>1. [incoming[h] EXCEPT !.state = "canceled"] \in Incoming
    BY <1>2 DEF NodeType, Incoming
  <2> QED
    BY <1>2, <2>1, TablesFrame DEF NodeCancels, SweepType, NodeType
<1>3. ASSUME NEW h \in Hashes, Expire(h) \/ LeaveWindow(h)
      PROVE  TypeOK'
  BY <1>3, TablesFrame DEF Expire, LeaveWindow, SweepType, NodeType, Age
<1>4. CASE NodeForeign
  BY <1>4, TablesFrame DEF NodeForeign, SweepType, NodeType
<1>5. CASE Crash
  BY <1>5, IdleSweep, EmptyTable, TablesFrame, StoreAssumption
     DEF Crash, NodeType
<1>6. CASE UNCHANGED vars
  BY <1>6, TablesFrame DEF vars, invVars, SweepType, NodeType
<1> QED
  BY <1>1, <1>2, <1>3, <1>4, <1>5, <1>6

\* Every step keeps the types.
LEMMA StepType == Consistent /\ [Next]_vars => TypeOK'
  BY HandlersType, TaskType, NodeKeepsType DEF Consistent, Next

----------------------------------------------------------------------------
(* What a step does to the tables.                                         *)

\* A transaction that pays an invoice to its owner: another account does, or
\* the owner is credited what the node has received.  `model` is a copy of the
\* row, `seen` a balance that was read before.
Pays(h, model, seen) ==
    \/ \E u \in Users, payeeSeen \in Int :
        InternalPayMatches(u, h) /\ InternalPay(u, h, model, seen, payeeSeen)
    \/ /\ incoming[h].state = "paid" /\ InvoicePaidMatches(h)
       /\ InvoicePaid(h, model, incoming[h].paid_amount, seen)
    \/ /\ incoming[h].state = "paid" /\ InvoiceDupPaidMatches(h)
       /\ model = invoice[h]
       /\ InvoiceDupPaid(h, model, incoming[h].paid_amount, seen)

\* A step is one transaction at most, and whoever runs it, and from whatever
\* copy of the row, does what the row and the node say now.
Transacts ==
    \/ UNCHANGED store
    \/ \E w \in DOMAIN request : InsertInvoice(w)
    \/ \E h \in DOMAIN invoice : CancelInvoice(h)
    \/ \E h \in DOMAIN invoice, model \in Invoice, seen \in Int :
        model.user_id = invoice[h].user_id /\ Pays(h, model, seen)

\* What the task is about to credit.
LEMMA CreditedRow ==
    ASSUME TypeOK, SweepAgrees, NEW h \in DOMAIN sweep.rows,
           h \in DOMAIN sweep.listed,
           Action(sweep.rows[h], sweep.listed[h]) \in {"credit", "duplicate"}
    PROVE  /\ h \in DOMAIN invoice /\ sweep.rows[h] \in Invoice
           /\ sweep.rows[h].user_id = invoice[h].user_id
           /\ incoming[h].state = "paid" /\ sweep.listed[h] = incoming[h]
           /\ Action(sweep.rows[h], sweep.listed[h]) = "duplicate" =>
                invoice[h] = sweep.rows[h] \/ invoice[h].duplicate
<1>1. sweep.rows[h] \in Invoice
  BY TypeParts DEF SweepType, IsTable
<1>2. /\ sweep.listed[h].state = "paid"
      /\ Action(sweep.rows[h], sweep.listed[h]) = "duplicate" =>
            sweep.rows[h].status = "Paid"
  BY DEF Action
<1> QED
  BY <1>1, <1>2 DEF SweepAgrees

\* Every step is such a transaction.
LEMMA StepTransacts ==
    ASSUME Consistent, [Next]_vars
    PROVE  Transacts
<1> USE TypeParts DEF Consistent
<1>1. CASE UNCHANGED store
  BY <1>1 DEF Transacts
<1>2. ASSUME NEW w \in Workers, Handler(w)
      PROVE  Transacts
  <2>1. CASE InsertInvoice(w)
    BY <1>2, <2>1 DEF Handler, Transacts
  <2>2. CASE PayInternal(w)
    <3> DEFINE u == request[w].user_id
               h == request[w].hash
    <3>1. request[w] \in Request /\ request[w].pc = "pay" /\ RequestAgrees(w)
      BY <1>2, <2>2 DEF Handler, PayInternal, IsTable, RequestsAgree
    <3>2. /\ u \in Users /\ h \in DOMAIN invoice
          /\ request[w].inv \in Invoice /\ request[w].inv.user_id = invoice[h].user_id
          /\ request[w].seen \in Int /\ request[w].payeeSeen \in Int
      BY <3>1 DEF Request, RequestAgrees
    <3>3. CASE /\ InternalPayMatches(u, h)
               /\ InternalPay(u, h, request[w].inv, request[w].seen,
                              request[w].payeeSeen)
      BY <3>2, <3>3 DEF Transacts, Pays
    <3> QED
      BY <1>1, <2>2, <3>3 DEF PayInternal
  <2> QED
    BY <1>1, <1>2, <2>1, <2>2 DEF Handler, FindInvoice
<1>3. ASSUME NEW h \in Hashes, SweepCancel(h)
      PROVE  Transacts
  <2>1. h \in DOMAIN invoice
    BY <1>3 DEF SweepCancel, SweepAgrees
  <2> QED
    BY <1>3, <2>1 DEF SweepCancel, Transacts
<1>4. CASE SweepCredit
  <2> DEFINE h      == sweep.hash
             row    == sweep.rows[h]
             amount == sweep.listed[h].paid_amount
  <2>1. /\ h \in DOMAIN sweep.rows /\ h \in DOMAIN sweep.listed
        /\ sweep.seen \in Int
    BY <1>4 DEF SweepCredit, SweepAgrees, SweepType, Sweep
  <2>2. CASE /\ Action(row, sweep.listed[h]) = "credit" /\ InvoicePaidMatches(h)
             /\ InvoicePaid(h, row, amount, sweep.seen)
    <3>1. /\ h \in DOMAIN invoice /\ row \in Invoice
          /\ row.user_id = invoice[h].user_id
          /\ incoming[h].state = "paid" /\ amount = incoming[h].paid_amount
      BY <2>1, <2>2, CreditedRow
    <3> QED
      BY <2>1, <2>2, <3>1 DEF Transacts, Pays
  <2>3. CASE /\ Action(row, sweep.listed[h]) = "duplicate" /\ InvoiceDupPaidMatches(h)
             /\ InvoiceDupPaid(h, row, amount, sweep.seen)
    <3>1. /\ h \in DOMAIN invoice /\ row \in Invoice
          /\ row.user_id = invoice[h].user_id
          /\ incoming[h].state = "paid" /\ amount = incoming[h].paid_amount
          /\ invoice[h] = row \/ invoice[h].duplicate
      BY <2>1, <2>3, CreditedRow
    <3>2. row = invoice[h]
      BY <2>3, <3>1 DEF InvoiceDupPaidMatches
    <3> QED
      BY <2>1, <2>3, <3>1, <3>2 DEF Transacts, Pays
  <2> QED
    BY <1>1, <1>4, <2>2, <2>3 DEF SweepCredit
<1>5. CASE SweepTask
  BY <1>1, <1>3, <1>4, <1>5
     DEF SweepTask, SweepRead, SweepPage, SweepList, SweepListFails,
         SweepDone, SweepReadUser
<1>6. CASE UNCHANGED vars
  BY <1>1, <1>6 DEF vars
<1> QED
  BY <1>1, <1>2, <1>5, <1>6
     DEF Next, CreateInvoice, BeginInternal, Abandon, SweepFails, NodeReceives,
         NodeCancels, Expire, LeaveWindow, NodeForeign, Crash

----------------------------------------------------------------------------
(* What becomes of an invoice.                                             *)

\* The rows stay, each as it was or later.
Forward ==
    /\ DOMAIN invoice \subseteq DOMAIN invoice'
    /\ \A h \in DOMAIN invoice : Later(invoice[h], invoice'[h])

\* The other rows stay as they are.
OnlyRow(h) ==
    /\ DOMAIN invoice' = DOMAIN invoice
    /\ \A g \in DOMAIN invoice \ {h} : invoice'[g] = invoice[g]

\* An invoice becomes paid: internally, or over the network, for the first
\* time or for the second.
BecomesPaid(h, amount) ==
    LET old == invoice[h]
        new == invoice'[h]
    IN  /\ new.user_id = old.user_id /\ new.status = "Paid"
        /\ \/ /\ old.status = "Unpaid" /\ new.internal /\ ~new.duplicate
              /\ amount = Amount[h] /\ new.paid_amount = amount
           \/ /\ incoming[h].state = "paid" /\ amount = incoming[h].paid_amount
              /\ \/ /\ old.status = "Unpaid" /\ ~new.internal /\ ~new.duplicate
                    /\ new.paid_amount = amount
                 \/ /\ old.status = "Paid" /\ old.internal /\ ~old.duplicate
                    /\ new.internal /\ new.duplicate
                    /\ new.paid_amount = amount + old.paid_amount

\* Of the statements that of u is credited that for h, and nothing else.
CreditsOnly(old, new, h, u, amount) ==
    \A v \in Users, g \in Hashes :
        SumOf(Credits(new[v], g))
            = SumOf(Credits(old[v], g)) + IF v = u /\ g = h THEN amount ELSE 0

\* A new record credits its change for its invoice.
LEMMA CreditsAppended ==
    ASSUME NEW rows \in Seq(Record), NEW row \in Record, NEW h
    PROVE  SumOf(Credits(Append(rows, row), h))
                = SumOf(Credits(rows, h))
                    + IF row.hash = h THEN Positive(row.change) ELSE 0
<1> DEFINE new  == Append(rows, row)
           n    == Len(rows) + 1
           old  == Credits(rows, h)
           more == Credits(new, h)
<1>1. /\ DOMAIN new = DOMAIN rows \cup {n} /\ n \notin DOMAIN rows
      /\ new[n] = row /\ \A i \in DOMAIN rows : new[i] = rows[i]
  OBVIOUS
<1>2. IsFiniteSet(DOMAIN rows)
  BY FS_Interval
<1>3. row.change \in Int /\ \A i \in DOMAIN rows : rows[i].change \in Int
  <2>1. \A i \in DOMAIN rows : rows[i] \in Record
    OBVIOUS
  <2> QED
    BY <2>1 DEF Record
<1> HIDE DEF new, n
<1>4. /\ DOMAIN old = {j \in DOMAIN rows : rows[j].hash = h}
      /\ DOMAIN more = {j \in DOMAIN new : new[j].hash = h}
      /\ \A i \in DOMAIN old : old[i] = rows[i].change
      /\ \A i \in DOMAIN more : more[i] = new[i].change
  BY DEF Credits
<1> HIDE DEF old, more
<1>5. IsFiniteSet(DOMAIN old)
  BY <1>2, <1>4, FS_Subset
<1>6. SumOf(old) \in Nat
  BY <1>3, <1>4, <1>5, SumIsNat
<1>7. CASE row.hash = h
  <2>1. /\ n \notin DOMAIN old /\ DOMAIN more = DOMAIN old \cup {n}
        /\ more[n] = row.change /\ more[n] \in Int
        /\ \A i \in DOMAIN old : old[i] \in Int /\ more[i] = old[i]
    BY <1>1, <1>3, <1>4, <1>7
  <2>2. SumOf(more) = SumOf(old) + Positive(more[n])
    BY <1>5, <2>1, SumOfAdded
  <2> QED
    BY <1>7, <2>1, <2>2 DEF old, more, new
<1>8. CASE row.hash # h
  <2>1. DOMAIN more = DOMAIN old /\ \A i \in DOMAIN old : more[i] = old[i]
    BY <1>1, <1>4, <1>8
  <2>2. SumOf(more) = SumOf(old)
    BY <2>1, SumOfSame
  <2> QED
    BY <1>6, <1>8, <2>2 DEF old, more, new
<1> QED
  BY <1>7, <1>8

\* What is credited is an amount.
LEMMA CreditsAreNat ==
    ASSUME NEW rows \in Seq(Record), NEW h
    PROVE  SumOf(Credits(rows, h)) \in Nat
<1>1. \A i \in DOMAIN rows : rows[i].change \in Int
  <2>1. \A i \in DOMAIN rows : rows[i] \in Record
    OBVIOUS
  <2> QED
    BY <2>1 DEF Record
<1>2. IsFiniteSet(DOMAIN rows)
  BY FS_Interval
<1>3. /\ DOMAIN Credits(rows, h) \subseteq DOMAIN rows
      /\ \A i \in DOMAIN Credits(rows, h) : Credits(rows, h)[i] \in Int
  BY <1>1 DEF Credits
<1>4. IsFiniteSet(DOMAIN Credits(rows, h))
  BY <1>2, <1>3, FS_Subset
<1> QED
  BY <1>3, <1>4, SumIsNat

\* So does new_record, in one statement.
LEMMA NewRecordCredits ==
    ASSUME NEW rows \in [Users -> Seq(Record)], NEW u \in Users,
           NEW seen \in Int, NEW change \in Int, NEW h \in Hashes,
           NEW source \in {"admin", "external_payment", "internal_payment",
                           "duplicate_payment"}
    PROVE  CreditsOnly(rows, NewRecord(rows, u, seen, change, h, source), h, u,
                       Positive(change))
<1> DEFINE row == [balance |-> seen, change |-> change, hash |-> h,
                   source |-> source]
           new == NewRecord(rows, u, seen, change, h, source)
<1>1. row \in Record /\ row.change = change /\ row.hash = h
  BY DEF Record
<1>2. \A v \in Users : new[v] = IF v = u THEN Append(rows[v], row) ELSE rows[v]
  BY DEF NewRecord
<1> HIDE DEF row, new
<1>3. ASSUME NEW v \in Users, NEW g \in Hashes
      PROVE  SumOf(Credits(new[v], g)) = SumOf(Credits(rows[v], g))
                + IF v = u /\ g = h THEN Positive(change) ELSE 0
  <2>1. rows[v] \in Seq(Record)
    OBVIOUS
  <2>2. SumOf(Credits(rows[v], g)) \in Nat
    BY <2>1, CreditsAreNat
  <2>3. SumOf(Credits(Append(rows[v], row), g)) = SumOf(Credits(rows[v], g))
            + IF row.hash = g THEN Positive(row.change) ELSE 0
    BY <1>1, <2>1, CreditsAppended
  <2>4. CASE v = u
    BY <1>1, <1>2, <2>3, <2>4
  <2>5. CASE v # u
    BY <1>2, <2>2, <2>5
  <2> QED
    BY <2>4, <2>5
<1> QED
  BY <1>3 DEF CreditsOnly, new

\* The transaction of internal_pay pays one invoice, and the debit of the payer
\* is no credit, though it names the same invoice.
LEMMA InternalPayPays ==
    ASSUME TablesOK, InvoicesAgree, NEW h \in DOMAIN invoice,
           NEW u \in Users, NEW model \in Invoice, NEW seen \in Int,
           NEW payeeSeen \in Int, InternalPayMatches(u, h),
           InternalPay(u, h, model, seen, payeeSeen)
    PROVE  /\ OnlyRow(h) /\ BecomesPaid(h, Amount[h])
           /\ CreditsOnly(record, record', h, model.user_id, Amount[h])
<1> DEFINE payee   == model.user_id
           amount  == Amount[h]
           cost    == -InternalTotal(h)
           debited == NewRecord(record, u, seen, cost, h, "internal_payment")
<1>1. /\ h \in Hashes /\ invoice[h] \in Invoice /\ payee \in Users
      /\ record \in [Users -> Seq(Record)]
  BY DEF TablesOK, IsTable, Invoice
<1>2. /\ amount \in Int /\ cost \in Int /\ Positive(amount) = amount
      /\ Positive(cost) = 0
  <2>1. InternalTotal(h) \in Nat /\ InternalTotal(h) > 0 /\ amount \in Nat
    BY <1>1, TotalsArePositive, FeesAreNat DEF InternalTotal
  <2> QED
    BY <2>1 DEF Positive
<1>3. OnlyRow(h) /\ BecomesPaid(h, Amount[h])
  <2>1. /\ invoice[h].status = "Unpaid" /\ ~invoice[h].duplicate
    BY <1>1 DEF InternalPayMatches, InvoicesAgree
  <2> DEFINE row == [invoice[h] EXCEPT !.status = "Paid", !.amount = Amount[h],
                        !.paid_amount = Amount[h], !.internal = TRUE]
  <2>2. /\ row.user_id = invoice[h].user_id /\ row.status = "Paid"
        /\ row.internal /\ ~row.duplicate /\ row.paid_amount = Amount[h]
    BY <1>1, <2>1 DEF Invoice
  <2>3. invoice' = [invoice EXCEPT ![h] = row]
    BY DEF InternalPay
  <2> HIDE DEF row
  <2>4. invoice'[h] = row /\ OnlyRow(h)
    BY <2>3 DEF OnlyRow
  <2> QED
    BY <2>1, <2>2, <2>4 DEF BecomesPaid
<1>4. record' = NewRecord(debited, payee, payeeSeen, amount, h,
                          "internal_payment")
  BY DEF InternalPay
<1>5. debited = NewRecord(record, u, seen, cost, h, "internal_payment")
  OBVIOUS
<1> HIDE DEF payee, amount, cost, debited
<1>6. debited \in [Users -> Seq(Record)]
  BY <1>1, <1>2, <1>5, NewRecordType
<1>7. CreditsOnly(record, debited, h, u, 0)
  BY <1>1, <1>2, <1>5, NewRecordCredits
<1>8. CreditsOnly(debited, record', h, payee, amount)
  BY <1>1, <1>2, <1>4, <1>6, NewRecordCredits
<1>9. \A v \in Users, g \in Hashes : SumOf(Credits(record[v], g)) \in Nat
  BY <1>1, CreditsAreNat
<1>10. CreditsOnly(record, record', h, payee, amount)
  BY <1>2, <1>7, <1>8, <1>9 DEF CreditsOnly
<1> QED
  BY <1>3, <1>10 DEF payee, amount

\* invoice_paid pays it over the network, ...
LEMMA InvoicePaidPays ==
    ASSUME TypeOK, InvoicesAgree, NEW h \in DOMAIN invoice,
           NEW model \in Invoice, NEW seen \in Int, incoming[h].state = "paid",
           InvoicePaidMatches(h),
           InvoicePaid(h, model, incoming[h].paid_amount, seen)
    PROVE  /\ OnlyRow(h) /\ BecomesPaid(h, incoming[h].paid_amount)
           /\ incoming[h].paid_amount \in Nat
           /\ CreditsOnly(record, record', h, model.user_id,
                          incoming[h].paid_amount)
<1> USE TypeParts
<1> DEFINE payee  == model.user_id
           amount == incoming[h].paid_amount
<1>1. /\ h \in Hashes /\ invoice[h] \in Invoice /\ payee \in Users
      /\ record \in [Users -> Seq(Record)] /\ amount \in Nat
  BY DEF TablesOK, IsTable, Invoice, NodeType, Incoming
<1>2. OnlyRow(h) /\ BecomesPaid(h, incoming[h].paid_amount)
  <2>1. /\ invoice[h].status = "Unpaid" /\ ~invoice[h].duplicate
    BY <1>1 DEF InvoicePaidMatches, InvoicesAgree
  <2> DEFINE row == [invoice[h] EXCEPT !.status = "Paid",
                        !.paid_amount = amount, !.internal = FALSE]
  <2>2. /\ row.user_id = invoice[h].user_id /\ row.status = "Paid"
        /\ ~row.internal /\ ~row.duplicate /\ row.paid_amount = amount
    BY <1>1, <2>1 DEF Invoice
  <2>3. invoice' = [invoice EXCEPT ![h] = row]
    BY DEF InvoicePaid
  <2> HIDE DEF row
  <2>4. invoice'[h] = row /\ OnlyRow(h)
    BY <2>3 DEF OnlyRow
  <2> QED
    BY <2>1, <2>2, <2>4 DEF BecomesPaid
<1>3. /\ record' = NewRecord(record, payee, seen, amount, h, "external_payment")
      /\ Positive(amount) = amount
  BY <1>1 DEF InvoicePaid, Positive
<1> HIDE DEF payee, amount
<1>4. CreditsOnly(record, record', h, payee, amount)
  BY <1>1, <1>3, NewRecordCredits
<1> QED
  BY <1>1, <1>2, <1>4 DEF payee, amount

\* ... and invoice_dup_paid for the second time.
LEMMA InvoiceDupPaidPays ==
    ASSUME TypeOK, NEW h \in DOMAIN invoice, NEW seen \in Int,
           incoming[h].state = "paid", InvoiceDupPaidMatches(h),
           InvoiceDupPaid(h, invoice[h], incoming[h].paid_amount, seen)
    PROVE  /\ OnlyRow(h) /\ BecomesPaid(h, incoming[h].paid_amount)
           /\ incoming[h].paid_amount \in Nat
           /\ CreditsOnly(record, record', h, invoice[h].user_id,
                          incoming[h].paid_amount)
<1> USE TypeParts
<1> DEFINE payee  == invoice[h].user_id
           amount == incoming[h].paid_amount
<1>1. /\ h \in Hashes /\ invoice[h] \in Invoice /\ payee \in Users
      /\ record \in [Users -> Seq(Record)] /\ amount \in Nat
  BY DEF TablesOK, IsTable, Invoice, NodeType, Incoming
<1>2. OnlyRow(h) /\ BecomesPaid(h, incoming[h].paid_amount)
  <2>1. invoice[h].status = "Paid" /\ invoice[h].internal /\ ~invoice[h].duplicate
    BY DEF InvoiceDupPaidMatches
  <2> DEFINE row == [invoice[h] EXCEPT
                        !.paid_amount = amount + invoice[h].paid_amount,
                        !.duplicate = TRUE]
  <2>2. /\ row.user_id = invoice[h].user_id /\ row.status = "Paid"
        /\ row.internal /\ row.duplicate
        /\ row.paid_amount = amount + invoice[h].paid_amount
    BY <1>1, <2>1 DEF Invoice
  <2>3. invoice' = [invoice EXCEPT ![h] = row]
    BY DEF InvoiceDupPaid
  <2> HIDE DEF row
  <2>4. invoice'[h] = row /\ OnlyRow(h)
    BY <2>3 DEF OnlyRow
  <2> QED
    BY <2>1, <2>2, <2>4 DEF BecomesPaid
<1>3. /\ record' = NewRecord(record, payee, seen, amount, h, "duplicate_payment")
      /\ Positive(amount) = amount
  BY <1>1 DEF InvoiceDupPaid, Positive
<1> HIDE DEF payee, amount
<1>4. CreditsOnly(record, record', h, payee, amount)
  BY <1>1, <1>3, NewRecordCredits
<1> QED
  BY <1>1, <1>2, <1>4 DEF payee, amount

\* Together: whoever pays an invoice, the row and the statement agree on it.
LEMMA PaysOnce ==
    ASSUME TypeOK, InvoicesAgree, NEW h \in DOMAIN invoice,
           NEW model \in Invoice, NEW seen \in Int,
           model.user_id = invoice[h].user_id, Pays(h, model, seen)
    PROVE  /\ OnlyRow(h)
           /\ \E amount \in Nat :
                /\ BecomesPaid(h, amount)
                /\ CreditsOnly(record, record', h, invoice[h].user_id, amount)
<1>1. h \in Hashes /\ TablesOK
  BY TypeParts DEF TablesOK, IsTable
<1>2. Amount[h] \in Nat
  BY <1>1, FeesAreNat
<1>3. CASE \E u \in Users, payeeSeen \in Int :
        InternalPayMatches(u, h) /\ InternalPay(u, h, model, seen, payeeSeen)
  BY <1>1, <1>2, <1>3, InternalPayPays
<1>4. CASE /\ incoming[h].state = "paid" /\ InvoicePaidMatches(h)
           /\ InvoicePaid(h, model, incoming[h].paid_amount, seen)
  BY <1>4, InvoicePaidPays
<1>5. CASE /\ incoming[h].state = "paid" /\ InvoiceDupPaidMatches(h)
           /\ model = invoice[h]
           /\ InvoiceDupPaid(h, model, incoming[h].paid_amount, seen)
  BY <1>5, InvoiceDupPaidPays
<1> QED
  BY <1>3, <1>4, <1>5 DEF Pays

\* The UPDATE of canceled invoices cancels an unpaid one.
LEMMA CancelRow ==
    ASSUME TablesOK, NEW h \in DOMAIN invoice, CancelInvoice(h)
    PROVE  /\ OnlyRow(h)
           /\ \/ invoice'[h] = invoice[h]
              \/ /\ invoice[h].status = "Unpaid" /\ invoice'[h].status = "Canceled"
                 /\ invoice'[h].user_id = invoice[h].user_id
                 /\ invoice'[h].internal = invoice[h].internal
                 /\ invoice'[h].duplicate = invoice[h].duplicate
  BY DEF CancelInvoice, TablesOK, IsTable, Invoice, OnlyRow

\* create_invoice adds the row it holds.
LEMMA InsertRow ==
    ASSUME RequestsAgree, NEW w \in DOMAIN request, InsertInvoice(w)
    PROVE  LET h == request[w].hash
           IN  /\ h \notin DOMAIN invoice /\ DOMAIN invoice' = DOMAIN invoice \cup {h}
               /\ \A g \in DOMAIN invoice : invoice'[g] = invoice[g]
               /\ invoice'[h].status = "Unpaid" /\ incoming[h].state # "none"
               /\ ~invoice'[h].internal /\ ~invoice'[h].duplicate
  BY DEF InsertInvoice, Insert, RequestsAgree, RequestAgrees

\* No step takes an invoice back, and but for create_invoice none adds one.
LEMMA StepForward ==
    ASSUME Consistent, [Next]_vars
    PROVE  /\ Forward
           /\ \/ DOMAIN invoice' = DOMAIN invoice
              \/ \E w \in DOMAIN request :
                    /\ InsertInvoice(w)
                    /\ DOMAIN invoice' = DOMAIN invoice \cup {request[w].hash}
<1> USE DEF Consistent
<1>1. CASE UNCHANGED store
  BY <1>1 DEF store, Forward, Later
<1>2. ASSUME NEW w \in DOMAIN request, InsertInvoice(w)
      PROVE  /\ Forward
             /\ DOMAIN invoice' = DOMAIN invoice \cup {request[w].hash}
  BY <1>2, InsertRow DEF Forward, Later
<1>3. ASSUME NEW h \in DOMAIN invoice, CancelInvoice(h)
      PROVE  Forward /\ DOMAIN invoice' = DOMAIN invoice
  BY <1>3, CancelRow, TypeParts DEF Forward, Later, OnlyRow
<1>4. ASSUME NEW h \in DOMAIN invoice, NEW model \in Invoice, NEW seen \in Int,
             model.user_id = invoice[h].user_id, Pays(h, model, seen)
      PROVE  Forward /\ DOMAIN invoice' = DOMAIN invoice
  <2>1. OnlyRow(h)
    BY <1>4, PaysOnce
  <2>2. PICK amount \in Nat : BecomesPaid(h, amount)
    BY <1>4, PaysOnce
  <2>3. h \in Hashes /\ invoice[h].paid_amount \in Nat
    BY TypeParts DEF TablesOK, IsTable, Invoice
  <2>4. incoming[h].state = "paid" => incoming[h].paid_amount > 0
    BY <2>3, FeesAreNat, TypeParts DEF NodeAgrees, NodeType, Incoming
  <2>5. Later(invoice[h], invoice'[h])
    BY <2>2, <2>3, <2>4 DEF BecomesPaid, Later
  <2> QED
    BY <2>1, <2>5 DEF OnlyRow, Forward, Later
<1> QED
  BY <1>1, <1>2, <1>3, <1>4, StepTransacts DEF Transacts

----------------------------------------------------------------------------
(* What the handlers, the task and the node know of each other.            *)

\* The node forgets no invoice, keeps those it has received, and what it has
\* received covers the amount.
NodeForward ==
    \A h \in Hashes :
        /\ incoming[h].state # "none" => incoming'[h].state # "none"
        /\ incoming[h].state = "paid" => incoming'[h] = incoming[h]
        /\ incoming'[h].state = "paid" => incoming'[h].paid_amount >= Amount[h]

LEMMA NodeStep == ASSUME Consistent, [Next]_vars PROVE NodeForward
<1> USE TypeParts DEF Consistent
<1>1. CASE UNCHANGED incoming
  BY <1>1 DEF NodeAgrees, NodeForward
<1>2. ASSUME NEW h \in Hashes, NodeReceives(h)
      PROVE  NodeForward
  <2>1. PICK extra \in 0..Overpaid : incoming' = [incoming EXCEPT ![h] =
                [state |-> "paid", paid_amount |-> Amount[h] + extra]]
    BY <1>2 DEF NodeReceives
  <2>2. Amount[h] + extra >= Amount[h]
    BY <2>1, FeesAreNat, InvoicesAssumption
  <2> QED
    BY <1>2, <2>1, <2>2 DEF NodeReceives, NodeType, NodeAgrees, NodeForward
<1>3. ASSUME NEW h \in Hashes, NEW state \in {"open", "canceled"},
             incoming[h].state \in {"none", "open"},
             incoming' = [incoming EXCEPT ![h].state = state]
      PROVE  NodeForward
  <2> DEFINE new == [incoming[h] EXCEPT !.state = state]
  <2>1. new.state = state
    BY <1>3 DEF NodeType, Incoming
  <2>2. incoming' = [incoming EXCEPT ![h] = new]
    BY <1>3
  <2> HIDE DEF new
  <2> QED
    BY <1>3, <2>1, <2>2 DEF NodeType, NodeAgrees, NodeForward
<1> QED
  <2>1. CASE UNCHANGED vars
    BY <1>1, <2>1 DEF vars, invVars
  <2>2. CASE SweepTask \/ SweepFails
    BY <1>1, <2>2
       DEF SweepTask, SweepRead, SweepPage, SweepList, SweepListFails,
           SweepDone, SweepReadUser, SweepCancel, SweepCredit, SweepFails
  <2>3. ASSUME NEW w \in Workers, Handler(w) \/ Abandon(w)
        PROVE  UNCHANGED incoming
    BY <2>3 DEF Handler, Abandon, InsertInvoice, FindInvoice, PayInternal
  <2>4. ASSUME NEW w \in Workers, NEW u \in Users, NEW h \in Hashes,
               \/ \E payer \in Payers : CreateInvoice(w, u, h, payer)
               \/ BeginInternal(w, u, h)
        PROVE  \/ UNCHANGED incoming
               \/ /\ incoming[h].state = "none"
                  /\ incoming' = [incoming EXCEPT ![h].state = "open"]
    BY <2>4 DEF CreateInvoice, BeginInternal
  <2>5. ASSUME NEW h \in Hashes,
               NodeReceives(h) \/ NodeCancels(h) \/ Expire(h) \/ LeaveWindow(h)
        PROVE  \/ UNCHANGED incoming
               \/ NodeReceives(h)
               \/ /\ incoming[h].state = "open"
                  /\ incoming' = [incoming EXCEPT ![h].state = "canceled"]
    BY <2>5 DEF NodeCancels, Expire, LeaveWindow
  <2>6. CASE NodeForeign \/ Crash
    BY <1>1, <2>6 DEF NodeForeign, Crash
  <2> QED
    BY <1>1, <1>2, <1>3, <2>1, <2>2, <2>3, <2>4, <2>5, <2>6 DEF Next

\* Every stored invoice is one the node has made, and one the network's money
\* has been credited for is one the node has received.
LEMMA StepNodeAgrees ==
    ASSUME Consistent, [Next]_vars
    PROVE  NodeAgrees'
<1> USE TypeParts DEF Consistent
<1>1. \A h \in DOMAIN invoice : h \in Hashes
  BY DEF TablesOK, IsTable
<1>2. SUFFICES \A h \in DOMAIN invoice' :
                    /\ h \in Hashes /\ incoming[h].state # "none"
                    /\ Received(h)' => incoming[h].state = "paid"
  BY NodeStep DEF NodeForward, NodeAgrees
<1>3. CASE UNCHANGED store
  BY <1>1, <1>3 DEF store, NodeAgrees, Received
<1>4. ASSUME NEW w \in DOMAIN request, InsertInvoice(w)
      PROVE  \A h \in DOMAIN invoice' :
                /\ h \in Hashes /\ incoming[h].state # "none"
                /\ Received(h)' => incoming[h].state = "paid"
  <2>1. request[w].hash \in Hashes
    BY DEF IsTable, Request
  <2> QED
    BY <1>1, <1>4, <2>1, InsertRow DEF NodeAgrees, Received
<1>5. ASSUME NEW h \in DOMAIN invoice, CancelInvoice(h)
      PROVE  \A g \in DOMAIN invoice' :
                /\ g \in Hashes /\ incoming[g].state # "none"
                /\ Received(g)' => incoming[g].state = "paid"
  BY <1>1, <1>5, CancelRow DEF OnlyRow, NodeAgrees, Received
<1>6. ASSUME NEW h \in DOMAIN invoice, NEW model \in Invoice, NEW seen \in Int,
             model.user_id = invoice[h].user_id, Pays(h, model, seen)
      PROVE  \A g \in DOMAIN invoice' :
                /\ g \in Hashes /\ incoming[g].state # "none"
                /\ Received(g)' => incoming[g].state = "paid"
  <2>1. OnlyRow(h)
    BY <1>6, PaysOnce
  <2>2. PICK amount \in Nat : BecomesPaid(h, amount)
    BY <1>6, PaysOnce
  <2>3. Received(h)' => incoming[h].state = "paid"
    BY <2>2 DEF BecomesPaid, Received
  <2> QED
    BY <1>1, <2>1, <2>3 DEF OnlyRow, NodeAgrees, Received
<1> QED
  BY <1>3, <1>4, <1>5, <1>6, StepTransacts DEF Transacts

\* Handlers that go on as they are keep agreeing with the tables.
LEMMA RequestsFrame ==
    ASSUME Consistent, [Next]_vars,
           DOMAIN request' \subseteq DOMAIN request,
           \A v \in DOMAIN request' : request'[v] = request[v],
           \A v \in DOMAIN request' : request[v].pc = "insert" =>
                request[v].hash \notin DOMAIN invoice'
    PROVE  RequestsAgree'
<1>1. \A v \in DOMAIN request : request[v].hash \in Hashes
  BY TypeParts DEF Consistent, IsTable, Request
<1>2. /\ DOMAIN invoice \subseteq DOMAIN invoice'
      /\ \A h \in DOMAIN invoice : invoice'[h].user_id = invoice[h].user_id
  BY StepForward DEF Forward, Later
<1> SUFFICES ASSUME NEW v \in DOMAIN request' PROVE RequestAgrees(v)'
  BY DEF RequestsAgree
<1>3. v \in DOMAIN request /\ RequestAgrees(v)
  BY DEF Consistent, RequestsAgree
<1> QED
  BY <1>1, <1>2, <1>3, NodeStep DEF RequestAgrees, NodeForward

\* Every step keeps the handlers in agreement: what a handler was told stays
\* true until it acts, whatever the others do meanwhile.
LEMMA StepRequestsAgree ==
    ASSUME Consistent, [Next]_vars
    PROVE  RequestsAgree'
<1> USE TypeParts
<1>0. \A v \in DOMAIN request : request[v].pc = "insert" =>
            request[v].hash \notin DOMAIN invoice
  BY DEF Consistent, RequestsAgree, RequestAgrees
<1>1. CASE UNCHANGED <<request, invoice>>
  BY <1>0, <1>1, RequestsFrame
<1>2. ASSUME NEW w \in DOMAIN request, Return(w),
             DOMAIN invoice' = DOMAIN invoice
      PROVE  RequestsAgree'
  BY <1>0, <1>2, RequestsFrame, ReturnType DEF Consistent
<1>3. ASSUME NEW w \in DOMAIN request, InsertInvoice(w)
      PROVE  RequestsAgree'
  <2>1. DOMAIN invoice' = DOMAIN invoice \cup {request[w].hash}
    BY <1>3 DEF InsertInvoice, Insert
  <2>2. \A v \in DOMAIN request \ {w} : request[v].pc = "insert" =>
            request[v].hash # request[w].hash
    BY <1>3 DEF Consistent, RequestsAgree, RequestAgrees, InsertInvoice
  <2>3. /\ DOMAIN request' = DOMAIN request \ {w}
        /\ \A v \in DOMAIN request' : request'[v] = request[v]
    BY <1>3, ReturnType DEF Consistent, InsertInvoice
  <2> QED
    BY <1>0, <2>1, <2>2, <2>3, RequestsFrame
<1>4. ASSUME NEW w \in Workers, NEW r, w \notin DOMAIN request,
             request' = Insert(request, w, r), UNCHANGED invoice,
             r.pc \in {"insert", "find"},
             r.pc = "insert" =>
                /\ r.inv \in Invoice /\ r.hash \in Hashes
                /\ r.inv.status = "Unpaid" /\ ~r.inv.internal
                /\ ~r.inv.duplicate
                /\ incoming[r.hash].state = "none"
                /\ incoming'[r.hash].state # "none"
      PROVE  RequestsAgree'
  <2>1. /\ DOMAIN request' = DOMAIN request \cup {w} /\ request'[w] = r
        /\ \A v \in DOMAIN request : request'[v] = request[v]
    BY <1>4 DEF Insert
  <2>2. r.pc = "insert" => r.hash \notin DOMAIN invoice
    BY <1>4 DEF Consistent, NodeAgrees
  <2>3. r.pc = "insert" => \A v \in DOMAIN request :
            request[v].pc = "insert" => request[v].hash # r.hash
    BY <1>4 DEF Consistent, RequestsAgree, RequestAgrees
  <2>4. \A v \in DOMAIN request : request[v].hash \in Hashes
    BY DEF Consistent, IsTable, Request
  <2>5. RequestAgrees(w)'
    BY <1>4, <2>1, <2>2, <2>3 DEF RequestAgrees
  <2>6. ASSUME NEW v \in DOMAIN request PROVE RequestAgrees(v)'
    <3>1. RequestAgrees(v) /\ v # w
      BY <1>4, <2>6 DEF Consistent, RequestsAgree
    <3> QED
      BY <1>4, <2>1, <2>3, <2>4, <2>6, <3>1, NodeStep DEF RequestAgrees, NodeForward
  <2> QED
    BY <2>1, <2>5, <2>6 DEF RequestsAgree
<1>5. ASSUME NEW w \in Workers, NEW u \in Users, NEW h \in Hashes,
             NEW payer \in Payers, CreateInvoice(w, u, h, payer)
      PROVE  RequestsAgree'
  <2> DEFINE r == [pc |-> "insert", user_id |-> u, hash |-> h,
                   inv |-> NewInvoice(u, h, payer), seen |-> 0,
                   payeeSeen |-> 0]
  <2>1. NewInvoice(u, h, payer) \in Invoice
    BY <1>5, InvoiceRow, InvoicesAssumption
  <2>2. incoming[h].state = "none" /\ incoming'[h].state # "none"
    BY <1>5 DEF CreateInvoice, Consistent, NodeType, Incoming
  <2>3. /\ r.pc = "insert" /\ r.inv \in Invoice /\ r.hash = h
        /\ r.inv.status = "Unpaid" /\ ~r.inv.internal /\ ~r.inv.duplicate
    BY <2>1 DEF NewInvoice
  <2>4. /\ w \notin DOMAIN request /\ request' = Insert(request, w, r)
        /\ UNCHANGED invoice
    BY <1>5 DEF CreateInvoice, store
  <2> HIDE DEF r
  <2> QED
    BY <1>4, <1>5, <2>2, <2>3, <2>4
<1>6. ASSUME NEW w \in Workers, NEW u \in Users, NEW h \in Hashes,
             BeginInternal(w, u, h)
      PROVE  RequestsAgree'
  <2> DEFINE r == [pc |-> "find", user_id |-> u, hash |-> h, inv |-> <<>>,
                   seen |-> user[u].balance, payeeSeen |-> 0]
  <2>1. r.pc = "find"
    OBVIOUS
  <2>2. /\ w \notin DOMAIN request /\ request' = Insert(request, w, r)
        /\ UNCHANGED invoice
    BY <1>6 DEF BeginInternal, store
  <2> HIDE DEF r
  <2> QED
    BY <1>4, <1>6, <2>1, <2>2
<1>7. ASSUME NEW w \in DOMAIN request, FindInvoice(w)
      PROVE  RequestsAgree'
  <2>1. UNCHANGED invoice
    BY <1>7 DEF FindInvoice, store
  <2>2. CASE Return(w)
    BY <1>2, <2>1, <2>2
  <2>3. CASE /\ request[w].hash \in DOMAIN invoice
             /\ request' = [request EXCEPT ![w].pc = "pay",
                    ![w].inv = invoice[request[w].hash],
                    ![w].payeeSeen =
                        user[invoice[request[w].hash].user_id].balance]
    <3> DEFINE r == [request[w] EXCEPT !.pc = "pay",
                        !.inv = invoice[request[w].hash],
                        !.payeeSeen =
                            user[invoice[request[w].hash].user_id].balance]
    <3>1. request[w] \in Request /\ invoice[request[w].hash] \in Invoice
      BY <2>3 DEF Consistent, IsTable, TablesOK
    <3>2. /\ r.pc = "pay" /\ r.hash = request[w].hash
          /\ r.inv = invoice[request[w].hash]
      BY <3>1 DEF Request
    <3>3. request' = [request EXCEPT ![w] = r]
      BY <2>3
    <3> HIDE DEF r
    <3>4. /\ DOMAIN request' = DOMAIN request /\ request'[w] = r
          /\ \A v \in DOMAIN request \ {w} : request'[v] = request[v]
      BY <3>3 DEF Consistent, IsTable
    <3>5. RequestAgrees(w)'
      BY <2>1, <2>3, <3>1, <3>2, <3>4 DEF RequestAgrees
    <3>6. \A v \in DOMAIN request : request[v].hash \in Hashes
      BY DEF Consistent, IsTable, Request
    <3>7. ASSUME NEW v \in DOMAIN request \ {w} PROVE RequestAgrees(v)'
      <4>1. RequestAgrees(v)
        BY <3>7 DEF Consistent, RequestsAgree
      <4> QED
        BY <2>1, <3>2, <3>4, <3>6, <3>7, <4>1, NodeStep
           DEF RequestAgrees, NodeForward
    <3> QED
      BY <3>4, <3>5, <3>7 DEF RequestsAgree
  <2> QED
    BY <1>7, <2>2, <2>3 DEF FindInvoice
<1>8. ASSUME NEW w \in DOMAIN request, PayInternal(w)
      PROVE  RequestsAgree'
  <2>1. ~\E v \in DOMAIN request : InsertInvoice(v)
    BY <1>8, ReturnType DEF PayInternal, InsertInvoice, Consistent
  <2>2. DOMAIN invoice' = DOMAIN invoice
    BY <2>1, StepForward
  <2> QED
    BY <1>2, <1>8, <2>2 DEF PayInternal
<1>9. CASE UNCHANGED request /\ DOMAIN invoice' = DOMAIN invoice
  BY <1>0, <1>9, RequestsFrame
<1> QED
  <2>1. CASE UNCHANGED vars
    BY <1>1, <2>1 DEF vars, invVars, store
  <2>2. CASE SweepTask \/ SweepFails
    <3>1. UNCHANGED request /\ \A w \in DOMAIN request : ~InsertInvoice(w)
      BY <2>2
         DEF SweepTask, SweepRead, SweepPage, SweepList, SweepListFails,
             SweepDone, SweepReadUser, SweepCancel, SweepCredit, SweepFails,
             InsertInvoice, Return, Consistent, IsTable
    <3> QED
      BY <1>9, <3>1, StepForward
  <2>3. ASSUME NEW w \in Workers, Handler(w) \/ Abandon(w)
        PROVE  RequestsAgree'
    BY <1>2, <1>3, <1>7, <1>8, <2>3 DEF Handler, Abandon, store
  <2>4. ASSUME NEW h \in Hashes,
               NodeReceives(h) \/ NodeCancels(h) \/ Expire(h) \/ LeaveWindow(h)
        PROVE  RequestsAgree'
    BY <1>1, <2>4 DEF NodeReceives, NodeCancels, Expire, LeaveWindow, store
  <2>5. CASE NodeForeign
    BY <1>1, <2>5 DEF NodeForeign, store
  <2>6. CASE Crash
    BY <2>6 DEF Crash, RequestsAgree
  <2> QED
    BY <1>5, <1>6, <2>1, <2>2, <2>3, <2>4, <2>5, <2>6 DEF Next

\* A snapshot row that was true is still true after any step.
LEMMA RowStaysTrue ==
    ASSUME NEW row, NEW old, NEW new, Later(old, new),
           row.status = "Paid" =>
                old.status = "Paid" /\ (old = row \/ old.duplicate)
    PROVE  row.status = "Paid" =>
                new.status = "Paid" /\ (new = row \/ new.duplicate)
  BY DEF Later

\* A step that keeps the snapshot, or drops items of it.
LEMMA SweepFrame ==
    ASSUME Consistent, [Next]_vars,
           DOMAIN sweep'.rows \subseteq DOMAIN sweep.rows,
           \A g \in DOMAIN sweep'.rows : sweep'.rows[g] = sweep.rows[g],
           \A g \in DOMAIN sweep'.listed :
                g \in Hashes /\ (sweep'.listed[g].state = "paid" =>
                    sweep'.listed[g] = incoming[g]),
           sweep'.pc \in {"items", "credit"} =>
                DOMAIN sweep'.listed = DOMAIN sweep'.rows,
           sweep'.pc = "credit" => sweep'.hash \in DOMAIN sweep'.rows
    PROVE  SweepAgrees'
<1>1. ASSUME NEW h \in DOMAIN sweep'.rows
      PROVE  /\ h \in DOMAIN invoice'
             /\ invoice'[h].user_id = sweep'.rows[h].user_id
             /\ sweep'.rows[h].status = "Paid" =>
                    /\ invoice'[h].status = "Paid"
                    /\ invoice'[h] = sweep'.rows[h] \/ invoice'[h].duplicate
  <2>1. h \in DOMAIN invoice /\ h \in DOMAIN invoice'
        /\ Later(invoice[h], invoice'[h])
    BY <1>1, StepForward DEF Consistent, SweepAgrees, Forward
  <2>2. /\ invoice[h].user_id = sweep.rows[h].user_id
        /\ sweep.rows[h].status = "Paid" =>
            invoice[h].status = "Paid"
                /\ (invoice[h] = sweep.rows[h] \/ invoice[h].duplicate)
    BY <1>1 DEF Consistent, SweepAgrees
  <2>3. invoice'[h].user_id = sweep'.rows[h].user_id
    BY <1>1, <2>1, <2>2 DEF Later
  <2> QED
    BY <1>1, <2>1, <2>2, <2>3, RowStaysTrue
<1>2. \A g \in DOMAIN sweep'.listed :
            sweep'.listed[g].state = "paid" => sweep'.listed[g] = incoming'[g]
  BY NodeStep DEF NodeForward
<1> QED
  BY <1>1, <1>2 DEF SweepAgrees

\* Every step keeps the task in agreement: its snapshot is old, but what it
\* will do with a paid invoice is still right.
LEMMA StepSweepAgrees ==
    ASSUME Consistent, [Next]_vars
    PROVE  SweepAgrees'
<1> USE TypeParts
<1>0. \A g \in DOMAIN sweep.listed : g \in Hashes
  BY DEF Consistent, SweepType, IsTable
<1>1. CASE UNCHANGED sweep
  BY <1>0, <1>1, SweepFrame DEF Consistent, SweepAgrees
<1>2. CASE sweep' = Idle
  BY <1>2 DEF Idle, SweepAgrees
<1>3. ASSUME NEW h, sweep' = Rest(h), sweep.pc \in {"items", "credit"}
      PROVE  SweepAgrees'
  <2>1. /\ sweep'.pc = "items"
        /\ DOMAIN sweep'.rows = DOMAIN sweep.rows \ {h}
        /\ DOMAIN sweep'.listed = DOMAIN sweep.listed \ {h}
        /\ \A g \in DOMAIN sweep'.rows : sweep'.rows[g] = sweep.rows[g]
        /\ \A g \in DOMAIN sweep'.listed : sweep'.listed[g] = sweep.listed[g]
    BY <1>3, RestSweep DEF Consistent
  <2>2. /\ DOMAIN sweep.listed = DOMAIN sweep.rows
        /\ \A g \in DOMAIN sweep.listed :
                sweep.listed[g].state = "paid" => sweep.listed[g] = incoming[g]
    BY <1>3 DEF Consistent, SweepAgrees
  <2> QED
    BY <1>0, <2>1, <2>2, SweepFrame
<1>4. CASE SweepRead
  <2>1. CASE UNCHANGED sweep
    BY <1>1, <2>1
  <2>2. ASSUME NEW first \in Window,
               sweep' = [pc |-> "list", rows |-> [h \in Window |-> invoice[h]],
                         listed |-> <<>>, start |-> Index[first],
                         hash |-> "none", seen |-> 0]
        PROVE  SweepAgrees'
    <3>1. /\ sweep'.pc = "list" /\ sweep'.listed = <<>>
          /\ sweep'.rows = [h \in Window |-> invoice[h]]
      BY <2>2
    <3>2. invoice' = invoice
      BY <1>4 DEF SweepRead, store
    <3>3. Window \subseteq DOMAIN invoice
      BY DEF Window
    <3> QED
      BY <3>1, <3>2, <3>3 DEF SweepAgrees
  <2> QED
    BY <1>4, <2>1, <2>2 DEF SweepRead
<1>5. \A h \in DOMAIN Listed :
            h \in Hashes /\ (Listed[h].state = "paid" => Listed[h] = incoming[h])
  BY ListedType DEF Consistent, IsTable, SweepAgrees
<1>6. CASE SweepPage
  <2>1. PICK last \in Page :
            sweep' = [sweep EXCEPT !.listed = Listed, !.start = last]
    BY <1>6 DEF SweepPage
  <2>2. sweep.pc = "list"
    BY <1>6 DEF SweepPage
  <2>3. sweep'.rows = sweep.rows /\ sweep'.listed = Listed /\ sweep'.pc = "list"
    BY <2>1, <2>2 DEF Consistent, SweepType, Sweep
  <2> QED
    BY <1>5, <2>3, SweepFrame
<1>7. CASE SweepList
  <2>1. PICK todo \in SUBSET (DOMAIN sweep.rows \cap DOMAIN Listed) :
            sweep' = Items([h \in todo |-> sweep.rows[h]],
                           [h \in todo |-> Listed[h]])
    BY <1>7 DEF SweepList
  <2>2. /\ sweep'.pc = "items"
        /\ sweep'.rows = [h \in todo |-> sweep.rows[h]]
        /\ sweep'.listed = [h \in todo |-> Listed[h]]
    BY <2>1, ItemsSweep
  <2> QED
    BY <1>5, <2>2, SweepFrame
<1>8. ASSUME NEW h \in Hashes, SweepReadUser(h)
      PROVE  SweepAgrees'
  <2>1. /\ sweep'.pc = "credit" /\ sweep'.rows = sweep.rows
        /\ sweep'.listed = sweep.listed /\ sweep'.hash = h
    BY <1>8 DEF SweepReadUser, Consistent, SweepType, Sweep
  <2> QED
    BY <1>0, <1>8, <2>1, SweepFrame DEF SweepReadUser, Consistent, SweepAgrees
<1> QED
  <2>1. CASE SweepTask
    BY <1>2, <1>3, <1>4, <1>6, <1>7, <1>8, <2>1
       DEF SweepTask, SweepListFails, SweepCredit, SweepDone, SweepCancel
  <2>2. CASE SweepFails
    BY <1>2, <1>3, <2>2 DEF SweepFails
  <2>3. ASSUME NEW w \in Workers, Handler(w) \/ Abandon(w)
        PROVE  UNCHANGED sweep
    BY <2>3 DEF Handler, Abandon, InsertInvoice, FindInvoice, PayInternal
  <2>4. ASSUME NEW w \in Workers, NEW u \in Users, NEW h \in Hashes,
               \/ \E payer \in Payers : CreateInvoice(w, u, h, payer)
               \/ BeginInternal(w, u, h)
        PROVE  UNCHANGED sweep
    BY <2>4 DEF CreateInvoice, BeginInternal
  <2>5. ASSUME NEW h \in Hashes,
               NodeReceives(h) \/ NodeCancels(h) \/ Expire(h) \/ LeaveWindow(h)
        PROVE  UNCHANGED sweep
    BY <2>5 DEF NodeReceives, NodeCancels, Expire, LeaveWindow
  <2>6. CASE NodeForeign \/ Crash \/ UNCHANGED vars
    BY <1>1, <1>2, <2>6 DEF NodeForeign, Crash, vars, invVars
  <2> QED
    BY <1>1, <2>1, <2>2, <2>3, <2>4, <2>5, <2>6 DEF Next

----------------------------------------------------------------------------
(* What the tables say of an invoice.                                      *)

\* What the statements credit is for an invoice in S, or an adjustment.
CreditsWithin(rows, S) ==
    \A v \in Users : \A i \in DOMAIN rows[v] :
        rows[v][i].change > 0 => rows[v][i].hash \in S \cup {"admin"}

LEMMA NewRecordWithin ==
    ASSUME NEW rows \in [Users -> Seq(Record)], NEW S, CreditsWithin(rows, S),
           NEW u \in Users, NEW seen \in Int, NEW change \in Int,
           NEW h \in Hashes, h \in S \/ change <= 0,
           NEW source \in {"admin", "external_payment", "internal_payment",
                           "duplicate_payment"}
    PROVE  CreditsWithin(NewRecord(rows, u, seen, change, h, source), S)
<1> DEFINE row == [balance |-> seen, change |-> change, hash |-> h,
                   source |-> source]
           new == NewRecord(rows, u, seen, change, h, source)
<1>1. row \in Record /\ row.change = change /\ row.hash = h
  BY DEF Record
<1>2. \A v \in Users : new[v] = IF v = u THEN Append(rows[v], row) ELSE rows[v]
  BY DEF NewRecord
<1> HIDE DEF row, new
<1>3. ASSUME NEW v \in Users, NEW i \in DOMAIN new[v], new[v][i].change > 0
      PROVE  new[v][i].hash \in S \cup {"admin"}
  <2>1. rows[v] \in Seq(Record)
    OBVIOUS
  <2>2. CASE new[v][i] = row
    BY <1>1, <1>3, <2>2
  <2>3. CASE i \in DOMAIN rows[v] /\ new[v][i] = rows[v][i]
    BY <1>3, <2>3 DEF CreditsWithin
  <2>4. \/ new[v][i] = row
        \/ i \in DOMAIN rows[v] /\ new[v][i] = rows[v][i]
    <3> DEFINE old == rows[v]
    <3>1. old \in Seq(Record) /\ rows[v] = old
      BY <2>1
    <3> HIDE DEF old
    <3>2. \A j \in DOMAIN Append(old, row) :
            \/ Append(old, row)[j] = row
            \/ j \in DOMAIN old /\ Append(old, row)[j] = old[j]
      BY <1>1, <3>1
    <3> QED
      BY <1>2, <1>3, <3>1, <3>2
  <2> QED
    BY <2>2, <2>3, <2>4
<1> QED
  BY <1>3 DEF CreditsWithin, new

\* Who pays an invoice writes the donation and the records of that one.
LEMMA PaysWithin ==
    ASSUME TypeOK, NEW h \in DOMAIN invoice, NEW model \in Invoice,
           NEW seen \in Int, Pays(h, model, seen),
           CreditsWithin(record, DOMAIN invoice)
    PROVE  /\ DOMAIN donation' \subseteq DOMAIN donation \cup {h}
           /\ CreditsWithin(record', DOMAIN invoice)
<1>1. /\ h \in Hashes /\ model.user_id \in Users
      /\ record \in [Users -> Seq(Record)]
      /\ Amount[h] \in Int /\ incoming[h].paid_amount \in Int
  <2>1. TablesOK /\ NodeType
    BY TypeParts
  <2>2. h \in Hashes /\ record \in [Users -> Seq(Record)]
    BY <2>1 DEF TablesOK, IsTable
  <2>3. model.user_id \in Users
    BY DEF Invoice
  <2>4. incoming[h].paid_amount \in Int
    BY <2>1, <2>2 DEF NodeType, Incoming
  <2> QED
    BY <2>2, <2>3, <2>4, FeesAreNat
<1>2. ASSUME NEW u \in Users, NEW payeeSeen \in Int,
             InternalPay(u, h, model, seen, payeeSeen)
      PROVE  /\ DOMAIN donation' \subseteq DOMAIN donation \cup {h}
             /\ CreditsWithin(record', DOMAIN invoice)
  <2> DEFINE cost    == -InternalTotal(h)
             debited == NewRecord(record, u, seen, cost, h, "internal_payment")
  <2>1. cost \in Int /\ cost <= 0
    BY <1>1, TotalsArePositive
  <2>2. record' = NewRecord(debited, model.user_id, payeeSeen, Amount[h], h,
                            "internal_payment")
    BY <1>2 DEF InternalPay
  <2>3. debited = NewRecord(record, u, seen, cost, h, "internal_payment")
    OBVIOUS
  <2> HIDE DEF cost, debited
  <2>4. debited \in [Users -> Seq(Record)] /\ CreditsWithin(debited, DOMAIN invoice)
    BY <1>1, <2>1, <2>3, NewRecordType, NewRecordWithin
  <2>5. CreditsWithin(record', DOMAIN invoice)
    BY <1>1, <2>2, <2>4, NewRecordWithin
  <2> QED
    BY <1>2, <2>5 DEF InternalPay, SyncDonation, Insert
<1>3. ASSUME \/ InvoicePaid(h, model, incoming[h].paid_amount, seen)
             \/ InvoiceDupPaid(h, model, incoming[h].paid_amount, seen)
      PROVE  /\ DOMAIN donation' \subseteq DOMAIN donation \cup {h}
             /\ CreditsWithin(record', DOMAIN invoice)
  <2>1. CreditsWithin(record', DOMAIN invoice)
    BY <1>1, <1>3, NewRecordWithin DEF InvoicePaid, InvoiceDupPaid
  <2> QED
    BY <1>3, <2>1 DEF InvoicePaid, InvoiceDupPaid, SyncDonation, Insert
<1> QED
  BY <1>2, <1>3 DEF Pays

\* The conjuncts of InvoicesAgree.
LEMMA InvoicesAgreeParts ==
    /\ InvoicesAgree <=>
        /\ \A h \in DOMAIN invoice : invoice[h].internal \/ invoice[h].duplicate
                                        => invoice[h].status = "Paid"
        /\ \A h \in DOMAIN donation :
                h \in DOMAIN invoice /\ invoice[h].status = "Paid"
        /\ CreditsWithin(record, DOMAIN invoice)
    /\ InvoicesAgree' <=>
        /\ \A h \in DOMAIN invoice' : invoice'[h].internal \/ invoice'[h].duplicate
                                        => invoice'[h].status = "Paid"
        /\ \A h \in DOMAIN donation' :
                h \in DOMAIN invoice' /\ invoice'[h].status = "Paid"
        /\ CreditsWithin(record', DOMAIN invoice')
  BY DEF InvoicesAgree, CreditsWithin

\* Every step keeps what the tables say of an invoice.
LEMMA StepInvoicesAgree ==
    ASSUME Consistent, [Next]_vars
    PROVE  InvoicesAgree'
<1> USE InvoicesAgreeParts
<1>1. CASE UNCHANGED store
  BY <1>1 DEF Consistent, store
<1>2. ASSUME NEW w \in DOMAIN request, InsertInvoice(w)
      PROVE  InvoicesAgree'
  <2>1. UNCHANGED <<donation, record>>
    BY <1>2 DEF InsertInvoice
  <2>2. PICK h : /\ h \notin DOMAIN invoice
                 /\ DOMAIN invoice' = DOMAIN invoice \cup {h}
                 /\ \A g \in DOMAIN invoice : invoice'[g] = invoice[g]
                 /\ ~invoice'[h].internal /\ ~invoice'[h].duplicate
    BY <1>2, InsertRow DEF Consistent
  <2>3. CreditsWithin(record', DOMAIN invoice')
    BY <2>1, <2>2 DEF Consistent, CreditsWithin
  <2> QED
    BY <2>1, <2>2, <2>3 DEF Consistent
<1>3. ASSUME NEW h \in DOMAIN invoice, CancelInvoice(h)
      PROVE  InvoicesAgree'
  <2>1. UNCHANGED <<donation, record>>
    BY <1>3 DEF CancelInvoice
  <2> QED
    BY <1>3, <2>1, CancelRow, TypeParts DEF Consistent, OnlyRow
<1>4. ASSUME NEW h \in DOMAIN invoice, NEW model \in Invoice, NEW seen \in Int,
             model.user_id = invoice[h].user_id, Pays(h, model, seen)
      PROVE  InvoicesAgree'
  <2>1. OnlyRow(h)
    BY <1>4, PaysOnce DEF Consistent
  <2>2. PICK amount \in Nat : BecomesPaid(h, amount)
    BY <1>4, PaysOnce DEF Consistent
  <2>3. invoice'[h].status = "Paid"
    BY <2>2 DEF BecomesPaid
  <2>4. /\ DOMAIN donation' \subseteq DOMAIN donation \cup {h}
        /\ CreditsWithin(record', DOMAIN invoice)
    BY <1>4, PaysWithin DEF Consistent
  <2> QED
    BY <2>1, <2>3, <2>4 DEF Consistent, OnlyRow
<1> QED
  BY <1>1, <1>2, <1>3, <1>4, StepTransacts DEF Transacts

\* The transactions over invoices keep the ledger of the payments, ...
LEMMA StepLedger ==
    ASSUME Consistent, [Next]_vars
    PROVE  Ledger'
<1>1. CASE UNCHANGED <<user, payment>>
  BY <1>1, LedgerFrame DEF Consistent
<1>2. ASSUME NEW h \in DOMAIN invoice, NEW model \in Invoice, NEW seen \in Int,
             Pays(h, model, seen)
      PROVE  Ledger'
  <2>1. h \in Hashes /\ TablesOK /\ Ledger /\ incoming[h].paid_amount \in Nat
    BY TypeParts DEF Consistent, TablesOK, IsTable, NodeType, Incoming
  <2> QED
    BY <1>2, <2>1, InternalPayLedger, InvoicePaidLedger DEF Pays
<1> QED
  BY <1>1, <1>2, StepTransacts
     DEF Transacts, store, InsertInvoice, CancelInvoice

\* ... and every statement true.
LEMMA StepExplained ==
    ASSUME Consistent, Explained, [Next]_vars
    PROVE  Explained'
<1>1. CASE UNCHANGED <<user, record>>
  BY <1>1, ExplainedFrame
<1>2. ASSUME NEW h \in DOMAIN invoice, NEW model \in Invoice, NEW seen \in Int,
             Pays(h, model, seen)
      PROVE  Explained'
  <2>1. h \in Hashes /\ TablesOK /\ incoming[h].paid_amount \in Nat
    BY TypeParts DEF Consistent, TablesOK, IsTable, NodeType, Incoming
  <2> QED
    BY <1>2, <2>1, CreditsExplained DEF Pays
<1> QED
  BY <1>1, <1>2, StepTransacts
     DEF Transacts, store, InsertInvoice, CancelInvoice

----------------------------------------------------------------------------
(* What an invoice is credited, and what is donated.                       *)

\* What has been paid for an invoice, by an account and over the network.
Internal(h) == IF invoice[h].internal THEN Amount[h] ELSE 0

External(h) == IF Received(h) THEN incoming[h].paid_amount ELSE 0

CreditOf(rows, u, h) == SumOf(Credits(rows[u], h))

\* CreditedWhatWasPaid, of one invoice.
CreditedFor(h) ==
    /\ CreditOf(record, invoice[h].user_id, h) = Internal(h) + External(h)
    /\ invoice[h].status = "Paid" =>
            invoice[h].paid_amount = Internal(h) + External(h)
    /\ External(h) > 0 => incoming[h].state = "paid"

LEMMA CreditedParts ==
    /\ CreditedWhatWasPaid <=> \A h \in DOMAIN invoice : CreditedFor(h)
    /\ CreditedWhatWasPaid' <=> \A h \in DOMAIN invoice' : CreditedFor(h)'
<1>1. CreditedWhatWasPaid <=> \A h \in DOMAIN invoice : CreditedFor(h)
  BY DEF CreditedWhatWasPaid, CreditedFor, Credited, CreditOf, Internal, External
<1>2. CreditedWhatWasPaid' <=> \A h \in DOMAIN invoice' : CreditedFor(h)'
  BY DEF CreditedWhatWasPaid, CreditedFor, Credited, CreditOf, Internal, External
<1> QED
  BY <1>1, <1>2

\* What the node has received stays as it was received.
LEMMA ReceivedStays ==
    ASSUME Consistent, [Next]_vars, NEW h \in DOMAIN invoice
    PROVE  /\ h \in Hashes /\ Amount[h] \in Nat
           /\ invoice[h].user_id \in Users /\ invoice[h].paid_amount \in Nat
           /\ incoming[h].paid_amount \in Nat
           /\ Internal(h) \in Nat /\ External(h) \in Nat
           /\ incoming[h].state = "paid" => incoming'[h] = incoming[h]
           /\ Received(h) => incoming[h].state = "paid"
<1>1. /\ h \in Hashes /\ invoice[h] \in Invoice /\ incoming[h] \in Incoming
  BY TypeParts DEF Consistent, TablesOK, IsTable, NodeType
<1>2. Amount[h] \in Nat
  BY <1>1, FeesAreNat
<1>3. /\ invoice[h].user_id \in Users /\ invoice[h].paid_amount \in Nat
      /\ incoming[h].paid_amount \in Nat
  BY <1>1 DEF Invoice, Incoming
<1> QED
  BY <1>1, <1>2, <1>3, NodeStep
     DEF NodeForward, Consistent, NodeAgrees, Internal, External

\* A step that does not pay an invoice does not change what it is credited.
LEMMA CreditedFrame ==
    ASSUME Consistent, [Next]_vars, NEW h \in DOMAIN invoice, CreditedFor(h),
           CreditOf(record', invoice[h].user_id, h)
                = CreditOf(record, invoice[h].user_id, h),
           invoice'[h].user_id = invoice[h].user_id,
           \/ invoice'[h] = invoice[h]
           \/ /\ invoice'[h].status # "Paid" /\ invoice[h].status # "Paid"
              /\ invoice'[h].internal = invoice[h].internal
    PROVE  CreditedFor(h)'
<1>1. /\ incoming[h].state = "paid" => incoming'[h] = incoming[h]
      /\ Received(h) => incoming[h].state = "paid"
  BY ReceivedStays
<1>2. /\ Received(h)' <=> Received(h)
      /\ invoice'[h].status = "Paid" =>
            /\ invoice[h].status = "Paid"
            /\ invoice'[h].paid_amount = invoice[h].paid_amount
      /\ invoice'[h].internal = invoice[h].internal
  BY DEF Received
<1>3. Internal(h)' = Internal(h) /\ External(h)' = External(h)
  BY <1>1, <1>2 DEF Internal, External
<1> QED
  BY <1>1, <1>2, <1>3 DEF CreditedFor, External

\* One that does credits what was paid.
LEMMA CreditedPaid ==
    ASSUME Consistent, [Next]_vars, NEW h \in DOMAIN invoice, CreditedFor(h),
           NEW amount \in Nat, BecomesPaid(h, amount),
           CreditOf(record', invoice[h].user_id, h)
                = CreditOf(record, invoice[h].user_id, h) + amount
    PROVE  CreditedFor(h)'
<1>1. /\ Amount[h] \in Nat /\ invoice[h].paid_amount \in Nat
      /\ incoming[h].paid_amount \in Nat
      /\ incoming[h].state = "paid" => incoming'[h] = incoming[h]
      /\ Internal(h) \in Nat /\ External(h) \in Nat
  BY ReceivedStays
<1>2. invoice[h].internal \/ invoice[h].duplicate => invoice[h].status = "Paid"
  BY DEF Consistent, InvoicesAgree
<1>3. /\ invoice'[h].user_id = invoice[h].user_id /\ invoice'[h].status = "Paid"
      /\ \/ /\ Internal(h) + External(h) = 0
            /\ Internal(h)' + External(h)' = amount
            /\ invoice'[h].paid_amount = amount
         \/ /\ invoice[h].status = "Paid"
            /\ Internal(h)' + External(h)' = Internal(h) + External(h) + amount
            /\ invoice'[h].paid_amount = amount + invoice[h].paid_amount
      /\ External(h)' > 0 => incoming'[h].state = "paid"
  <2>1. /\ invoice'[h].user_id = invoice[h].user_id
        /\ invoice'[h].status = "Paid"
    BY DEF BecomesPaid
  <2>2. CASE /\ invoice[h].status = "Unpaid" /\ invoice'[h].internal
             /\ ~invoice'[h].duplicate
             /\ amount = Amount[h] /\ invoice'[h].paid_amount = amount
    BY <1>1, <1>2, <2>1, <2>2 DEF Internal, External, Received
  <2>3. CASE /\ incoming[h].state = "paid" /\ amount = incoming[h].paid_amount
             /\ invoice[h].status = "Unpaid" /\ ~invoice'[h].internal
             /\ invoice'[h].paid_amount = amount
    BY <1>1, <1>2, <2>1, <2>3 DEF Internal, External, Received
  <2>4. CASE /\ incoming[h].state = "paid" /\ amount = incoming[h].paid_amount
             /\ invoice[h].status = "Paid" /\ invoice[h].internal
             /\ ~invoice[h].duplicate
             /\ invoice'[h].internal /\ invoice'[h].duplicate
             /\ invoice'[h].paid_amount = amount + invoice[h].paid_amount
    BY <1>1, <2>1, <2>4 DEF Internal, External, Received
  <2> QED
    BY <2>1, <2>2, <2>3, <2>4 DEF BecomesPaid
<1>4. CreditOf(record', invoice'[h].user_id, h) = Internal(h) + External(h) + amount
  BY <1>3 DEF CreditedFor
<1> QED
  BY <1>1, <1>3, <1>4 DEF CreditedFor

\* No statement credits an invoice that is not stored.
LEMMA NotCredited ==
    ASSUME Consistent, NEW u \in Users, NEW h \in Hashes \ DOMAIN invoice
    PROVE  CreditOf(record, u, h) = 0
<1> DEFINE rows    == record[u]
           credits == Credits(rows, h)
<1>1. rows \in Seq(Record)
  BY TypeParts DEF Consistent, TablesOK
<1>2. /\ \A i \in DOMAIN rows : rows[i].change \in Int
      /\ \A i \in DOMAIN rows : rows[i].change > 0 => rows[i].hash # h
  <2>1. \A i \in DOMAIN rows : rows[i] \in Record
    BY <1>1
  <2>2. \A i \in DOMAIN rows : rows[i].change \in Int
    BY <2>1 DEF Record
  <2>3. h # "admin"
    BY StoreAssumption
  <2> QED
    BY <2>2, <2>3, InvoicesAgreeParts DEF Consistent, CreditsWithin
<1> HIDE DEF rows
<1>3. \A i \in DOMAIN credits : credits[i] \in Int /\ ~(credits[i] > 0)
  BY <1>2 DEF Credits
<1> HIDE DEF credits
<1>4. \A i \in DOMAIN credits : 1..credits[i] = {}
  BY <1>3
<1>5. Msats(credits) = {}
  BY <1>4, MsatsMember
<1> QED
  BY <1>5, FS_EmptySet DEF SumOf, CreditOf, credits, rows

\* Every step credits what it should.
LEMMA StepCredited ==
    ASSUME Consistent, CreditedWhatWasPaid, [Next]_vars
    PROVE  CreditedWhatWasPaid'
<1> USE CreditedParts
<1>2. CASE UNCHANGED store
  <2>1. UNCHANGED <<invoice, record>>
    BY <1>2 DEF store
  <2> QED
    BY <2>1, CreditedFrame
<1>3. ASSUME NEW w \in DOMAIN request, InsertInvoice(w)
      PROVE  CreditedWhatWasPaid'
  <2>1. PICK h :
            /\ h \notin DOMAIN invoice /\ DOMAIN invoice' = DOMAIN invoice \cup {h}
            /\ \A g \in DOMAIN invoice : invoice'[g] = invoice[g]
            /\ invoice'[h].status = "Unpaid" /\ ~invoice'[h].internal
    BY <1>3, InsertRow DEF Consistent
  <2>2. invoice'[h].user_id \in Users /\ h \in Hashes
    BY <2>1, StepType, TypeParts DEF TablesOK, IsTable, Invoice
  <2>3. UNCHANGED record
    BY <1>3 DEF InsertInvoice
  <2>4. CreditedFor(h)'
    <3>1. CreditOf(record', invoice'[h].user_id, h)
            = CreditOf(record, invoice'[h].user_id, h)
      BY <2>3
    <3>2. CreditOf(record, invoice'[h].user_id, h) = 0
      BY <2>1, <2>2, NotCredited
    <3>3. Internal(h)' = 0 /\ External(h)' = 0
      BY <2>1 DEF Internal, External, Received
    <3> QED
      BY <2>1, <3>1, <3>2, <3>3 DEF CreditedFor
  <2>5. \A g \in DOMAIN invoice : CreditedFor(g)'
    BY <2>1, <2>3, CreditedFrame
  <2> QED
    BY <2>1, <2>4, <2>5
<1>4. ASSUME NEW h \in DOMAIN invoice, CancelInvoice(h)
      PROVE  CreditedWhatWasPaid'
  <2>1. UNCHANGED record
    BY <1>4 DEF CancelInvoice
  <2>2. /\ DOMAIN invoice' = DOMAIN invoice
        /\ \A g \in DOMAIN invoice :
            /\ invoice'[g].user_id = invoice[g].user_id
            /\ \/ invoice'[g] = invoice[g]
               \/ /\ invoice'[g].status # "Paid" /\ invoice[g].status # "Paid"
                  /\ invoice'[g].internal = invoice[g].internal
    BY <1>4, CancelRow, TypeParts DEF Consistent, OnlyRow
  <2> QED
    BY <2>1, <2>2, CreditedFrame
<1>5. ASSUME NEW h \in DOMAIN invoice, NEW model \in Invoice, NEW seen \in Int,
             model.user_id = invoice[h].user_id, Pays(h, model, seen)
      PROVE  CreditedWhatWasPaid'
  <2>1. OnlyRow(h)
    BY <1>5, PaysOnce DEF Consistent
  <2>2. PICK amount \in Nat :
            /\ BecomesPaid(h, amount)
            /\ CreditsOnly(record, record', h, invoice[h].user_id, amount)
    BY <1>5, PaysOnce DEF Consistent
  <2>3. \A v \in Users, g \in Hashes :
            CreditOf(record', v, g) = CreditOf(record, v, g)
                + IF v = invoice[h].user_id /\ g = h THEN amount ELSE 0
    BY <2>2 DEF CreditsOnly, CreditOf
  <2>4. CreditedFor(h)'
    <3>1. h \in Hashes /\ invoice[h].user_id \in Users
      BY ReceivedStays
    <3> QED
      BY <2>2, <2>3, <3>1, CreditedPaid
  <2>5. ASSUME NEW g \in DOMAIN invoice \ {h} PROVE CreditedFor(g)'
    <3>1. g \in Hashes /\ invoice[g].user_id \in Users
      BY ReceivedStays
    <3>2. CreditOf(record, invoice[g].user_id, g) \in Nat
      BY <3>1, CreditsAreNat, TypeParts DEF Consistent, TablesOK, CreditOf
    <3>3. CreditOf(record', invoice[g].user_id, g)
                = CreditOf(record, invoice[g].user_id, g)
      BY <2>3, <3>1, <3>2
    <3> QED
      BY <2>1, <3>3, CreditedFrame DEF OnlyRow
  <2> QED
    BY <2>1, <2>4, <2>5 DEF OnlyRow
<1> QED
  BY <1>2, <1>3, <1>4, <1>5, StepTransacts DEF Transacts

\* sync_donation adds a donation to those of its donor.
LEMMA DonationAdded ==
    ASSUME TablesOK, NEW h \in Hashes, h \notin DOMAIN donation,
           NEW model \in Invoice, NEW payer \in Users \cup {"none"},
           NEW users, SyncDonation(users, h, model, payer), NEW v \in Users
    PROVE  SumOf(Donations(v))' = SumOf(Donations(v)) + Gift(model, payer, v)
<1> DEFINE donor  == Donor(model, payer)
           amount == model.paid_amount
           old    == Donations(v)
           new    == Donations(v)'
<1>1. amount \in Nat /\ Positive(amount) = amount
  BY DEF Invoice, Positive
<1>2. /\ DOMAIN old = {g \in DOMAIN donation : donation[g].user_id = v}
      /\ \A g \in DOMAIN old : old[g] = donation[g].amount
      /\ DOMAIN new = {g \in DOMAIN donation' : donation'[g].user_id = v}
      /\ \A g \in DOMAIN new : new[g] = donation'[g].amount
  BY DEF Donations
<1>3. /\ IsFiniteSet(DOMAIN old)
      /\ \A g \in DOMAIN old : old[g] \in Int
  <2>1. DOMAIN old \subseteq Hashes
    BY <1>2 DEF TablesOK, IsTable
  <2>2. IsFiniteSet(DOMAIN old)
    BY <2>1, StoreAssumption, FS_Subset
  <2>3. \A g \in DOMAIN donation : donation[g].amount \in Int
    BY DEF TablesOK, IsTable, Donation
  <2> QED
    BY <1>2, <2>2, <2>3
<1>4. SumOf(old) \in Nat
  BY <1>3, SumIsNat
<1>5. \/ donor = "none" /\ UNCHANGED donation
      \/ /\ donor # "none"
         /\ donation' = Insert(donation, h, [user_id |-> donor, amount |-> amount])
  BY DEF SyncDonation
<1>6. Gift(model, payer, v) = IF donor # "none" /\ v = donor THEN amount ELSE 0
  BY DEF Gift
<1> HIDE DEF donor, amount, old, new
<1>7. CASE ~(donor # "none" /\ v = donor)
  <2>1. DOMAIN new = DOMAIN old /\ \A g \in DOMAIN old : new[g] = old[g]
    BY <1>2, <1>5, <1>7 DEF Insert
  <2>2. SumOf(new) = SumOf(old)
    BY <2>1, SumOfSame
  <2> QED
    BY <1>4, <1>6, <1>7, <2>2 DEF old, new
<1>8. CASE donor # "none" /\ v = donor
  <2>1. /\ h \notin DOMAIN old /\ DOMAIN new = DOMAIN old \cup {h}
        /\ \A g \in DOMAIN old : old[g] \in Int /\ new[g] = old[g]
        /\ new[h] = amount /\ new[h] \in Int
    BY <1>1, <1>2, <1>3, <1>5, <1>8 DEF Insert
  <2>2. SumOf(new) = SumOf(old) + Positive(new[h])
    BY <1>3, <2>1, SumOfAdded
  <2> QED
    BY <1>1, <1>6, <1>8, <2>1, <2>2 DEF old, new
<1> QED
  BY <1>7, <1>8

\* Every step counts the donations it stores.
LEMMA StepDonated ==
    ASSUME Consistent, DonatedIsSum, [Next]_vars
    PROVE  DonatedIsSum'
<1>1. CASE UNCHANGED <<user, donation>>
  BY <1>1 DEF DonatedIsSum, Donations
<1>2. ASSUME NEW h \in DOMAIN invoice, NEW model \in Invoice, NEW seen \in Int,
             Pays(h, model, seen), NEW v \in Users
      PROVE  user'[v].donate_amount = SumOf(Donations(v))'
  <2>1. h \in Hashes /\ TablesOK /\ incoming[h].paid_amount \in Nat
    BY TypeParts DEF Consistent, TablesOK, IsTable, NodeType, Incoming
  <2>2. user[v].donate_amount = SumOf(Donations(v))
    BY DEF DonatedIsSum
  <2>3. invoice[h].status = "Unpaid" => h \notin DOMAIN donation
    BY DEF Consistent, InvoicesAgree
  <2>4. ASSUME NEW u \in Users, NEW payeeSeen \in Int, InternalPayMatches(u, h),
               InternalPay(u, h, model, seen, payeeSeen)
        PROVE  user'[v].donate_amount = SumOf(Donations(v))'
    <3>1. PICK users : SyncDonation(users, h, model, u)
      BY <2>4 DEF InternalPay
    <3>2. user'[v].donate_amount = user[v].donate_amount + Gift(model, u, v)
      BY <2>1, <2>4, InternalPayAccounts
    <3>3. SumOf(Donations(v))' = SumOf(Donations(v)) + Gift(model, u, v)
      BY <2>1, <2>3, <2>4, <3>1, DonationAdded DEF InternalPayMatches
    <3> QED
      BY <2>2, <3>2, <3>3
  <2>5. ASSUME InvoicePaidMatches(h),
               InvoicePaid(h, model, incoming[h].paid_amount, seen)
        PROVE  user'[v].donate_amount = SumOf(Donations(v))'
    <3>1. PICK users : SyncDonation(users, h, model, "none")
      BY <2>5 DEF InvoicePaid
    <3>2. user'[v].donate_amount = user[v].donate_amount + Gift(model, "none", v)
      BY <2>1, <2>5, InvoicePaidAccounts
    <3>3. SumOf(Donations(v))' = SumOf(Donations(v)) + Gift(model, "none", v)
      BY <2>1, <2>3, <2>5, <3>1, DonationAdded DEF InvoicePaidMatches
    <3> QED
      BY <2>2, <3>2, <3>3
  <2>6. ASSUME InvoiceDupPaid(h, model, incoming[h].paid_amount, seen)
        PROVE  user'[v].donate_amount = SumOf(Donations(v))'
    <3>1. user'[v].donate_amount = user[v].donate_amount
      BY <2>1, <2>6, InvoiceDupPaidAccounts
    <3>2. UNCHANGED donation
      BY <2>6 DEF InvoiceDupPaid
    <3> QED
      BY <2>2, <3>1, <3>2 DEF Donations
  <2> QED
    BY <1>2, <2>4, <2>5, <2>6 DEF Pays
<1> QED
  BY <1>1, <1>2, StepTransacts
     DEF Transacts, store, InsertInvoice, CancelInvoice, DonatedIsSum

----------------------------------------------------------------------------
(* The theorems.                                                           *)

\* The program starts consistent.
LEMMA InitConsistent == Init => Consistent
<1> SUFFICES ASSUME Init PROVE Consistent
  OBVIOUS
<1>1. StoreTypeOK
  BY StoreInitType DEF Init
<1>2. SweepType
  <2>1. /\ Idle.rows = <<>> /\ Idle.listed = <<>> /\ Idle \in Sweep(<<>>, <<>>)
    BY DEF Idle, Sweep
  <2> QED
    BY <2>1, EmptyTable DEF Init, SweepType
<1>3. NodeType
  <2>1. [state |-> "none", paid_amount |-> 0] \in Incoming
    BY DEF Incoming
  <2>2. 0 \in 0..Passes
    BY InvoicesAssumption
  <2> QED
    BY <2>1, <2>2 DEF Init, NodeType, Age
<1>4. TypeOK
  BY <1>1, <1>2, <1>3, EmptyTable, TypeParts DEF Init, StoreTypeOK
<1>5. RequestsAgree /\ SweepAgrees /\ NodeAgrees
  BY EmptyTable DEF Init, StoreInit, RequestsAgree, SweepAgrees, NodeAgrees, Idle
<1>6. Ledger
  BY InitLedger DEF Init
<1>7. InvoicesAgree
  <2> DEFINE row(u) == [balance |-> 0, change |-> Deposit[u], hash |-> "admin",
                        source |-> "admin"]
  <2>1. \A u \in Users : record[u] = <<row(u)>> /\ row(u).hash = "admin"
    BY DEF Init, StoreInit
  <2> HIDE DEF row
  <2>2. CreditsWithin(record, DOMAIN invoice)
    BY <2>1 DEF CreditsWithin
  <2> QED
    BY <2>2, EmptyTable, InvoicesAgreeParts DEF Init, StoreInit
<1> QED
  BY <1>4, <1>5, <1>6, <1>7 DEF Consistent

\* Nothing has been paid and nothing given.
LEMMA InitCredited ==
    ASSUME Init
    PROVE  Explained /\ CreditedWhatWasPaid /\ DonatedIsSum
<1>1. Explained
  BY InitExplained DEF Init
<1>2. CreditedWhatWasPaid
  BY EmptyTable DEF Init, StoreInit, CreditedWhatWasPaid
<1>3. ASSUME NEW u \in Users PROVE user[u].donate_amount = SumOf(Donations(u))
  <2>1. DOMAIN Donations(u) = {}
    BY EmptyTable DEF Init, StoreInit, Donations
  <2> QED
    BY <2>1, SumOfNone DEF Init, StoreInit
<1> QED
  BY <1>1, <1>2, <1>3 DEF DonatedIsSum

\* No step breaks the invariant.
LEMMA StepConsistent == Consistent /\ [Next]_vars => Consistent'
  BY StepType, StepLedger, StepRequestsAgree, StepSweepAgrees, StepNodeAgrees,
     StepInvoicesAgree
     DEF Consistent

\* The inductive invariant of receiving: the state is well typed, the locks and
\* balances keep the ledger, no two handlers store one invoice, what a handler
\* pays is stored, and what the task has read of the database and of the node
\* (in however many pages) still holds when it acts on it.
THEOREM InvoicesConsistent == Spec => []Consistent
  BY StepConsistent, InitConsistent, PTL DEF Spec

\* Every variable keeps its type (service.rs and the entities it stores).
THEOREM InvoicesTypeCorrect == Spec => []TypeOK
<1>1. Consistent => TypeOK
  BY DEF Consistent
<1> QED
  BY <1>1, InvoicesConsistent, PTL

\* An invoice is credited to its owner exactly what was paid for it: by the
\* account that paid it internally, by the network as the node received it, or
\* by both, in either order, however old the task's snapshot is (internal_pay,
\* invoice_paid and invoice_dup_paid).
THEOREM InvoicesCredited == Spec => []CreditedWhatWasPaid
<1>1. Init => CreditedWhatWasPaid
  BY InitCredited
<1>2. Consistent /\ CreditedWhatWasPaid /\ [Next]_vars => CreditedWhatWasPaid'
  BY StepCredited
<1> QED
  BY <1>1, <1>2, InvoicesConsistent, PTL DEF Spec

\* Every statement adds up to what the account holds, whoever pays its invoices
\* and whatever balances the models held that new_record was given.
THEOREM InvoicesExplain == Spec => []Explained
<1>1. Init => Explained
  BY InitCredited
<1>2. Consistent /\ Explained /\ [Next]_vars => Explained'
  BY StepExplained
<1> QED
  BY <1>1, <1>2, InvoicesConsistent, PTL DEF Spec

\* donate_amount is the sum of the account's donations: sync_donation stores one
\* for an invoice at most, and counts it once.
THEOREM DonationsAddUp == Spec => []DonatedIsSum
<1>1. Init => DonatedIsSum
  BY InitCredited
<1>2. Consistent /\ DonatedIsSum /\ [Next]_vars => DonatedIsSum'
  BY StepDonated
<1> QED
  BY <1>1, <1>2, InvoicesConsistent, PTL DEF Spec

\* An invoice that was paid stays paid, and only invoice_dup_paid touches it
\* again, once and adding to what was paid; a canceled one is closed for good,
\* whatever snapshot sync_invoices works from and whoever pays meanwhile.
THEOREM InvoicesPaidForGood == Spec => PaidForGood
<1> DEFINE Kept == \A h \in DOMAIN invoice :
        LET old == invoice[h]
            new == invoice'[h]
        IN  /\ old.status # "Unpaid" => new.status = old.status
            /\ old.status # "Unpaid" /\ new # old =>
                    /\ old.internal /\ ~old.duplicate /\ new.duplicate
                    /\ new.paid_amount > old.paid_amount
<1>1. Consistent /\ [Next]_vars => [Kept]_vars
  BY StepForward DEF Forward, Later
<1>2. Spec => [][Kept]_vars
  BY <1>1, InvoicesConsistent, PTL DEF Spec
<1> QED
  BY <1>2 DEF PaidForGood
=============================================================================
