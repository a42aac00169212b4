------------------------- MODULE TransactionsProofs -------------------------
(***************************************************************************)
(* Proofs about Transactions, for any accounts, hashes, workers, requests  *)
(* and outcomes: side by side, statement by statement, the transactions of *)
(* service.rs do what the one-step transactions of Store do.               *)
(***************************************************************************)
EXTENDS Transactions, StoreProofs

----------------------------------------------------------------------------
(* The statements.                                                         *)

\* The scripts, one by one.
LEMMA Scripts ==
    /\ Script["lock"] = <<"hold", "insert">>
    /\ Script["internal"] = <<"close", "insert", "debit", "credit", "donate">>
    /\ Script["paid"] = <<"close", "credit", "donate">>
    /\ Script["duplicate"] = <<"close", "credit">>
    /\ Script["cancel"] = <<"close">>
    /\ Script["failed"] = <<"settle", "unlock">>
    /\ Script["success"] = <<"settle", "unlock">>
  BY DEF Script

\* The statement s of a script has been run.
Past(kind, at, s) ==
    \E i \in DOMAIN Script[kind] : i < at /\ Script[kind][i] = s

\* How far a transaction is, by the statements it has run ...
Ran(Run(_), kind, at) ==
    /\ Run("hold") <=> kind = "lock" /\ at > 1
    /\ Run("insert") <=> kind \in {"lock", "internal"} /\ at > 2
    /\ Run("debit") <=> kind = "internal" /\ at > 3
    /\ Run("credit") <=> \/ kind = "internal" /\ at > 4
                         \/ kind \in {"paid", "duplicate"} /\ at > 2
    /\ Run("donate") <=> \/ kind = "internal" /\ at > 5
                         \/ kind = "paid" /\ at > 3
    /\ Run("close") <=> /\ kind \in {"internal", "paid", "duplicate", "cancel"}
                        /\ at > 1
    /\ Run("settle") <=> kind \in {"failed", "success"} /\ at > 1
    /\ Run("unlock") <=> kind \in {"failed", "success"} /\ at > 2

LEMMA ScriptPast ==
    ASSUME NEW kind \in Kinds, NEW at \in 1..6
    PROVE  Ran(LAMBDA s : Past(kind, at, s), kind, at)
<1> USE Scripts DEF Past, Ran
<1>1. CASE kind = "lock"
  BY <1>1
<1>2. CASE kind = "internal"
  BY <1>2
<1>3. CASE kind = "paid"
  BY <1>3
<1>4. CASE kind = "duplicate"
  BY <1>4
<1>5. CASE kind = "cancel"
  BY <1>5
<1>6. CASE kind = "failed"
  BY <1>6
<1>7. CASE kind = "success"
  BY <1>7
<1> QED
  BY <1>1, <1>2, <1>3, <1>4, <1>5, <1>6, <1>7 DEF Kinds

\* ... and by the next one.
LEMMA ScriptNext ==
    ASSUME NEW kind \in Kinds, NEW at \in 1..6, NEW s,
           s = IF at \in DOMAIN Script[kind] THEN Script[kind][at] ELSE "commit"
    PROVE  /\ s = "hold" <=> kind = "lock" /\ at = 1
           /\ s = "insert" <=> kind \in {"lock", "internal"} /\ at = 2
           /\ s = "debit" <=> kind = "internal" /\ at = 3
           /\ s = "credit" <=> \/ kind = "internal" /\ at = 4
                               \/ kind \in {"paid", "duplicate"} /\ at = 2
           /\ s = "donate" <=> \/ kind = "internal" /\ at = 5
                               \/ kind = "paid" /\ at = 3
           /\ s = "close" <=> /\ kind \in {"internal", "paid", "duplicate", "cancel"}
                              /\ at = 1
           /\ s = "settle" <=> kind \in {"failed", "success"} /\ at = 1
           /\ s = "unlock" <=> kind \in {"failed", "success"} /\ at = 2
           /\ s = "commit" <=>
                \/ kind \in {"lock", "failed", "success", "duplicate"} /\ at > 2
                \/ kind = "internal" /\ at > 5
                \/ kind = "paid" /\ at > 3
                \/ kind = "cancel" /\ at > 1
<1> USE Scripts
<1>1. CASE kind = "lock"
  BY <1>1
<1>2. CASE kind = "internal"
  BY <1>2
<1>3. CASE kind = "paid"
  BY <1>3
<1>4. CASE kind = "duplicate"
  BY <1>4
<1>5. CASE kind = "cancel"
  BY <1>5
<1>6. CASE kind = "failed"
  BY <1>6
<1>7. CASE kind = "success"
  BY <1>7
<1> QED
  BY <1>1, <1>2, <1>3, <1>4, <1>5, <1>6, <1>7 DEF Kinds

\* What a transaction is about.
Params(w) ==
    /\ txn[w].kind \in Kinds /\ txn[w].at \in 1..6
    /\ txn[w].user_id \in Users /\ txn[w].hash \in Hashes
    /\ txn[w].seen \in Int /\ txn[w].payeeSeen \in Int

\* The same of a transaction.
DoneTable(w) == Ran(LAMBDA s : Done(w, s), txn[w].kind, txn[w].at)

LEMMA WhatIsDone ==
    ASSUME NEW w
    PROVE  (Params(w) => DoneTable(w)) /\ (Params(w)' => DoneTable(w)')
<1>1. Params(w) => DoneTable(w)
  BY ScriptPast DEF Params, DoneTable, Ran, Done, Past
<1>2. ASSUME Params(w)'
      PROVE  DoneTable(w)'
  <2>1. PICK kind \in Kinds, at \in 1..6 : kind = txn'[w].kind /\ at = txn'[w].at
    BY <1>2 DEF Params
  <2>2. \A s : Done(w, s)' <=> Past(kind, at, s)
    BY <2>1 DEF Done, Past
  <2>3. Ran(LAMBDA s : Past(kind, at, s), kind, at)
    BY ScriptPast
  <2> QED
    BY <2>1, <2>2, <2>3 DEF DoneTable, Ran
<1> QED
  BY <1>1, <1>2

----------------------------------------------------------------------------
(* One transaction.                                                        *)

\* What a settled payment gives back, and what it cost.
LEMMA SettlementAmounts ==
    ASSUME NEW w, Params(w), ModelAgrees(w), txn[w].kind \in {"failed", "success"}
    PROVE  /\ Back(w) \in Int /\ Route(txn[w].hash) \in Nat
           /\ txn[w].model.lock_amount \in Nat /\ txn[w].model.user_id \in Users
           /\ Cost(txn[w].hash, txn[w].model, Route(txn[w].hash)) \in Nat
<1> DEFINE h == txn[w].hash
           m == txn[w].model
<1>1. m \in Payment /\ h \in Hashes
  BY DEF ModelAgrees, Params
<1>2. m.lock_amount \in Nat /\ m.service_fee \in Nat /\ m.user_id \in Users
  BY <1>1 DEF Payment
<1>3. Amount[h] \in Nat /\ MaxFee(Amount[h]) \in Nat
  BY <1>1, FeesAreNat
<1> QED
  BY <1>1, <1>2, <1>3 DEF Back, Route, Payback, Cost

\* The accounts and amounts of a transaction that pays or closes an invoice.
LEMMA InvoiceAmounts ==
    ASSUME NEW w, Params(w), ModelAgrees(w),
           txn[w].kind \in {"internal", "paid", "duplicate", "cancel"}
    PROVE  /\ txn[w].model.user_id \in Users /\ txn[w].model.paid_amount \in Nat
           /\ txn[w].model.payer \in Users \cup {"none"}
           /\ Donates(w) \in Users \cup {"none"}
  BY DEF Params, ModelAgrees, Invoice, Donates, Donor

\* The rows of accounts a transaction writes are rows.
LEMMA BookedType ==
    ASSUME TablesOK, NEW w, Params(w), ModelAgrees(w), NEW k \in Users
    PROVE  Booked(w, k) \in User
<1> DEFINE t == txn[w]
           h == t.hash
           m == t.model
<1>1. user[k].balance \in Int /\ user[k].lock_amount \in Int /\ user[k].donate_amount \in Int
  BY DEF TablesOK, User
<1>2. Total(h) \in Int /\ InternalTotal(h) \in Int /\ Amount[h] \in Int
  BY TotalsArePositive, FeesAreNat DEF Params
<1>3. Done(w, "unlock") => Back(w) \in Int /\ m.lock_amount \in Int
  BY SettlementAmounts, WhatIsDone DEF DoneTable, Ran
<1>4. Done(w, "donate") => m.paid_amount \in Int
  BY InvoiceAmounts, WhatIsDone DEF DoneTable, Ran
<1>5. Booked(w, k).balance \in Int
  BY <1>1, <1>2, <1>3 DEF Booked
<1>6. Booked(w, k).lock_amount \in Int
  BY <1>1, <1>2, <1>3 DEF Booked
<1>7. Booked(w, k).donate_amount \in Int
  BY <1>1, <1>4 DEF Booked
<1> QED
  BY <1>5, <1>6, <1>7 DEF Booked, User

\* The records of a transaction are records.
LEMMA RecordsType ==
    ASSUME NEW w, Params(w), ModelAgrees(w), RecordsAgree(w)
    PROVE  txn[w].record \in [Users -> Seq(Record)]
<1> DEFINE h == txn[w].hash
           none     == [u \in Users |-> <<>>]
           debited  == IF Done(w, "debit") THEN DebitRecord(w, none) ELSE none
           credited == IF Done(w, "credit") THEN CreditRecord(w, debited) ELSE debited
<1>1. none \in [Users -> Seq(Record)]
  OBVIOUS
<1>2. h \in Hashes /\ InternalTotal(h) \in Nat /\ Amount[h] \in Nat
  BY TotalsArePositive, FeesAreNat DEF Params
<1>0. /\ txn[w].user_id \in Users /\ txn[w].seen \in Int
      /\ txn[w].payeeSeen \in Int /\ -InternalTotal(h) \in Int /\ Amount[h] \in Int
  BY <1>2 DEF Params
<1>3. DebitRecord(w, none) \in [Users -> Seq(Record)]
  <2> HIDE DEF none
  <2>1. NewRecord(none, txn[w].user_id, txn[w].seen, -InternalTotal(h), h,
                  "internal_payment") \in [Users -> Seq(Record)]
    BY <1>0, <1>1, <1>2, NewRecordType
  <2> QED
    BY <2>1 DEF DebitRecord
<1>4. debited \in [Users -> Seq(Record)]
  BY <1>1, <1>3
<1>5. ASSUME Done(w, "credit")
      PROVE  CreditRecord(w, debited) \in [Users -> Seq(Record)]
  <2> HIDE DEF debited
  <2>1. txn[w].kind \in {"internal", "paid", "duplicate"}
    BY <1>5, WhatIsDone DEF DoneTable, Ran
  <2>2. txn[w].model.user_id \in Users
    BY <2>1, InvoiceAmounts
  <2> DEFINE v == txn[w].model.user_id
  <2>3. NewRecord(debited, v, txn[w].payeeSeen, Amount[h], h, "internal_payment")
            \in [Users -> Seq(Record)]
    BY <1>0, <1>2, <1>4, <2>2, NewRecordType
  <2>4. NewRecord(debited, v, txn[w].seen, Amount[h], h, "external_payment")
            \in [Users -> Seq(Record)]
    BY <1>0, <1>2, <1>4, <2>2, NewRecordType
  <2>5. NewRecord(debited, v, txn[w].seen, Amount[h], h, "duplicate_payment")
            \in [Users -> Seq(Record)]
    BY <1>0, <1>2, <1>4, <2>2, NewRecordType
  <2> QED
    BY <2>1, <2>3, <2>4, <2>5 DEF CreditRecord
<1>6. credited \in [Users -> Seq(Record)]
  BY <1>4, <1>5
<1>7. ASSUME Done(w, "unlock")
      PROVE  UnlockRecord(w, credited) \in [Users -> Seq(Record)]
  <2> HIDE DEF credited
  <2>1. txn[w].kind \in {"failed", "success"}
    BY <1>7, WhatIsDone DEF DoneTable, Ran
  <2> DEFINE v == txn[w].model.user_id
             n == Cost(h, txn[w].model, Route(h))
  <2>2. v \in Users /\ -n \in Int
    BY <2>1, SettlementAmounts
  <2>3. NewRecord(credited, v, txn[w].seen, -n, h, "external_payment")
            \in [Users -> Seq(Record)]
    <3> HIDE DEF n
    <3> QED
      BY <1>0, <1>2, <1>6, <2>2, NewRecordType
  <2> QED
    BY <1>6, <2>3 DEF UnlockRecord
<1> QED
  BY <1>6, <1>7 DEF RecordsAgree

\* A table with one row.
LEMMA OneRow ==
    ASSUME NEW Keys, NEW Row, NEW k \in Keys, NEW row \in Row
    PROVE  IsTable(Insert(<<>>, k, row), Keys, Row)
  BY EmptyTable, InsertTable

\* The rows of a transaction are rows.
LEMMA WrittenType ==
    ASSUME TablesOK, NEW w, Params(w), Agrees(w)
    PROVE  /\ IsTable(txn[w].payment, Hashes, Payment)
           /\ IsTable(txn[w].invoice, Hashes, Invoice)
           /\ IsTable(txn[w].donation, Hashes, Donation)
<1> DEFINE t == txn[w]
           h == t.hash
<1>1. /\ h \in Hashes /\ Amount[h] \in Nat /\ Total(h) \in Nat /\ InternalTotal(h) \in Nat
      /\ InternalFee(Amount[h]) \in Nat /\ ServiceFee(Amount[h]) \in Nat
  BY TotalsArePositive, FeesAreNat DEF Params
<1>2. DoneTable(w)
  BY WhatIsDone
<1>3. IsTable(t.invoice, Hashes, Invoice)
  <2>1. CASE ~Done(w, "close")
    BY <2>1, EmptyTable DEF Agrees, RowsAgreeWith
  <2>2. CASE Done(w, "close")
    <3>1. t.kind \in {"internal", "paid", "duplicate", "cancel"}
      BY <1>2, <2>2 DEF DoneTable, Ran
    <3>2. h \in DOMAIN invoice /\ invoice[h] \in Invoice
      BY <3>1 DEF Agrees, ModelAgrees, TablesOK, IsTable
    <3>3. Amount[h] + t.model.paid_amount \in Nat
      BY <1>1, <3>1, InvoiceAmounts DEF Agrees
    <3>4. Closed(w) \in Invoice
      BY <1>1, <3>1, <3>2, <3>3, InvoiceRow DEF Closed
    <3> QED
      BY <1>1, <2>2, <3>4, OneRow DEF Agrees, RowsAgreeWith
  <2> QED
    BY <2>1, <2>2
<1>4. IsTable(t.payment, Hashes, Payment)
  <2>1. CASE ~Done(w, "insert") /\ ~Done(w, "settle")
    BY <2>1, EmptyTable DEF Agrees, RowsAgreeWith
  <2>2. CASE Done(w, "insert")
    <3>1. NewPayment(w) \in Payment
      BY <1>1 DEF NewPayment, Payment, Status, Params
    <3>2. ~Done(w, "settle")
      BY <1>2, <2>2 DEF DoneTable, Ran
    <3>3. t.payment = Insert(<<>>, h, NewPayment(w))
      BY <2>2, <3>2 DEF Agrees, RowsAgreeWith
    <3> QED
      BY <1>1, <3>1, <3>3, OneRow
  <2>3. CASE Done(w, "settle") /\ ~Done(w, "insert")
    <3>1. t.kind \in {"failed", "success"}
      BY <1>2, <2>3 DEF DoneTable, Ran
    <3>2. h \in DOMAIN payment /\ payment[h] \in Payment
      BY <3>1 DEF Agrees, ModelAgrees, TablesOK, IsTable
    <3>3. Route(h) \in Nat /\ Cost(h, t.model, Route(h)) \in Nat
      BY <3>1, SettlementAmounts DEF Agrees
    <3>4. Settled(w) \in Payment
      BY <3>2, <3>3, SettledRow DEF Settled, Status
    <3> QED
      BY <1>1, <2>3, <3>4, OneRow DEF Agrees, RowsAgreeWith
  <2> QED
    BY <2>1, <2>2, <2>3
<1>5. IsTable(t.donation, Hashes, Donation)
  <2>1. CASE ~(Done(w, "donate") /\ Donates(w) # "none")
    BY <2>1, EmptyTable DEF Agrees, RowsAgreeWith
  <2>2. CASE Done(w, "donate") /\ Donates(w) # "none"
    <3>1. Donates(w) \in Users /\ t.model.paid_amount \in Nat
      BY <1>2, <2>2, InvoiceAmounts DEF DoneTable, Ran, Agrees
    <3>2. [user_id |-> Donates(w), amount |-> t.model.paid_amount] \in Donation
      BY <3>1 DEF Donation
    <3> QED
      BY <1>1, <2>2, <3>2, OneRow DEF Agrees, RowsAgreeWith
  <2> QED
    BY <2>1, <2>2
<1> QED
  BY <1>3, <1>4, <1>5
----------------------------------------------------------------------------
(* The same, after a step.                                                 *)

\* What the lemmas above say of a state they say of the next one: of agreeing
\* transactions, ...
LEMMA TypesNext ==
    (\A w : TablesOK /\ Params(w) /\ Agrees(w) =>
        /\ IsTable(txn[w].payment, Hashes, Payment)
        /\ IsTable(txn[w].invoice, Hashes, Invoice)
        /\ IsTable(txn[w].donation, Hashes, Donation)
        /\ txn[w].record \in [Users -> Seq(Record)]
        /\ \A k \in Users : Booked(w, k) \in User)'
<1>1. \A w : TablesOK /\ Params(w) /\ Agrees(w) =>
        /\ IsTable(txn[w].payment, Hashes, Payment)
        /\ IsTable(txn[w].invoice, Hashes, Invoice)
        /\ IsTable(txn[w].donation, Hashes, Donation)
        /\ txn[w].record \in [Users -> Seq(Record)]
        /\ \A k \in Users : Booked(w, k) \in User
  BY WrittenType, RecordsType, BookedType DEF Agrees
<1> QED
  BY <1>1, PTL

\* ... and of the accounts alone.
LEMMA BookedTypeNext ==
    (\A w : TablesOK /\ Params(w) /\ ModelAgrees(w) =>
        \A k \in Users : Booked(w, k) \in User)'
<1>1. \A w : TablesOK /\ Params(w) /\ ModelAgrees(w) =>
        \A k \in Users : Booked(w, k) \in User
  BY BookedType
<1> QED
  BY <1>1, PTL

\* A statement of w: the tables and the other transactions stay, and w is one
\* statement further.
Ahead(w) ==
    /\ UNCHANGED <<store, faults, net>>
    /\ w \in DOMAIN txn /\ DOMAIN txn' = DOMAIN txn
    /\ \A v \in DOMAIN txn \ {w} : txn'[v] = txn[v]
    /\ txn'[w].kind = txn[w].kind /\ txn'[w].at = txn[w].at + 1
    /\ txn'[w].user_id = txn[w].user_id /\ txn'[w].hash = txn[w].hash
    /\ txn'[w].model = txn[w].model
    /\ txn'[w].seen = txn[w].seen /\ txn'[w].payeeSeen = txn[w].payeeSeen
    /\ /\ txn'[w].record \in [Users -> Seq(Record)] /\ txn'[w].at \in 1..6
       => txn'[w] \in Txn(txn'[w])

\* A statement that writes a row changes what w has written in that table.
LEMMA WriteAhead ==
    ASSUME NEW w \in DOMAIN txn, txn[w] \in Txn(txn[w]), NEW k, NEW row, NEW rows
    PROVE  /\ Write(w, "user", k, row, rows) =>
                /\ Ahead(w) /\ txn'[w].record = rows
                /\ txn'[w].user = Insert(txn[w].user, k, row)
                /\ txn'[w].payment = txn[w].payment
                /\ txn'[w].invoice = txn[w].invoice
                /\ txn'[w].donation = txn[w].donation
           /\ Write(w, "payment", k, row, rows) =>
                /\ Ahead(w) /\ txn'[w].record = rows
                /\ txn'[w].payment = Insert(txn[w].payment, k, row)
                /\ txn'[w].user = txn[w].user
                /\ txn'[w].invoice = txn[w].invoice
                /\ txn'[w].donation = txn[w].donation
           /\ Write(w, "invoice", k, row, rows) =>
                /\ Ahead(w) /\ txn'[w].record = rows
                /\ txn'[w].invoice = Insert(txn[w].invoice, k, row)
                /\ txn'[w].user = txn[w].user
                /\ txn'[w].payment = txn[w].payment
                /\ txn'[w].donation = txn[w].donation
<1>1. ASSUME Write(w, "user", k, row, rows)
      PROVE  /\ Ahead(w) /\ txn'[w].record = rows
             /\ txn'[w].user = Insert(txn[w].user, k, row)
             /\ txn'[w].payment = txn[w].payment
             /\ txn'[w].invoice = txn[w].invoice
             /\ txn'[w].donation = txn[w].donation
  BY <1>1 DEF Txn, Write, Ahead
<1>2. ASSUME Write(w, "payment", k, row, rows)
      PROVE  /\ Ahead(w) /\ txn'[w].record = rows
             /\ txn'[w].payment = Insert(txn[w].payment, k, row)
             /\ txn'[w].user = txn[w].user
             /\ txn'[w].invoice = txn[w].invoice
             /\ txn'[w].donation = txn[w].donation
  BY <1>2 DEF Txn, Write, Ahead
<1>3. ASSUME Write(w, "invoice", k, row, rows)
      PROVE  /\ Ahead(w) /\ txn'[w].record = rows
             /\ txn'[w].invoice = Insert(txn[w].invoice, k, row)
             /\ txn'[w].user = txn[w].user
             /\ txn'[w].payment = txn[w].payment
             /\ txn'[w].donation = txn[w].donation
  BY <1>3 DEF Txn, Write, Ahead
<1> QED
  BY <1>1, <1>2, <1>3

\* After a statement, it has been run, and the others as before.
LEMMA DoneNext ==
    ASSUME NEW w, Params(w), Ahead(w), Statement(w) # "commit"
    PROVE  /\ Params(w)'
           /\ \A s : Done(w, s)' <=> Done(w, s) \/ s = Statement(w)
           /\ ~Done(w, Statement(w))
<1> DEFINE kind == txn[w].kind
           at   == txn[w].at
<1>1. at \in DOMAIN Script[kind] /\ Statement(w) = Script[kind][at]
  BY DEF Statement
<1>2. at \in 1..5
  <2>1. \A j \in Kinds : DOMAIN Script[j] \subseteq 1..5
    BY Scripts DEF Kinds
  <2> QED
    BY <1>1, <2>1 DEF Params
<1>3. ASSUME NEW s
      PROVE  Done(w, s)' <=> Done(w, s) \/ s = Statement(w)
  <2>1. \A i \in DOMAIN Script[kind] : i < at + 1 <=> i < at \/ i = at
    <3>1. \A j \in Kinds : DOMAIN Script[j] \subseteq Int
      BY Scripts DEF Kinds
    <3> QED
      BY <1>2, <3>1 DEF Params
  <2> QED
    BY <1>1, <2>1 DEF Done, Ahead
<1>4. Params(w)'
  BY <1>2 DEF Params, Ahead
<1>5. ~Done(w, Statement(w))
  <2>1. DoneTable(w)
    BY WhatIsDone
  <2>2. PICK s : s = Statement(w)
    OBVIOUS
  <2>3. s \in {"hold", "insert", "debit", "credit", "donate", "close", "settle",
               "unlock"}
    <3>1. \A j \in Kinds : \A i \in DOMAIN Script[j] : Script[j][i] \in
             {"hold", "insert", "debit", "credit", "donate", "close", "settle",
              "unlock"}
      BY Scripts DEF Kinds
    <3> QED
      BY <1>1, <2>2, <3>1 DEF Params
  <2>4. ~Done(w, s)
    BY <1>2, <2>1, <2>2, <2>3, ScriptNext DEF DoneTable, Ran, Params, Statement
  <2> QED
    BY <2>2, <2>4
<1> QED
  BY <1>3, <1>4, <1>5
----------------------------------------------------------------------------
(* A statement keeps what a transaction has written in agreement.          *)

\* What does not change in w still agrees with the tables.
LEMMA ModelAhead ==
    ASSUME NEW w, ModelAgrees(w), Ahead(w)
    PROVE  ModelAgrees(w)'
  BY DEF ModelAgrees, Ahead, store

\* Two rows of accounts are the same when their fields are.
LEMMA SameUser ==
    ASSUME NEW a \in User, NEW b \in User, a.balance = b.balance,
           a.lock_amount = b.lock_amount, a.donate_amount = b.donate_amount
    PROVE  a = b
  BY DEF User

\* What a statement changes in the accounts as they are booked.
LEMMA BookedNext ==
    ASSUME TablesOK, NEW w, Params(w), ModelAgrees(w), Ahead(w),
           Statement(w) # "commit", NEW k \in Users
    PROVE  LET t == txn[w]
               m == t.model
               If(s, u, n) == IF Statement(w) = s /\ u = k THEN n ELSE 0
           IN  /\ Booked(w, k) \in User /\ Booked(w, k)' \in User
               /\ Booked(w, k)'.balance = Booked(w, k).balance
                    - If("hold", t.user_id, Total(t.hash))
                    - If("debit", t.user_id, InternalTotal(t.hash))
                    + If("credit", m.user_id, Amount[t.hash])
                    + If("unlock", m.user_id, Back(w))
               /\ Booked(w, k)'.lock_amount = Booked(w, k).lock_amount
                    + If("hold", t.user_id, Total(t.hash))
                    - If("unlock", m.user_id, m.lock_amount)
               /\ Booked(w, k)'.donate_amount = Booked(w, k).donate_amount
                    + If("donate", Donates(w), m.paid_amount)
<1> DEFINE t == txn[w]
           h == t.hash
           m == t.model
<1>1. user[k].balance \in Int /\ user[k].lock_amount \in Int /\ user[k].donate_amount \in Int
  BY DEF TablesOK, User
<1>2. Total(h) \in Int /\ InternalTotal(h) \in Int /\ Amount[h] \in Int
  BY TotalsArePositive, FeesAreNat DEF Params
<1>3. /\ Params(w)'
      /\ \A s : Done(w, s)' <=> Done(w, s) \/ s = Statement(w)
      /\ ~Done(w, Statement(w))
  BY DoneNext
<1>4. DoneTable(w) /\ DoneTable(w)'
  BY <1>3, WhatIsDone
<1>5. t.kind \in Kinds /\ t.at \in 1..6
  BY DEF Params
<1>6. Done(w, "unlock") \/ Statement(w) = "unlock" =>
        t.kind \in {"failed", "success"} /\ Back(w) \in Int /\ m.lock_amount \in Int
  BY <1>4, <1>5, SettlementAmounts, ScriptNext DEF DoneTable, Ran, Statement
<1>7. Done(w, "donate") \/ Statement(w) = "donate" => m.paid_amount \in Int
  BY <1>4, <1>5, InvoiceAmounts, ScriptNext DEF DoneTable, Ran, Statement
<1>8. /\ Donates(w)' = Donates(w)
      /\ Back(w)' = Back(w)
      /\ txn'[w].user_id = t.user_id /\ txn'[w].hash = h /\ txn'[w].model = m
      /\ user' = user
  BY DEF Donates, Back, Ahead, store
<1>9. ModelAgrees(w)' /\ TablesOK'
  BY ModelAhead DEF Ahead, store, TablesOK
<1>10. Booked(w, k) \in User /\ Booked(w, k)' \in User
  BY <1>3, <1>9, BookedType, BookedTypeNext
<1>11. Booked(w, k)'.balance = Booked(w, k).balance
            - (IF Statement(w) = "hold" /\ t.user_id = k THEN Total(h) ELSE 0)
            - (IF Statement(w) = "debit" /\ t.user_id = k THEN InternalTotal(h) ELSE 0)
            + (IF Statement(w) = "credit" /\ m.user_id = k THEN Amount[h] ELSE 0)
            + (IF Statement(w) = "unlock" /\ m.user_id = k THEN Back(w) ELSE 0)
  BY <1>1, <1>2, <1>3, <1>6, <1>8 DEF Booked
<1>12. Booked(w, k)'.lock_amount = Booked(w, k).lock_amount
            + (IF Statement(w) = "hold" /\ t.user_id = k THEN Total(h) ELSE 0)
            - (IF Statement(w) = "unlock" /\ m.user_id = k THEN m.lock_amount ELSE 0)
  BY <1>1, <1>2, <1>3, <1>6, <1>8 DEF Booked
<1>13. Booked(w, k)'.donate_amount = Booked(w, k).donate_amount
            + (IF Statement(w) = "donate" /\ Donates(w) = k THEN m.paid_amount ELSE 0)
  BY <1>1, <1>3, <1>7, <1>8 DEF Booked
<1> QED
  BY <1>10, <1>11, <1>12, <1>13

\* An UPDATE of an account, as it is booked, keeps the accounts in agreement.
LEMMA AccountsAhead ==
    ASSUME TablesOK, NEW w, Params(w), ModelAgrees(w), AccountsAgree(w),
           Ahead(w), Statement(w) # "commit", NEW u \in Users, NEW row \in User,
           txn'[w].user = Insert(txn[w].user, u, row),
           row.balance = Booked(w, u)'.balance,
           row.lock_amount = Booked(w, u)'.lock_amount,
           row.donate_amount = Booked(w, u)'.donate_amount,
           Statement(w) \in {"hold", "debit"} => u = txn[w].user_id,
           Statement(w) \in {"credit", "unlock"} => u = txn[w].model.user_id,
           Statement(w) = "donate" => u = Donates(w),
           Statement(w) \notin {"insert", "close", "settle"},
           Statement(w) = "hold" => user[u].balance >= Total(txn[w].hash),
           Statement(w) = "debit" => user[u].balance >= InternalTotal(txn[w].hash)
    PROVE  AccountsAgree(w)'
<1> DEFINE t == txn[w]
           h == t.hash
           m == t.model
<1>1. /\ Params(w)'
      /\ \A s : Done(w, s)' <=> Done(w, s) \/ s = Statement(w)
  BY DoneNext
<1>2. Statement(w) \in {"hold", "debit", "credit", "unlock", "donate"}
  BY ScriptNext DEF Params, Statement, Kinds
<1>3. /\ DOMAIN txn'[w].user = DOMAIN t.user \cup {u} /\ txn'[w].user[u] = row
      /\ \A k \in DOMAIN t.user : k # u => txn'[w].user[k] = t.user[k]
  BY DEF Insert
<1>4. ASSUME NEW k \in Users
      PROVE  Account(w, k)' = Booked(w, k)'
  <2>1. /\ Booked(w, k) \in User /\ Booked(w, k)' \in User
        /\ Account(w, k) = Booked(w, k)
    BY BookedNext DEF AccountsAgree
  <2>2. CASE k = u
    <3>1. Account(w, k)' = row
      BY <1>3, <2>2 DEF Account, Over, Ahead, store, TablesOK
    <3> QED
      BY <2>1, <2>2, <3>1, SameUser
  <2>3. CASE k # u
    <3>1. Account(w, k)' = Account(w, k)
      BY <1>3, <2>3 DEF Account, Over, Ahead, store, TablesOK
    <3>2. /\ Booked(w, k)'.balance = Booked(w, k).balance
          /\ Booked(w, k)'.lock_amount = Booked(w, k).lock_amount
          /\ Booked(w, k)'.donate_amount = Booked(w, k).donate_amount
      BY <1>2, <2>1, <2>3, BookedNext DEF User
    <3> QED
      BY <2>1, <3>1, <3>2, SameUser
  <2> QED
    BY <2>2, <2>3
<1>5. Donates(w)' = Donates(w) /\ user' = user
  BY DEF Donates, Ahead, store
<1>6. txn'[w].user_id = t.user_id /\ txn'[w].hash = h /\ txn'[w].model = m
  BY DEF Ahead
<1>7. /\ DOMAIN txn'[w].user \subseteq Users
      /\ Done(w, "hold")' \/ Done(w, "debit")' => t.user_id \in DOMAIN txn'[w].user
      /\ Done(w, "credit")' \/ Done(w, "unlock")' => m.user_id \in DOMAIN txn'[w].user
      /\ Done(w, "donate")' => Donates(w) = "none" \/ Donates(w) \in DOMAIN txn'[w].user
      /\ Done(w, "hold")' => user[t.user_id].balance >= Total(h)
      /\ Done(w, "debit")' => user[t.user_id].balance >= InternalTotal(h)
  BY <1>1, <1>3 DEF AccountsAgree
<1> QED
  BY <1>4, <1>5, <1>6, <1>7 DEF AccountsAgree

\* So does a statement that writes no account.
LEMMA AccountsStay ==
    ASSUME TablesOK, NEW w, Params(w), ModelAgrees(w), AccountsAgree(w),
           Ahead(w), txn'[w].user = txn[w].user,
           \/ Statement(w) \in {"insert", "close", "settle"}
           \/ Statement(w) = "donate" /\ Donates(w) \notin Users
    PROVE  AccountsAgree(w)'
<1> DEFINE t == txn[w]
           h == t.hash
           m == t.model
<1>1. \A s : Done(w, s)' <=> Done(w, s) \/ s = Statement(w)
  BY DoneNext
<1>2. Donates(w) \notin Users /\ Statement(w) = "donate" => Donates(w) = "none"
  <2>1. Statement(w) = "donate" => t.kind \in {"internal", "paid"}
    BY ScriptNext DEF Params, Statement
  <2> QED
    BY <2>1, InvoiceAmounts
<1>4. ASSUME NEW k \in Users
      PROVE  Account(w, k)' = Booked(w, k)'
  <2>1. /\ Booked(w, k) \in User /\ Booked(w, k)' \in User
        /\ Account(w, k) = Booked(w, k)
    BY BookedNext DEF AccountsAgree
  <2>2. Account(w, k)' = Account(w, k)
    BY DEF Account, Over, Ahead, store
  <2>3. /\ Booked(w, k)'.balance = Booked(w, k).balance
        /\ Booked(w, k)'.lock_amount = Booked(w, k).lock_amount
        /\ Booked(w, k)'.donate_amount = Booked(w, k).donate_amount
    BY <2>1, BookedNext DEF User
  <2> QED
    BY <2>1, <2>2, <2>3, SameUser
<1>5. Donates(w)' = Donates(w) /\ user' = user
  BY DEF Donates, Ahead, store
<1>6. txn'[w].user_id = t.user_id /\ txn'[w].hash = h /\ txn'[w].model = m
  BY DEF Ahead
<1>7. /\ DOMAIN txn'[w].user \subseteq Users
      /\ Done(w, "hold")' \/ Done(w, "debit")' => t.user_id \in DOMAIN txn'[w].user
      /\ Done(w, "credit")' \/ Done(w, "unlock")' => m.user_id \in DOMAIN txn'[w].user
      /\ Done(w, "donate")' => Donates(w) = "none" \/ Donates(w) \in DOMAIN txn'[w].user
      /\ Done(w, "hold")' => user[t.user_id].balance >= Total(h)
      /\ Done(w, "debit")' => user[t.user_id].balance >= InternalTotal(h)
  BY <1>1, <1>2 DEF AccountsAgree
<1> QED
  BY <1>4, <1>5, <1>6, <1>7 DEF AccountsAgree
\* The rows of payments, invoices and donations that a statement writes agree.
LEMMA RowsAhead ==
    ASSUME NEW w, Params(w), RowsAgreeWith(w), Ahead(w), Statement(w) # "commit",
           txn'[w].invoice = IF Statement(w) = "close"
                             THEN Insert(txn[w].invoice, txn[w].hash, Closed(w))
                             ELSE txn[w].invoice,
           txn'[w].payment = IF Statement(w) = "insert"
                             THEN Insert(txn[w].payment, txn[w].hash, NewPayment(w))
                             ELSE IF Statement(w) = "settle"
                             THEN Insert(txn[w].payment, txn[w].hash, Settled(w))
                             ELSE txn[w].payment,
           txn'[w].donation = IF Statement(w) = "donate" /\ Donates(w) # "none"
                              THEN Insert(txn[w].donation, txn[w].hash,
                                          [user_id |-> Donates(w),
                                           amount |-> txn[w].model.paid_amount])
                              ELSE txn[w].donation,
           Statement(w) = "insert" => txn[w].hash \notin DOMAIN payment,
           Statement(w) \in {"close", "settle"} => Matches(w)
    PROVE  RowsAgreeWith(w)'
<1> DEFINE t == txn[w]
           h == t.hash
           Row(row) == Insert(<<>>, h, row)
<1>1. /\ Params(w)'
      /\ \A s : Done(w, s)' <=> Done(w, s) \/ s = Statement(w)
      /\ ~Done(w, Statement(w))
  BY DoneNext
<1>2. DoneTable(w) /\ DoneTable(w)'
  BY <1>1, WhatIsDone
<1>3. /\ txn'[w].kind = t.kind /\ txn'[w].user_id = t.user_id /\ txn'[w].hash = h
      /\ txn'[w].model = t.model
      /\ user' = user /\ payment' = payment /\ invoice' = invoice
  BY DEF Ahead, store
<1>4. /\ Closed(w)' = Closed(w) /\ NewPayment(w)' = NewPayment(w)
      /\ Settled(w)' = Settled(w) /\ Donates(w)' = Donates(w)
  BY <1>3 DEF Closed, NewPayment, Settled, Donates
<1>5. IF Done(w, "close")'
      THEN /\ IF t.kind = "duplicate" THEN InvoiceDupPaidMatches(h)
              ELSE InvoicePaidMatches(h)
           /\ txn'[w].invoice = Row(Closed(w))
      ELSE txn'[w].invoice = <<>>
  BY <1>1 DEF RowsAgreeWith, Matches
<1>6. CASE Done(w, "insert")'
  <2>1. /\ t.kind \in {"lock", "internal"}
        /\ ~Done(w, "settle")' /\ ~Done(w, "settle")
    BY <1>2, <1>6 DEF DoneTable, Ran, Ahead
  <2>2. Statement(w) # "settle"
    BY <1>1, <2>1
  <2>3. h \notin DOMAIN payment /\ txn'[w].payment = Row(NewPayment(w))
    BY <1>1, <1>6, <2>1, <2>2 DEF RowsAgreeWith
  <2>4. txn'[w].donation = IF Done(w, "donate")' /\ Donates(w) # "none"
                           THEN Row([user_id |-> Donates(w),
                                     amount |-> t.model.paid_amount])
                           ELSE <<>>
    BY <1>1 DEF RowsAgreeWith
  <2> QED
    BY <1>3, <1>4, <1>5, <1>6, <2>1, <2>3, <2>4
       DEF RowsAgreeWith, InvoiceDupPaidMatches, InvoicePaidMatches
<1>7. CASE ~Done(w, "insert")'
  <2>1. Statement(w) # "insert" /\ ~Done(w, "insert")
    BY <1>1, <1>7
  <2>2. IF Done(w, "settle")'
        THEN /\ IF t.kind = "failed" THEN PayFailedMatches(h, t.model)
                ELSE PaySuccessMatches(h, t.model)
             /\ txn'[w].payment = Row(Settled(w))
        ELSE txn'[w].payment = <<>>
    BY <1>1, <2>1 DEF RowsAgreeWith, Matches
  <2>3. txn'[w].donation = IF Done(w, "donate")' /\ Donates(w) # "none"
                           THEN Row([user_id |-> Donates(w),
                                     amount |-> t.model.paid_amount])
                           ELSE <<>>
    BY <1>1 DEF RowsAgreeWith
  <2> QED
    BY <1>3, <1>4, <1>5, <1>7, <2>2, <2>3
       DEF RowsAgreeWith, InvoiceDupPaidMatches, InvoicePaidMatches,
           PayFailedMatches, PaySuccessMatches
<1> QED
  BY <1>6, <1>7

\* So do the records.
LEMMA RecordsAhead ==
    ASSUME NEW w, Params(w), RecordsAgree(w), Ahead(w), Statement(w) # "commit",
           txn'[w].record =
                IF Statement(w) = "debit" THEN DebitRecord(w, txn[w].record)
                ELSE IF Statement(w) = "credit" THEN CreditRecord(w, txn[w].record)
                ELSE IF Statement(w) = "unlock" THEN UnlockRecord(w, txn[w].record)
                ELSE txn[w].record
    PROVE  RecordsAgree(w)'
<1> DEFINE t == txn[w]
           none     == [u \in Users |-> <<>>]
           debited  == IF Done(w, "debit") THEN DebitRecord(w, none) ELSE none
           credited == IF Done(w, "credit") THEN CreditRecord(w, debited) ELSE debited
<1>1. /\ Params(w)'
      /\ \A s : Done(w, s)' <=> Done(w, s) \/ s = Statement(w)
      /\ ~Done(w, Statement(w))
  BY DoneNext
<1>2. DoneTable(w) /\ DoneTable(w)'
  BY <1>1, WhatIsDone
<1>3. /\ txn'[w].kind = t.kind /\ txn'[w].user_id = t.user_id
      /\ txn'[w].hash = t.hash /\ txn'[w].model = t.model
      /\ txn'[w].seen = t.seen /\ txn'[w].payeeSeen = t.payeeSeen
  BY DEF Ahead
<1>4. \A rows : /\ DebitRecord(w, rows)' = DebitRecord(w, rows)
                /\ CreditRecord(w, rows)' = CreditRecord(w, rows)
                /\ UnlockRecord(w, rows)' = UnlockRecord(w, rows)
  BY <1>3 DEF DebitRecord, CreditRecord, UnlockRecord
<1>5. /\ Done(w, "debit")' => t.kind = "internal"
      /\ Done(w, "credit")' => t.kind \in {"internal", "paid", "duplicate"}
      /\ Done(w, "unlock")' => t.kind \in {"failed", "success"}
      /\ Statement(w) = "debit" => ~Done(w, "credit")
  BY <1>2, <1>3, ScriptNext DEF DoneTable, Ran, Params, Statement
<1> HIDE DEF none
<1> QED
  BY <1>1, <1>4, <1>5 DEF RecordsAgree, none
----------------------------------------------------------------------------
(* The other transactions, and the locks.                                  *)

\* A step that changes neither the tables nor a transaction leaves it in
\* agreement.
LEMMA AgreesStays ==
    ASSUME NEW v, Agrees(v), txn'[v] = txn[v], UNCHANGED store
    PROVE  Agrees(v)'
<1>1. /\ user' = user /\ payment' = payment /\ invoice' = invoice
  BY DEF store
<1>2. \A s : Done(v, s)' <=> Done(v, s)
  BY DEF Done
<1>3. /\ Donates(v)' = Donates(v) /\ Back(v)' = Back(v)
      /\ Closed(v)' = Closed(v) /\ NewPayment(v)' = NewPayment(v)
      /\ Settled(v)' = Settled(v)
  BY <1>1 DEF Donates, Back, Closed, NewPayment, Settled
<1>4. ModelAgrees(v)'
  BY <1>1 DEF Agrees, ModelAgrees
<1>5. AccountsAgree(v)'
  <2>1. \A k : Account(v, k)' = Account(v, k)
    BY <1>1 DEF Account, Over
  <2>2. \A k : Booked(v, k)' = Booked(v, k)
    BY <1>1, <1>2, <1>3 DEF Booked
  <2> QED
    BY <1>1, <1>2, <1>3, <2>1, <2>2 DEF Agrees, AccountsAgree
<1>6. RowsAgreeWith(v)'
  BY <1>1, <1>2, <1>3 DEF Agrees, RowsAgreeWith, InvoiceDupPaidMatches,
     InvoicePaidMatches, PayFailedMatches, PaySuccessMatches
<1>7. RecordsAgree(v)'
  <2>1. \A rows : /\ DebitRecord(v, rows)' = DebitRecord(v, rows)
                  /\ CreditRecord(v, rows)' = CreditRecord(v, rows)
                  /\ UnlockRecord(v, rows)' = UnlockRecord(v, rows)
    BY DEF DebitRecord, CreditRecord, UnlockRecord
  <2> QED
    BY <1>2, <2>1 DEF Agrees, RecordsAgree
<1> QED
  BY <1>4, <1>5, <1>6, <1>7 DEF Agrees

\* What the invariant says of one transaction.
LEMMA ConsistentOne ==
    ASSUME Consistent, NEW w \in DOMAIN txn
    PROVE  /\ TablesOK /\ Ledger /\ Agrees(w) /\ Params(w)
           /\ txn[w] \in Txn(txn[w]) /\ IsTable(txn[w].user, Users, User)
  BY DEF Consistent, TypeOK, StoreTypeOK, Txn, Params

\* A statement of w keeps the invariant, when it keeps w in agreement and
\* writes only rows that no other transaction has written.
LEMMA ConsistentAhead ==
    ASSUME Consistent, NEW w \in DOMAIN txn, Ahead(w), Statement(w) # "commit",
           Agrees(w)', IsTable(txn'[w].user, Users, User),
           \A v \in DOMAIN txn \ {w} :
              /\ DOMAIN txn'[w].user \cap DOMAIN txn[v].user = {}
              /\ DOMAIN txn'[w].payment \cap DOMAIN txn[v].payment = {}
              /\ DOMAIN txn'[w].invoice \cap DOMAIN txn[v].invoice = {}
    PROVE  Consistent'
<1>1. Params(w) /\ Params(w)'
  BY ConsistentOne, DoneNext
<1>2. TablesOK' /\ StoreTypeOK'
  BY DEF Ahead, store, Consistent, TypeOK, StoreTypeOK, TablesOK
<1>3. Ledger'
  BY DEF Ahead, store, Consistent, Ledger, RowsAgree, LockedFunds, NoOverdraft
<1>4. /\ IsTable(txn'[w].payment, Hashes, Payment)
      /\ IsTable(txn'[w].invoice, Hashes, Invoice)
      /\ IsTable(txn'[w].donation, Hashes, Donation)
      /\ txn'[w] \in Txn(txn'[w])
  BY <1>1, <1>2, TypesNext DEF Ahead, Params
<1>5. TypeOK'
  BY <1>2, <1>4 DEF Ahead, Consistent, TypeOK
<1>6. LocksAgree'
  <2> SUFFICES ASSUME NEW a \in DOMAIN txn, NEW b \in DOMAIN txn, a # b
               PROVE  /\ DOMAIN txn'[a].user \cap DOMAIN txn'[b].user = {}
                      /\ DOMAIN txn'[a].payment \cap DOMAIN txn'[b].payment = {}
                      /\ DOMAIN txn'[a].invoice \cap DOMAIN txn'[b].invoice = {}
    BY DEF LocksAgree, Ahead
  <2>1. CASE a = w
    <3>1. txn'[b] = txn[b]
      BY <2>1 DEF Ahead
    <3> QED
      BY <2>1, <3>1
  <2>2. CASE b = w
    <3>1. txn'[a] = txn[a]
      BY <2>2 DEF Ahead
    <3> QED
      BY <2>2, <3>1
  <2>3. CASE a # w /\ b # w
    <3>1. txn'[a] = txn[a] /\ txn'[b] = txn[b]
      BY <2>3 DEF Ahead
    <3> QED
      BY <3>1 DEF Consistent, LocksAgree
  <2> QED
    BY <2>1, <2>2, <2>3
<1>7. ASSUME NEW v \in DOMAIN txn
      PROVE  Agrees(v)'
  <2>1. CASE v = w
    BY <2>1
  <2>2. CASE v # w
    <3>1. txn'[v] = txn[v] /\ Agrees(v) /\ UNCHANGED store
      BY <2>2 DEF Ahead, Consistent
    <3> QED
      BY <3>1, AgreesStays
  <2> QED
    BY <2>1, <2>2
<1> QED
  BY <1>3, <1>5, <1>6, <1>7 DEF Consistent, Ahead

\* A transaction that ends without a trace leaves the others as they are.
LEMMA ConsistentRollback ==
    ASSUME Consistent, NEW w \in DOMAIN txn, Rollback(w), UNCHANGED faults
    PROVE  Consistent'
<1>1. /\ DOMAIN txn' = DOMAIN txn \ {w}
      /\ \A v \in DOMAIN txn' : v \in DOMAIN txn /\ txn'[v] = txn[v]
      /\ UNCHANGED <<store, faults, net>>
  BY DEF Rollback, End
<1>2. TypeOK'
  BY <1>1 DEF store, Consistent, TypeOK, StoreTypeOK, TablesOK
<1>3. Ledger'
  BY <1>1 DEF store, Consistent, Ledger, RowsAgree, LockedFunds, NoOverdraft
<1>4. LocksAgree'
  BY <1>1 DEF Consistent, LocksAgree
<1>5. \A v \in DOMAIN txn' : Agrees(v)'
  BY <1>1, AgreesStays DEF Consistent
<1> QED
  BY <1>2, <1>3, <1>4, <1>5 DEF Consistent
----------------------------------------------------------------------------
(* The statements.                                                         *)

\* An UPDATE of an account keeps the invariant.
LEMMA AccountStatement ==
    ASSUME Consistent, NEW w \in DOMAIN txn, Ahead(w),
           Statement(w) \in {"hold", "debit", "credit", "unlock", "donate"},
           NEW u \in Users, NEW row \in User, Free(w, "user", u),
           txn'[w].user = Insert(txn[w].user, u, row),
           txn'[w].payment = txn[w].payment, txn'[w].invoice = txn[w].invoice,
           txn'[w].donation = IF Statement(w) = "donate" /\ Donates(w) # "none"
                              THEN Insert(txn[w].donation, txn[w].hash,
                                          [user_id |-> Donates(w),
                                           amount |-> txn[w].model.paid_amount])
                              ELSE txn[w].donation,
           txn'[w].record =
                IF Statement(w) = "debit" THEN DebitRecord(w, txn[w].record)
                ELSE IF Statement(w) = "credit" THEN CreditRecord(w, txn[w].record)
                ELSE IF Statement(w) = "unlock" THEN UnlockRecord(w, txn[w].record)
                ELSE txn[w].record,
           row.balance = Booked(w, u)'.balance,
           row.lock_amount = Booked(w, u)'.lock_amount,
           row.donate_amount = Booked(w, u)'.donate_amount,
           Statement(w) \in {"hold", "debit"} => u = txn[w].user_id,
           Statement(w) \in {"credit", "unlock"} => u = txn[w].model.user_id,
           Statement(w) = "donate" => u = Donates(w),
           Statement(w) = "hold" => user[u].balance >= Total(txn[w].hash),
           Statement(w) = "debit" => user[u].balance >= InternalTotal(txn[w].hash)
    PROVE  Consistent'
<1>1. TablesOK /\ Agrees(w) /\ Params(w) /\ IsTable(txn[w].user, Users, User)
  BY ConsistentOne
<1>2. ModelAgrees(w)'
  BY <1>1, ModelAhead DEF Agrees
<1>3. AccountsAgree(w)'
  BY <1>1, AccountsAhead DEF Agrees
<1>4. RowsAgreeWith(w)'
  BY <1>1, RowsAhead DEF Agrees
<1>5. RecordsAgree(w)'
  BY <1>1, RecordsAhead DEF Agrees
<1>6. IsTable(txn'[w].user, Users, User)
  BY <1>1, InsertTable
<1>7. \A v \in DOMAIN txn \ {w} :
        /\ DOMAIN txn'[w].user \cap DOMAIN txn[v].user = {}
        /\ DOMAIN txn'[w].payment \cap DOMAIN txn[v].payment = {}
        /\ DOMAIN txn'[w].invoice \cap DOMAIN txn[v].invoice = {}
  <2>1. DOMAIN txn'[w].user = DOMAIN txn[w].user \cup {u}
    BY DEF Insert
  <2>2. \A v \in DOMAIN txn \ {w} : u \notin DOMAIN txn[v].user
    BY DEF Free, Holds
  <2> QED
    BY <2>1, <2>2 DEF Consistent, LocksAgree
<1> QED
  BY <1>2, <1>3, <1>4, <1>5, <1>6, <1>7, ConsistentAhead DEF Agrees

\* The UPDATE of an invoice or of a payment, and the INSERT of one, keep it.
LEMMA RowStatement ==
    ASSUME Consistent, NEW w \in DOMAIN txn, Ahead(w),
           Statement(w) \in {"insert", "close", "settle"},
           txn'[w].user = txn[w].user, txn'[w].donation = txn[w].donation,
           txn'[w].record = txn[w].record,
           txn'[w].invoice = IF Statement(w) = "close"
                             THEN Insert(txn[w].invoice, txn[w].hash, Closed(w))
                             ELSE txn[w].invoice,
           txn'[w].payment = IF Statement(w) = "insert"
                             THEN Insert(txn[w].payment, txn[w].hash, NewPayment(w))
                             ELSE IF Statement(w) = "settle"
                             THEN Insert(txn[w].payment, txn[w].hash, Settled(w))
                             ELSE txn[w].payment,
           Statement(w) = "insert" => txn[w].hash \notin DOMAIN payment,
           Gets(w)
    PROVE  Consistent'
<1>1. TablesOK /\ Agrees(w) /\ Params(w) /\ IsTable(txn[w].user, Users, User)
  BY ConsistentOne
<1>2. ModelAgrees(w)'
  BY <1>1, ModelAhead DEF Agrees
<1>3. AccountsAgree(w)'
  BY <1>1, AccountsStay DEF Agrees
<1>4. RowsAgreeWith(w)'
  BY <1>1, RowsAhead DEF Agrees, Gets
<1>5. RecordsAgree(w)'
  BY <1>1, RecordsAhead DEF Agrees
<1>6. \A v \in DOMAIN txn \ {w} :
        /\ DOMAIN txn'[w].user \cap DOMAIN txn[v].user = {}
        /\ DOMAIN txn'[w].payment \cap DOMAIN txn[v].payment = {}
        /\ DOMAIN txn'[w].invoice \cap DOMAIN txn[v].invoice = {}
  <2>1. CASE Statement(w) = "close"
    <3>1. Wanted(w) = <<"invoice", txn[w].hash>>
      BY <2>1 DEF Wanted
    <3>2. \A v \in DOMAIN txn \ {w} : txn[w].hash \notin DOMAIN txn[v].invoice
      BY <3>1 DEF Gets, Free, Holds
    <3>3. DOMAIN txn'[w].invoice = DOMAIN txn[w].invoice \cup {txn[w].hash}
      BY <2>1 DEF Insert
    <3>4. txn'[w].payment = txn[w].payment
      BY <2>1
    <3> QED
      BY <3>2, <3>3, <3>4 DEF Consistent, LocksAgree
  <2>2. CASE Statement(w) \in {"insert", "settle"}
    <3>1. Wanted(w) = <<"payment", txn[w].hash>>
      BY <2>2 DEF Wanted
    <3>2. \A v \in DOMAIN txn \ {w} : txn[w].hash \notin DOMAIN txn[v].payment
      BY <3>1 DEF Gets, Free, Holds
    <3>3. DOMAIN txn'[w].payment = DOMAIN txn[w].payment \cup {txn[w].hash}
      BY <2>2 DEF Insert
    <3>4. txn'[w].invoice = txn[w].invoice
      BY <2>2
    <3> QED
      BY <3>2, <3>3, <3>4 DEF Consistent, LocksAgree
  <2> QED
    BY <2>1, <2>2
<1> QED
  BY <1>1, <1>2, <1>3, <1>4, <1>5, <1>6, ConsistentAhead DEF Agrees

\* pay's UPDATE of the account.
LEMMA HoldConsistent ==
    ASSUME Consistent, NEW w, Hold(w)
    PROVE  Consistent'
<1>1. w \in DOMAIN txn /\ Statement(w) = "hold"
  BY DEF Hold, Runs
<1>2. TablesOK /\ Agrees(w) /\ Params(w) /\ txn[w] \in Txn(txn[w])
  BY <1>1, ConsistentOne
<1>3. PICK u \in Users, h \in Hashes : u = txn[w].user_id /\ h = txn[w].hash
  BY <1>2 DEF Params
<1>4. PICK a \in User : a = Account(w, u) /\ a = Booked(w, u)
  BY <1>2, BookedType DEF Agrees, AccountsAgree
<1>5. Total(h) \in Int /\ a.balance - Total(h) \in Int /\ a.lock_amount + Total(h) \in Int
  BY TotalsArePositive DEF User
<1>6. PICK row : row = [a EXCEPT !.balance = a.balance - Total(h),
                                 !.lock_amount = a.lock_amount + Total(h)]
  OBVIOUS
<1>7. /\ row \in User /\ row.balance = a.balance - Total(h)
      /\ row.lock_amount = a.lock_amount + Total(h)
      /\ row.donate_amount = a.donate_amount
  BY <1>4, <1>5, <1>6 DEF User
<1>8. Write(w, "user", u, row, txn[w].record)
  BY <1>3, <1>4, <1>6 DEF Hold
<1>9. /\ Ahead(w) /\ txn'[w].record = txn[w].record
      /\ txn'[w].user = Insert(txn[w].user, u, row)
      /\ txn'[w].payment = txn[w].payment /\ txn'[w].invoice = txn[w].invoice
      /\ txn'[w].donation = txn[w].donation
  BY <1>1, <1>2, <1>8, WriteAhead
<1>10. /\ Booked(w, u)'.balance = a.balance - Total(h)
       /\ Booked(w, u)'.lock_amount = a.lock_amount + Total(h)
       /\ Booked(w, u)'.donate_amount = a.donate_amount
  BY <1>1, <1>2, <1>3, <1>4, <1>5, <1>9, BookedNext DEF Agrees, User
<1>11. Free(w, "user", u) /\ a.balance >= Total(h)
  BY <1>1, <1>3, <1>4 DEF Hold, Gets, Wanted, Matches
<1>12. a.balance = user[u].balance
  <2>1. /\ ~Done(w, "hold") /\ ~Done(w, "debit") /\ ~Done(w, "credit")
        /\ ~Done(w, "unlock")
    BY <1>1, <1>2, WhatIsDone, ScriptNext DEF DoneTable, Ran, Params, Statement
  <2>2. user[u].balance \in Int
    BY <1>2 DEF TablesOK, User
  <2> QED
    BY <1>4, <2>1, <2>2 DEF Booked
<1> QED
  BY <1>1, <1>3, <1>7, <1>9, <1>10, <1>11, <1>12, AccountStatement
\* internal_pay's UPDATE of the payer.
LEMMA DebitConsistent ==
    ASSUME Consistent, NEW w, Debit(w)
    PROVE  Consistent'
<1>1. w \in DOMAIN txn /\ Statement(w) = "debit"
  BY DEF Debit, Runs
<1>2. TablesOK /\ Agrees(w) /\ Params(w) /\ txn[w] \in Txn(txn[w])
  BY <1>1, ConsistentOne
<1>3. PICK u \in Users, h \in Hashes : u = txn[w].user_id /\ h = txn[w].hash
  BY <1>2 DEF Params
<1>4. PICK a \in User : a = Account(w, u) /\ a = Booked(w, u)
  BY <1>2, BookedType DEF Agrees, AccountsAgree
<1>5. InternalTotal(h) \in Int /\ a.balance - InternalTotal(h) \in Int
  BY TotalsArePositive DEF User
<1>6. PICK row : row = [a EXCEPT !.balance = a.balance - InternalTotal(h)]
  OBVIOUS
<1>7. /\ row \in User /\ row.balance = a.balance - InternalTotal(h)
      /\ row.lock_amount = a.lock_amount /\ row.donate_amount = a.donate_amount
  BY <1>4, <1>5, <1>6 DEF User
<1>8. Write(w, "user", u, row, DebitRecord(w, txn[w].record))
  BY <1>3, <1>4, <1>6 DEF Debit
<1>9. /\ Ahead(w) /\ txn'[w].record = DebitRecord(w, txn[w].record)
      /\ txn'[w].user = Insert(txn[w].user, u, row)
      /\ txn'[w].payment = txn[w].payment /\ txn'[w].invoice = txn[w].invoice
      /\ txn'[w].donation = txn[w].donation
  BY <1>1, <1>2, <1>8, WriteAhead
<1>10. /\ Booked(w, u)'.balance = a.balance - InternalTotal(h)
       /\ Booked(w, u)'.lock_amount = a.lock_amount
       /\ Booked(w, u)'.donate_amount = a.donate_amount
  BY <1>1, <1>2, <1>3, <1>4, <1>5, <1>9, BookedNext DEF Agrees, User
<1>11. Free(w, "user", u) /\ a.balance >= InternalTotal(h)
  BY <1>1, <1>3, <1>4 DEF Debit, Gets, Wanted, Matches
<1>12. a.balance = user[u].balance
  <2>1. /\ ~Done(w, "hold") /\ ~Done(w, "debit") /\ ~Done(w, "credit")
        /\ ~Done(w, "unlock")
    BY <1>1, <1>2, WhatIsDone, ScriptNext DEF DoneTable, Ran, Params, Statement
  <2>2. user[u].balance \in Int
    BY <1>2 DEF TablesOK, User
  <2> QED
    BY <1>4, <2>1, <2>2 DEF Booked
<1> QED
  BY <1>1, <1>3, <1>7, <1>9, <1>10, <1>11, <1>12, AccountStatement

\* The UPDATE of the payee.
LEMMA CreditConsistent ==
    ASSUME Consistent, NEW w, Credit(w)
    PROVE  Consistent'
<1>1. w \in DOMAIN txn /\ Statement(w) = "credit"
  BY DEF Credit, Runs
<1>2. TablesOK /\ Agrees(w) /\ Params(w) /\ txn[w] \in Txn(txn[w])
  BY <1>1, ConsistentOne
<1>3. PICK u \in Users, h \in Hashes :
        u = txn[w].model.user_id /\ h = txn[w].hash
  <2>1. txn[w].kind \in {"internal", "paid", "duplicate"}
    BY <1>1, <1>2, ScriptNext DEF Params, Statement
  <2> QED
    BY <1>2, <2>1, InvoiceAmounts DEF Params, Agrees
<1>4. PICK a \in User : a = Account(w, u) /\ a = Booked(w, u)
  BY <1>2, BookedType DEF Agrees, AccountsAgree
<1>5. Amount[h] \in Int /\ a.balance + Amount[h] \in Int
  BY FeesAreNat DEF User
<1>6. PICK row : row = [a EXCEPT !.balance = a.balance + Amount[h]]
  OBVIOUS
<1>7. /\ row \in User /\ row.balance = a.balance + Amount[h]
      /\ row.lock_amount = a.lock_amount /\ row.donate_amount = a.donate_amount
  BY <1>4, <1>5, <1>6 DEF User
<1>8. Write(w, "user", u, row, CreditRecord(w, txn[w].record))
  BY <1>3, <1>4, <1>6 DEF Credit
<1>9. /\ Ahead(w) /\ txn'[w].record = CreditRecord(w, txn[w].record)
      /\ txn'[w].user = Insert(txn[w].user, u, row)
      /\ txn'[w].payment = txn[w].payment /\ txn'[w].invoice = txn[w].invoice
      /\ txn'[w].donation = txn[w].donation
  BY <1>1, <1>2, <1>8, WriteAhead
<1>10. /\ Booked(w, u)'.balance = a.balance + Amount[h]
       /\ Booked(w, u)'.lock_amount = a.lock_amount
       /\ Booked(w, u)'.donate_amount = a.donate_amount
  BY <1>1, <1>2, <1>3, <1>4, <1>5, <1>9, BookedNext DEF Agrees, User
<1>11. Free(w, "user", u)
  BY <1>1, <1>3, <1>4 DEF Credit, Gets, Wanted
<1> QED
  BY <1>1, <1>3, <1>7, <1>9, <1>10, <1>11, AccountStatement

\* sync_donation.
LEMMA DonateConsistent ==
    ASSUME Consistent, NEW w, Donate(w)
    PROVE  Consistent'
<1>1. w \in DOMAIN txn /\ Statement(w) = "donate"
  BY DEF Donate, Runs
<1>2. TablesOK /\ Agrees(w) /\ Params(w) /\ txn[w] \in Txn(txn[w])
  BY <1>1, ConsistentOne
<1>3. Donates(w) \in Users \cup {"none"} /\ txn[w].model.paid_amount \in Nat
  <2>1. txn[w].kind \in {"internal", "paid"}
    BY <1>1, <1>2, ScriptNext DEF Params, Statement
  <2> QED
    BY <1>2, <2>1, InvoiceAmounts DEF Params, Agrees
<1>4. CASE Donates(w) = "none"
  <2>0. Skip(w)
    BY <1>4 DEF Donate
  <2>1. /\ Ahead(w) /\ txn'[w].record = txn[w].record
        /\ txn'[w].user = txn[w].user /\ txn'[w].payment = txn[w].payment
        /\ txn'[w].invoice = txn[w].invoice /\ txn'[w].donation = txn[w].donation
    BY <1>1, <1>2, <2>0 DEF Skip, Txn, Ahead
  <2>2. Donates(w) \notin Users
    BY <1>4, TransactionsAssumption
  <2>3. ModelAgrees(w)'
    BY <1>2, <2>1, ModelAhead DEF Agrees
  <2>4. AccountsAgree(w)'
    BY <1>1, <1>2, <2>1, <2>2, AccountsStay DEF Agrees
  <2>5. RowsAgreeWith(w)'
    BY <1>1, <1>2, <1>4, <2>1, RowsAhead DEF Agrees
  <2>6. RecordsAgree(w)'
    BY <1>1, <1>2, <2>1, RecordsAhead DEF Agrees
  <2>7. IsTable(txn'[w].user, Users, User)
    BY <1>1, <2>1, ConsistentOne
  <2>8. \A v \in DOMAIN txn \ {w} :
          /\ DOMAIN txn'[w].user \cap DOMAIN txn[v].user = {}
          /\ DOMAIN txn'[w].payment \cap DOMAIN txn[v].payment = {}
          /\ DOMAIN txn'[w].invoice \cap DOMAIN txn[v].invoice = {}
    BY <1>1, <2>1 DEF Consistent, LocksAgree
  <2> QED
    BY <1>1, <2>1, <2>3, <2>4, <2>5, <2>6, <2>7, <2>8, ConsistentAhead DEF Agrees
<1>5. CASE Donates(w) # "none"
  <2>1. PICK u \in Users, n \in Nat : u = Donates(w) /\ n = txn[w].model.paid_amount
    BY <1>3, <1>5
  <2>2. PICK a \in User : a = Account(w, u) /\ a = Booked(w, u)
    BY <1>2, BookedType DEF Agrees, AccountsAgree
  <2>3. a.donate_amount + n \in Int
    BY <2>1, <2>2 DEF User
  <2>4. PICK row : row = [a EXCEPT !.donate_amount = a.donate_amount + n]
    OBVIOUS
  <2>5. /\ row \in User /\ row.balance = a.balance
        /\ row.lock_amount = a.lock_amount
        /\ row.donate_amount = a.donate_amount + n
    BY <2>2, <2>3, <2>4 DEF User
  <2>6. /\ txn' = [txn EXCEPT
              ![w].donation = Insert(@, txn[w].hash,
                                     [user_id |-> Donates(w), amount |-> n]),
              ![w].user = Insert(@, u, row), ![w].at = @ + 1]
        /\ UNCHANGED <<store, faults, net>>
        /\ Gets(w)
    BY <1>5, <2>1, <2>2, <2>4 DEF Donate
  <2>7. /\ Ahead(w) /\ txn'[w].record = txn[w].record
        /\ txn'[w].user = Insert(txn[w].user, u, row)
        /\ txn'[w].payment = txn[w].payment
        /\ txn'[w].invoice = txn[w].invoice
        /\ txn'[w].donation = Insert(txn[w].donation, txn[w].hash,
                                     [user_id |-> Donates(w), amount |-> n])
    BY <1>1, <1>2, <2>6 DEF Txn, Ahead
  <2>8. /\ Booked(w, u)'.balance = a.balance
        /\ Booked(w, u)'.lock_amount = a.lock_amount
        /\ Booked(w, u)'.donate_amount = a.donate_amount + n
    BY <1>1, <1>2, <2>1, <2>2, <2>7, BookedNext DEF Agrees, User
  <2>9. Free(w, "user", u)
    BY <1>1, <2>1, <2>6 DEF Gets, Wanted
  <2> QED
    BY <1>1, <1>5, <2>1, <2>5, <2>7, <2>8, <2>9, AccountStatement
<1> QED
  BY <1>3, <1>4, <1>5

\* The INSERT of a payment.
LEMMA InsertConsistent ==
    ASSUME Consistent, NEW w, InsertPayment(w)
    PROVE  Consistent'
<1>1. w \in DOMAIN txn /\ Statement(w) = "insert" /\ Gets(w)
  BY DEF InsertPayment, Runs
<1>2. TablesOK /\ Agrees(w) /\ Params(w) /\ txn[w] \in Txn(txn[w])
  BY <1>1, ConsistentOne
<1>3. CASE txn[w].hash \in DOMAIN payment
  BY <1>1, <1>3, ConsistentRollback DEF InsertPayment
<1>4. CASE txn[w].hash \notin DOMAIN payment
  <2>1. Write(w, "payment", txn[w].hash, NewPayment(w), txn[w].record)
    BY <1>4 DEF InsertPayment
  <2>2. /\ Ahead(w) /\ txn'[w].record = txn[w].record
        /\ txn'[w].payment = Insert(txn[w].payment, txn[w].hash, NewPayment(w))
        /\ txn'[w].user = txn[w].user /\ txn'[w].invoice = txn[w].invoice
        /\ txn'[w].donation = txn[w].donation
    BY <1>1, <1>2, <2>1, WriteAhead
  <2> QED
    BY <1>1, <1>4, <2>2, RowStatement
<1> QED
  BY <1>3, <1>4

\* The UPDATE of an invoice.
LEMMA CloseConsistent ==
    ASSUME Consistent, NEW w, Close(w)
    PROVE  Consistent'
<1>1. w \in DOMAIN txn /\ Statement(w) = "close" /\ Gets(w)
  BY DEF Close, Runs
<1>2. TablesOK /\ Agrees(w) /\ Params(w) /\ txn[w] \in Txn(txn[w])
  BY <1>1, ConsistentOne
<1>3. Write(w, "invoice", txn[w].hash, Closed(w), txn[w].record)
  BY DEF Close
<1>4. /\ Ahead(w) /\ txn'[w].record = txn[w].record
      /\ txn'[w].invoice = Insert(txn[w].invoice, txn[w].hash, Closed(w))
      /\ txn'[w].user = txn[w].user /\ txn'[w].payment = txn[w].payment
      /\ txn'[w].donation = txn[w].donation
  BY <1>1, <1>2, <1>3, WriteAhead
<1> QED
  BY <1>1, <1>4, RowStatement

\* The UPDATE of a payment.
LEMMA SettleConsistent ==
    ASSUME Consistent, NEW w, Settle(w)
    PROVE  Consistent'
<1>1. w \in DOMAIN txn /\ Statement(w) = "settle" /\ Gets(w)
  BY DEF Settle, Runs
<1>2. TablesOK /\ Agrees(w) /\ Params(w) /\ txn[w] \in Txn(txn[w])
  BY <1>1, ConsistentOne
<1>3. Write(w, "payment", txn[w].hash, Settled(w), txn[w].record)
  BY DEF Settle
<1>4. /\ Ahead(w) /\ txn'[w].record = txn[w].record
      /\ txn'[w].payment = Insert(txn[w].payment, txn[w].hash, Settled(w))
      /\ txn'[w].user = txn[w].user /\ txn'[w].invoice = txn[w].invoice
      /\ txn'[w].donation = txn[w].donation
  BY <1>1, <1>2, <1>3, WriteAhead
<1> QED
  BY <1>1, <1>4, RowStatement
\* Once the payment is settled, its lock is still in the account: nobody else
\* can settle it, and the account's lock is the sum over pending payments.
LEMMA SettledLock ==
    ASSUME Consistent, NEW w \in DOMAIN txn, Done(w, "settle")
    PROVE  LET h == txn[w].hash
               m == txn[w].model
           IN  /\ txn[w].kind \in {"failed", "success"} /\ h \in DOMAIN payment
               /\ payment[h].status = "Unpaid" /\ payment[h].user_id = m.user_id
               /\ payment[h].lock_amount = m.lock_amount
               /\ user[m.user_id].lock_amount >= m.lock_amount
<1> DEFINE h == txn[w].hash
           m == txn[w].model
<1>1. TablesOK /\ Ledger /\ Agrees(w) /\ Params(w)
  BY ConsistentOne
<1>2. txn[w].kind \in {"failed", "success"} /\ ~Done(w, "insert")
  BY <1>1, WhatIsDone DEF DoneTable, Ran
<1>3. /\ h \in Hashes /\ h \in DOMAIN payment /\ m.user_id = payment[h].user_id
      /\ m.lock_amount = Total(h)
  BY <1>1, <1>2 DEF Agrees, ModelAgrees, Params
<1>4. IF txn[w].kind = "failed" THEN PayFailedMatches(h, m)
      ELSE PaySuccessMatches(h, m)
  BY <1>1, <1>2 DEF Agrees, RowsAgreeWith
<1>5. payment[h].lock_amount = m.lock_amount
  BY <1>2, <1>4 DEF PayFailedMatches, PaySuccessMatches
<1>6. payment[h].status = "Unpaid"
  BY <1>1, <1>3, <1>5, SameLockIsPending
<1> QED
  BY <1>1, <1>2, <1>3, <1>5, <1>6, LockIsThere

\* The UPDATE that unlocks: it finds its row.
LEMMA UnlockConsistent ==
    ASSUME Consistent, NEW w, UnlockFunds(w)
    PROVE  Consistent'
<1>1. w \in DOMAIN txn /\ Statement(w) = "unlock"
  BY DEF UnlockFunds, Runs
<1>2. TablesOK /\ Agrees(w) /\ Params(w) /\ txn[w] \in Txn(txn[w])
  BY <1>1, ConsistentOne
<1>3. /\ Done(w, "settle") /\ ~Done(w, "hold") /\ ~Done(w, "unlock")
      /\ txn[w].kind \in {"failed", "success"}
  BY <1>1, <1>2, WhatIsDone, ScriptNext DEF DoneTable, Ran, Params, Statement
<1>4. PICK u \in Users, l \in Nat, back \in Int :
        u = txn[w].model.user_id /\ l = txn[w].model.lock_amount /\ back = Back(w)
  BY <1>2, <1>3, SettlementAmounts DEF Agrees
<1>5. PICK a \in User : a = Account(w, u) /\ a = Booked(w, u)
  BY <1>2, BookedType DEF Agrees, AccountsAgree
<1>6. Matches(w)
  <2>1. user[u].lock_amount >= l
    BY <1>1, <1>3, <1>4, SettledLock
  <2>2. user[u].lock_amount \in Int
    BY <1>2 DEF TablesOK, User
  <2>3. a.lock_amount = user[u].lock_amount
    BY <1>3, <1>5, <2>2 DEF Booked
  <2> QED
    BY <1>1, <1>4, <1>5, <2>1, <2>3 DEF Matches
<1>7. a.balance + back \in Int /\ a.lock_amount - l \in Int
  BY <1>4, <1>5 DEF User
<1>8. PICK row : row = [a EXCEPT !.balance = a.balance + back,
                                 !.lock_amount = a.lock_amount - l]
  OBVIOUS
<1>9. /\ row \in User /\ row.balance = a.balance + back
      /\ row.lock_amount = a.lock_amount - l
      /\ row.donate_amount = a.donate_amount
  BY <1>5, <1>7, <1>8 DEF User
<1>10. Write(w, "user", u, row, UnlockRecord(w, txn[w].record)) /\ Gets(w)
  BY <1>4, <1>5, <1>6, <1>8 DEF UnlockFunds
<1>11. /\ Ahead(w) /\ txn'[w].record = UnlockRecord(w, txn[w].record)
       /\ txn'[w].user = Insert(txn[w].user, u, row)
       /\ txn'[w].payment = txn[w].payment /\ txn'[w].invoice = txn[w].invoice
       /\ txn'[w].donation = txn[w].donation
  BY <1>1, <1>2, <1>10, WriteAhead
<1>12. /\ Booked(w, u)'.balance = a.balance + back
       /\ Booked(w, u)'.lock_amount = a.lock_amount - l
       /\ Booked(w, u)'.donate_amount = a.donate_amount
  BY <1>1, <1>2, <1>4, <1>5, <1>7, <1>11, BookedNext DEF Agrees, User
<1>13. Free(w, "user", u)
  BY <1>1, <1>4, <1>10 DEF Gets, Wanted
<1> QED
  BY <1>1, <1>4, <1>9, <1>11, <1>12, <1>13, AccountStatement

----------------------------------------------------------------------------
(* The beginnings.                                                         *)

\* A transaction that begins has written nothing, and agrees with the tables
\* if what it has read does.
LEMMA BeginConsistent ==
    ASSUME Consistent, NEW w \in Workers, NEW kind \in Kinds, NEW u \in Users,
           NEW h \in Hashes, NEW model, NEW seen \in Int, NEW payeeSeen \in Int,
           Begin(w, kind, u, h, model, seen, payeeSeen),
           kind \in {"internal", "paid", "duplicate", "cancel"} =>
                model \in Invoice /\ h \in DOMAIN invoice,
           kind \in {"failed", "success"} =>
                /\ model \in Payment /\ h \in DOMAIN payment
                /\ model.user_id = payment[h].user_id
                /\ model.lock_amount = Total(h)
                /\ model.service_fee = ServiceFee(Amount[h])
    PROVE  Consistent'
<1> DEFINE none == [v \in Users |-> <<>>]
           new  == [kind |-> kind, user_id |-> u, hash |-> h, model |-> model,
                    seen |-> seen, payeeSeen |-> payeeSeen, at |-> 1,
                    user |-> <<>>, payment |-> <<>>, invoice |-> <<>>,
                    donation |-> <<>>, record |-> none]
<1>1. /\ w \notin DOMAIN txn /\ DOMAIN txn' = DOMAIN txn \cup {w}
      /\ txn'[w] = new /\ \A v \in DOMAIN txn : txn'[v] = txn[v]
      /\ UNCHANGED <<store, faults, net>>
  BY DEF Begin, Insert
<1>2. /\ txn'[w].kind = kind /\ txn'[w].user_id = u /\ txn'[w].hash = h
      /\ txn'[w].model = model /\ txn'[w].seen = seen
      /\ txn'[w].payeeSeen = payeeSeen /\ txn'[w].at = 1
      /\ txn'[w].user = <<>> /\ txn'[w].payment = <<>> /\ txn'[w].invoice = <<>>
      /\ txn'[w].donation = <<>> /\ txn'[w].record = none
  BY <1>1
<1>3. txn'[w] \in Txn(txn'[w])
  <2>1. none \in [Users -> Seq(Record)]
    OBVIOUS
  <2> HIDE DEF none
  <2> QED
    BY <1>1, <2>1 DEF Txn
<1> HIDE DEF new, none
<1>4. Params(w)'
  BY <1>2 DEF Params
<1>5. /\ ~Done(w, "hold")' /\ ~Done(w, "debit")' /\ ~Done(w, "credit")'
      /\ ~Done(w, "unlock")' /\ ~Done(w, "insert")' /\ ~Done(w, "close")'
      /\ ~Done(w, "settle")' /\ ~Done(w, "donate")'
  BY <1>2, <1>4, WhatIsDone DEF DoneTable, Ran
<1>6. ModelAgrees(w)'
  BY <1>1, <1>2 DEF ModelAgrees, store
<1>7. TablesOK /\ TablesOK' /\ StoreTypeOK'
  BY <1>1 DEF store, Consistent, TypeOK, StoreTypeOK, TablesOK
<1>8. AccountsAgree(w)'
  <2>1. ASSUME NEW k \in Users
        PROVE  Account(w, k)' = Booked(w, k)'
    <3>1. user'[k] \in User /\ Booked(w, k)' \in User
      BY <1>4, <1>6, <1>7, BookedTypeNext DEF TablesOK
    <3>2. Account(w, k)' = user'[k]
      BY <1>2, <1>7, EmptyTable DEF Account, Over, TablesOK
    <3>3. /\ Booked(w, k)'.balance = user'[k].balance
          /\ Booked(w, k)'.lock_amount = user'[k].lock_amount
          /\ Booked(w, k)'.donate_amount = user'[k].donate_amount
      BY <1>5, <3>1 DEF Booked, User
    <3> QED
      BY <3>1, <3>2, <3>3, SameUser
  <2> QED
    BY <1>2, <1>5, <2>1, EmptyTable DEF AccountsAgree
<1>9. RowsAgreeWith(w)'
  BY <1>2, <1>5 DEF RowsAgreeWith
<1>10. RecordsAgree(w)'
  BY <1>2, <1>5 DEF RecordsAgree, none
<1>11. TypeOK'
  BY <1>1, <1>2, <1>3, <1>7, EmptyTable DEF Consistent, TypeOK
<1>12. Ledger'
  BY <1>1 DEF store, Consistent, Ledger, RowsAgree, LockedFunds, NoOverdraft
<1>13. LocksAgree'
  BY <1>1, <1>2, EmptyTable DEF Consistent, LocksAgree
<1>14. ASSUME NEW v \in DOMAIN txn
       PROVE  Agrees(v)'
  BY <1>1, AgreesStays DEF Consistent
<1> QED
  BY <1>1, <1>6, <1>8, <1>9, <1>10, <1>11, <1>12, <1>13, <1>14
     DEF Consistent, Agrees

\* pay and internal_pay.
LEMMA BeginPayConsistent ==
    ASSUME Consistent, NEW w \in Workers, NEW u \in Users, NEW h \in Hashes,
           BeginPay(w, u, h) \/ BeginInternal(w, u, h)
    PROVE  Consistent'
<1>1. CASE BeginPay(w, u, h)
  BY <1>1, BeginConsistent DEF BeginPay, Kinds
<1>2. CASE BeginInternal(w, u, h)
  <2>1. h \in DOMAIN invoice /\ invoice[h] \in Invoice
    BY <1>2 DEF BeginInternal, Consistent, TypeOK, StoreTypeOK, TablesOK, IsTable
  <2>2. user[u].balance \in Int /\ user[invoice[h].user_id].balance \in Int
    BY <2>1 DEF Consistent, TypeOK, StoreTypeOK, TablesOK, Invoice, User
  <2> QED
    BY <1>2, <2>1, <2>2, BeginConsistent DEF BeginInternal, Kinds
<1> QED
  BY <1>1, <1>2

\* pay_failed and pay_success.
LEMMA BeginSettleConsistent ==
    ASSUME Consistent, NEW w \in Workers, NEW h, BeginSettle(w, h)
    PROVE  Consistent'
<1>1. /\ h \in Hashes /\ h \in DOMAIN payment /\ payment[h] \in Payment
      /\ payment[h].status = "Unpaid"
  BY DEF BeginSettle, Consistent, TypeOK, StoreTypeOK, TablesOK, IsTable
<1>2. /\ payment[h].lock_amount = Total(h)
      /\ payment[h].service_fee = ServiceFee(Amount[h])
  BY <1>1 DEF Consistent, Ledger, RowsAgree
<1>3. PICK u \in Users, seen \in Int, kind \in {"failed", "success"} :
        Begin(w, kind, u, h, payment[h], seen, 0) /\ u = payment[h].user_id
  <2>1. payment[h].user_id \in Users /\ user[payment[h].user_id].balance \in Int
    BY <1>1 DEF Consistent, TypeOK, StoreTypeOK, TablesOK, Payment, User
  <2>2. net[h] \in {"failed", "success"}
    BY <1>1 DEF Consistent, TypeOK
  <2> QED
    BY <2>1, <2>2 DEF BeginSettle
<1>4. kind \in Kinds
  BY <1>3 DEF Kinds
<1> QED
  BY <1>1, <1>2, <1>3, <1>4, BeginConsistent

\* sync_invoices.
LEMMA BeginCloseConsistent ==
    ASSUME Consistent, NEW h, BeginClose(h)
    PROVE  Consistent'
<1>1. h \in Hashes /\ h \in DOMAIN invoice /\ invoice[h] \in Invoice
  BY DEF BeginClose, Consistent, TypeOK, StoreTypeOK, TablesOK, IsTable
<1>2. PICK u \in Users, seen \in Int, kind \in {"paid", "duplicate", "cancel"} :
        Begin(Task, kind, u, h, invoice[h], seen, 0)
  <2>1. invoice[h].user_id \in Users /\ user[invoice[h].user_id].balance \in Int
    BY <1>1 DEF Consistent, TypeOK, StoreTypeOK, TablesOK, Invoice, User
  <2> QED
    BY <2>1 DEF BeginClose
<1>3. Task \in Workers /\ kind \in Kinds
  BY <1>2, TransactionsAssumption DEF Kinds
<1> QED
  BY <1>1, <1>2, <1>3, BeginConsistent
----------------------------------------------------------------------------
(* The commit.                                                             *)

\* Written rows over a table: none, ...
LEMMA OverNone ==
    ASSUME NEW table, NEW Keys, NEW Row, IsTable(table, Keys, Row)
    PROVE  Over(<<>>, table) = table
  BY EmptyTable DEF Over, IsTable

\* ... or one, which is inserted or replaces the row that is there.
LEMMA OverOne ==
    ASSUME NEW table, NEW Keys, NEW Row, IsTable(table, Keys, Row),
           NEW h, NEW row
    PROVE  /\ Over(Insert(<<>>, h, row), table) = Insert(table, h, row)
           /\ h \in DOMAIN table =>
                Over(Insert(<<>>, h, row), table) = [table EXCEPT ![h] = row]
<1> DEFINE one == Insert(<<>>, h, row)
<1>1. DOMAIN one = {h} /\ one[h] = row
  BY EmptyTable DEF Insert
<1> HIDE DEF one
<1>2. Over(one, table) = [g \in {h} \cup DOMAIN table |->
                            IF g = h THEN row ELSE table[g]]
  BY <1>1 DEF Over
<1>3. Over(one, table) = Insert(table, h, row)
  BY <1>2 DEF Insert
<1>4. h \in DOMAIN table => Over(one, table) = [table EXCEPT ![h] = row]
  BY <1>2 DEF IsTable
<1> QED
  BY <1>3, <1>4 DEF one

\* Accounts are the same when their fields are.
LEMMA SameUsers ==
    ASSUME NEW f \in [Users -> User], NEW g \in [Users -> User],
           \A k \in Users : /\ f[k].balance = g[k].balance
                            /\ f[k].lock_amount = g[k].lock_amount
                            /\ f[k].donate_amount = g[k].donate_amount
    PROVE  f = g
<1>1. \A k \in Users : f[k] = g[k]
  BY SameUser
<1> QED
  BY <1>1

\* The statements of the accounts; statements that are joined.
Statements == [Users -> Seq(Record)]

None == [v \in Users |-> <<>>]

Joined(out, base, rows) == \A v \in Users : out[v] = base[v] \o rows[v]

Sources == {"admin", "external_payment", "internal_payment", "duplicate_payment"}

\* Statements joined with no record, ...
LEMMA JoinNone ==
    ASSUME NEW base \in Statements, NEW out \in Statements,
           Joined(out, base, None)
    PROVE  out = base
<1>1. \A v \in Users : base[v] \o <<>> = base[v]
  BY DEF Statements
<1>2. \A v \in Users : out[v] = base[v]
  BY <1>1 DEF Joined, None
<1> QED
  BY <1>2 DEF Statements

\* ... with one more than were joined before, ...
LEMMA JoinRecord ==
    ASSUME NEW base \in Statements, NEW rows \in Statements,
           NEW joined \in Statements, NEW out \in Statements,
           NEW u \in Users, NEW seen \in Int, NEW change \in Int, NEW h \in Hashes,
           NEW source \in Sources,
           NEW more \in Statements,
           more = NewRecord(rows, u, seen, change, h, source),
           Joined(joined, base, rows), Joined(out, base, more)
    PROVE  out = NewRecord(joined, u, seen, change, h, source)
<1>1. PICK r \in Record : r = [balance |-> seen, change |-> change, hash |-> h,
                               source |-> source]
  BY DEF Record, Sources
<1>2. \A s, t \in Seq(Record) : s \o Append(t, r) = Append(s \o t, r)
  OBVIOUS
<1>3. \A v \in Users : more[v] = IF v = u THEN Append(rows[v], r) ELSE rows[v]
  BY <1>1 DEF NewRecord, Statements
<1>4. NewRecord(joined, u, seen, change, h, source)
        = [v \in Users |-> IF v = u THEN Append(joined[v], r) ELSE joined[v]]
  BY <1>1 DEF NewRecord, Statements
<1>5. ASSUME NEW v \in Users
      PROVE  out[v] = IF v = u THEN Append(joined[v], r) ELSE joined[v]
  <2>1. base[v] \in Seq(Record) /\ rows[v] \in Seq(Record)
    BY DEF Statements
  <2> QED
    BY <1>2, <1>3, <2>1 DEF Joined
<1> QED
  BY <1>4, <1>5 DEF Statements

\* ... and with one.
LEMMA JoinOne ==
    ASSUME NEW base \in Statements, NEW out \in Statements,
           NEW u \in Users, NEW seen \in Int, NEW change \in Int, NEW h \in Hashes,
           NEW source \in Sources,
           NEW rows \in Statements,
           rows = NewRecord(None, u, seen, change, h, source),
           Joined(out, base, rows)
    PROVE  out = NewRecord(base, u, seen, change, h, source)
<1>1. PICK r \in Record : r = [balance |-> seen, change |-> change, hash |-> h,
                               source |-> source]
  BY DEF Record, Sources
<1>2. \A s \in Seq(Record) : s \o <<>> = s /\ s \o Append(<<>>, r) = Append(s, r)
  OBVIOUS
<1>3. \A v \in Users : rows[v] = IF v = u THEN Append(<<>>, r) ELSE <<>>
  BY <1>1 DEF NewRecord, Statements, None
<1>4. NewRecord(base, u, seen, change, h, source)
        = [v \in Users |-> IF v = u THEN Append(base[v], r) ELSE base[v]]
  BY <1>1 DEF NewRecord, Statements
<1>5. \A v \in Users : out[v] = IF v = u THEN Append(base[v], r) ELSE base[v]
  BY <1>2, <1>3 DEF Statements, Joined
<1> QED
  BY <1>4, <1>5 DEF Statements

\* ... and the other way round.
LEMMA JoinFirst ==
    ASSUME NEW base \in Statements,
           NEW u \in Users, NEW seen \in Int, NEW change \in Int, NEW h \in Hashes,
           NEW source \in Sources
    PROVE  Joined(NewRecord(base, u, seen, change, h, source), base,
                  NewRecord(None, u, seen, change, h, source))
<1>1. PICK r \in Record : r = [balance |-> seen, change |-> change, hash |-> h,
                               source |-> source]
  BY DEF Record, Sources
<1>2. \A s \in Seq(Record) : s \o <<>> = s /\ s \o Append(<<>>, r) = Append(s, r)
  OBVIOUS
<1>3. NewRecord(None, u, seen, change, h, source)
        = [v \in Users |-> IF v = u THEN Append(<<>>, r) ELSE <<>>]
  BY <1>1 DEF NewRecord, None
<1>4. NewRecord(base, u, seen, change, h, source)
        = [v \in Users |-> IF v = u THEN Append(base[v], r) ELSE base[v]]
  BY <1>1 DEF NewRecord, Statements
<1> QED
  BY <1>2, <1>3, <1>4 DEF Statements, Joined

\* What a commit makes of the tables.
LEMMA Committed ==
    ASSUME Consistent, NEW w, Commit(w)
    PROVE  /\ w \in DOMAIN txn /\ TablesOK /\ Ledger /\ Agrees(w) /\ Params(w)
           /\ DoneTable(w)
           /\ \/ txn[w].kind \in {"lock", "failed", "success", "duplicate"}
                    /\ txn[w].at > 2
              \/ txn[w].kind = "internal" /\ txn[w].at > 5
              \/ txn[w].kind = "paid" /\ txn[w].at > 3
              \/ txn[w].kind = "cancel" /\ txn[w].at > 1
           /\ user' \in [Users -> User]
           /\ \A k \in Users : user'[k] = Booked(w, k)
           /\ payment' = Over(txn[w].payment, payment)
           /\ invoice' = Over(txn[w].invoice, invoice)
           /\ donation' = Over(txn[w].donation, donation)
           /\ record \in Statements /\ txn[w].record \in Statements
           /\ record' \in Statements
           /\ \A u \in Users : record'[u] = record[u] \o txn[w].record[u]
<1>1. w \in DOMAIN txn /\ Statement(w) = "commit"
  BY DEF Commit, Runs
<1>2. /\ TablesOK /\ Ledger /\ Agrees(w) /\ Params(w)
      /\ IsTable(txn[w].user, Users, User)
  BY <1>1, ConsistentOne
<1>3. user' = [k \in Users |-> Account(w, k)]
  BY <1>2 DEF Commit, Account, Over, TablesOK, IsTable
<1>4. \A k \in Users : Account(w, k) = Booked(w, k) /\ Booked(w, k) \in User
  BY <1>2, BookedType DEF Agrees, AccountsAgree
<1>5. user' \in [Users -> User] /\ \A k \in Users : user'[k] = Booked(w, k)
  BY <1>3, <1>4
<1>6. DoneTable(w)
  BY <1>2, WhatIsDone
<1>7. \/ txn[w].kind \in {"lock", "failed", "success", "duplicate"} /\ txn[w].at > 2
      \/ txn[w].kind = "internal" /\ txn[w].at > 5
      \/ txn[w].kind = "paid" /\ txn[w].at > 3
      \/ txn[w].kind = "cancel" /\ txn[w].at > 1
  BY <1>1, <1>2, ScriptNext DEF Params, Statement
<1>8. /\ record \in Statements /\ txn[w].record \in Statements
      /\ record' \in Statements
      /\ \A u \in Users : record'[u] = record[u] \o txn[w].record[u]
  <2>1. txn[w].record \in [Users -> Seq(Record)]
    BY <1>2, RecordsType DEF Agrees
  <2>2. \A u \in Users : record[u] \o txn[w].record[u] \in Seq(Record)
    BY <1>2, <2>1 DEF TablesOK
  <2> QED
    BY <1>2, <2>1, <2>2 DEF Commit, TablesOK, Statements
<1> QED
  BY <1>1, <1>2, <1>5, <1>6, <1>7, <1>8 DEF Commit

\* The statements after a commit.
LEMMA RecordsAtCommit ==
    ASSUME Consistent, NEW w, Commit(w), NEW rows, rows = txn[w].record
    PROVE  /\ rows \in Statements /\ record \in Statements /\ record' \in Statements
           /\ Joined(record', record, rows)
  BY Committed DEF Joined

\* Which statements a committed transaction has run.
LEMMA DoneAtCommit ==
    ASSUME Consistent, NEW w, Commit(w)
    PROVE  /\ Done(w, "hold") <=> txn[w].kind = "lock"
           /\ Done(w, "insert") <=> txn[w].kind \in {"lock", "internal"}
           /\ Done(w, "debit") <=> txn[w].kind = "internal"
           /\ Done(w, "credit") <=> txn[w].kind \in {"internal", "paid", "duplicate"}
           /\ Done(w, "donate") <=> txn[w].kind \in {"internal", "paid"}
           /\ Done(w, "close") <=>
                txn[w].kind \in {"internal", "paid", "duplicate", "cancel"}
           /\ Done(w, "settle") <=> txn[w].kind \in {"failed", "success"}
           /\ Done(w, "unlock") <=> txn[w].kind \in {"failed", "success"}
<1>1. /\ Params(w) /\ DoneTable(w)
      /\ \/ txn[w].kind \in {"lock", "failed", "success", "duplicate"}
                /\ txn[w].at > 2
         \/ txn[w].kind = "internal" /\ txn[w].at > 5
         \/ txn[w].kind = "paid" /\ txn[w].at > 3
         \/ txn[w].kind = "cancel" /\ txn[w].at > 1
  BY Committed
<1> QED
  BY <1>1 DEF DoneTable, Ran, Params

\* What they make of an account.
LEMMA AccountsAtCommit ==
    ASSUME Consistent, NEW w, Commit(w), NEW k \in Users
    PROVE  LET t == txn[w]
               m == t.model
               If(kinds, u, n) == IF t.kind \in kinds /\ u = k THEN n ELSE 0
           IN  /\ user[k] \in User
               /\ user'[k].balance = user[k].balance
                    - If({"lock"}, t.user_id, Total(t.hash))
                    - If({"internal"}, t.user_id, InternalTotal(t.hash))
                    + If({"internal", "paid", "duplicate"}, m.user_id, Amount[t.hash])
                    + If({"failed", "success"}, m.user_id, Back(w))
               /\ user'[k].lock_amount = user[k].lock_amount
                    + If({"lock"}, t.user_id, Total(t.hash))
                    - If({"failed", "success"}, m.user_id, m.lock_amount)
               /\ user'[k].donate_amount = user[k].donate_amount
                    + If({"internal", "paid"}, Donates(w), m.paid_amount)
<1>1. user[k] \in User /\ user'[k] = Booked(w, k)
  BY Committed DEF TablesOK
<1> QED
  BY <1>1, DoneAtCommit DEF Booked

\* pay.
LEMMA LockEffect ==
    ASSUME Consistent, NEW w, Commit(w), txn[w].kind = "lock"
    PROVE  Effect(w)
<1>1. /\ w \in DOMAIN txn /\ TablesOK /\ Agrees(w) /\ Params(w)
      /\ user' \in [Users -> User] /\ \A k \in Users : user'[k] = Booked(w, k)
      /\ record \in Statements /\ txn[w].record \in Statements
      /\ record' \in Statements
      /\ \A k \in Users : record'[k] = record[k] \o txn[w].record[k]
  BY Committed
<1>2. PICK u \in Users, h \in Hashes : u = txn[w].user_id /\ h = txn[w].hash
  BY <1>1 DEF Params
<1>3. /\ Done(w, "hold") /\ Done(w, "insert") /\ ~Done(w, "debit")
      /\ ~Done(w, "credit") /\ ~Done(w, "donate") /\ ~Done(w, "unlock")
      /\ ~Done(w, "close") /\ ~Done(w, "settle")
  BY DoneAtCommit
<1>4. LockBalanceMatches(u, h)
  BY <1>1, <1>2, <1>3
     DEF Agrees, AccountsAgree, RowsAgreeWith, LockBalanceMatches
<1>5. user' = MoveFunds(u, -Total(h), Total(h))
  <2>1. Total(h) \in Int /\ -Total(h) \in Int
    BY TotalsArePositive
  <2> DEFINE new == MoveFunds(u, -Total(h), Total(h))
  <2>0. /\ new \in [Users -> User]
        /\ \A k \in Users :
            /\ new[k].balance = user[k].balance + IF k = u THEN -Total(h) ELSE 0
            /\ new[k].lock_amount = user[k].lock_amount + IF k = u THEN Total(h) ELSE 0
            /\ new[k].donate_amount = user[k].donate_amount
    BY <1>1, <2>1, MoveFundsFields DEF TablesOK
  <2> HIDE DEF new
  <2>2. \A k \in Users :
            /\ new[k].balance = user[k].balance - IF k = u THEN Total(h) ELSE 0
            /\ new[k].lock_amount = user[k].lock_amount + IF k = u THEN Total(h) ELSE 0
            /\ new[k].donate_amount = user[k].donate_amount
    <3> SUFFICES ASSUME NEW k \in Users
                 PROVE  /\ new[k].balance
                            = user[k].balance - IF k = u THEN Total(h) ELSE 0
                        /\ new[k].lock_amount
                            = user[k].lock_amount + IF k = u THEN Total(h) ELSE 0
                        /\ new[k].donate_amount = user[k].donate_amount
      OBVIOUS
    <3>1. user[k].balance \in Int
      BY <1>1 DEF TablesOK, User
    <3> QED
      BY <2>0, <2>1, <3>1
  <2>3. \A k \in Users :
            /\ user'[k].balance = user[k].balance - IF k = u THEN Total(h) ELSE 0
            /\ user'[k].lock_amount = user[k].lock_amount + IF k = u THEN Total(h) ELSE 0
            /\ user'[k].donate_amount = user[k].donate_amount
    BY <1>2, <2>1, AccountsAtCommit DEF User
  <2>4. \A k \in Users : /\ user'[k].balance = new[k].balance
                         /\ user'[k].lock_amount = new[k].lock_amount
                         /\ user'[k].donate_amount = new[k].donate_amount
    BY <2>2, <2>3
  <2>5. user' = new
    <3>1. user' \in [Users -> User] /\ new \in [Users -> User]
      BY <1>1, <2>0
    <3> QED
      BY <2>4, <3>1, SameUsers
  <2> QED
    BY <2>5 DEF new
<1>6. payment' = Insert(payment, h, NewPayment(w))
  <2>1. txn[w].payment = Insert(<<>>, h, NewPayment(w))
    BY <1>1, <1>2, <1>3 DEF Agrees, RowsAgreeWith
  <2> QED
    BY <1>1, <2>1, Committed, OverOne DEF TablesOK
<1>7. invoice' = invoice /\ donation' = donation
  <2>1. txn[w].invoice = <<>> /\ txn[w].donation = <<>>
    BY <1>1, <1>3 DEF Agrees, RowsAgreeWith
  <2> QED
    BY <1>1, <2>1, Committed, OverNone DEF TablesOK
<1>8. record' = record
  <2>1. PICK rows : rows = txn[w].record
    OBVIOUS
  <2>2. /\ rows \in Statements /\ record \in Statements /\ record' \in Statements
        /\ Joined(record', record, rows)
    BY <2>1, RecordsAtCommit
  <2>3. rows = None
    BY <1>1, <1>3, <2>1 DEF Agrees, RecordsAgree, None
  <2> QED
    BY <2>2, <2>3, JoinNone
<1>9. NewPayment(w) = [user_id |-> u, status |-> "Unpaid", lock_amount |-> Total(h),
                       fee |-> 0, service_fee |-> ServiceFee(Amount[h]),
                       total |-> Total(h), internal |-> FALSE]
  BY <1>2 DEF NewPayment
<1> QED
  BY <1>2, <1>4, <1>5, <1>6, <1>7, <1>8, <1>9 DEF Effect, LockBalance

\* The UPDATE of a canceled invoice.
LEMMA CancelEffect ==
    ASSUME Consistent, NEW w, Commit(w), txn[w].kind = "cancel"
    PROVE  Effect(w)
<1>1. /\ w \in DOMAIN txn /\ TablesOK /\ Agrees(w) /\ Params(w)
      /\ user' \in [Users -> User] /\ \A k \in Users : user'[k] = Booked(w, k)
      /\ record \in Statements /\ txn[w].record \in Statements
      /\ record' \in Statements
      /\ \A k \in Users : record'[k] = record[k] \o txn[w].record[k]
  BY Committed
<1>2. PICK h \in Hashes : h = txn[w].hash
  BY <1>1 DEF Params
<1>3. /\ Done(w, "close") /\ ~Done(w, "insert") /\ ~Done(w, "debit")
      /\ ~Done(w, "credit") /\ ~Done(w, "donate") /\ ~Done(w, "unlock")
      /\ ~Done(w, "hold") /\ ~Done(w, "settle")
  BY DoneAtCommit
<1>4. h \in DOMAIN invoice /\ invoice[h].status = "Unpaid"
  BY <1>1, <1>2, <1>3
     DEF Agrees, ModelAgrees, RowsAgreeWith, InvoicePaidMatches
<1>5. user' = user
  <2>1. \A k \in Users : /\ user'[k].balance = user[k].balance
                         /\ user'[k].lock_amount = user[k].lock_amount
                         /\ user'[k].donate_amount = user[k].donate_amount
    BY AccountsAtCommit DEF User
  <2> QED
    BY <1>1, <2>1, SameUsers DEF TablesOK
<1>6. invoice' = [invoice EXCEPT ![h] = Closed(w)]
  <2>1. txn[w].invoice = Insert(<<>>, h, Closed(w))
    BY <1>1, <1>2, <1>3 DEF Agrees, RowsAgreeWith
  <2> QED
    BY <1>1, <1>4, <2>1, Committed, OverOne DEF TablesOK
<1>7. payment' = payment /\ donation' = donation
  <2>1. txn[w].payment = <<>> /\ txn[w].donation = <<>>
    BY <1>1, <1>3 DEF Agrees, RowsAgreeWith
  <2> QED
    BY <1>1, <2>1, Committed, OverNone DEF TablesOK
<1>8. record' = record
  <2>1. PICK rows : rows = txn[w].record
    OBVIOUS
  <2>2. /\ rows \in Statements /\ record \in Statements /\ record' \in Statements
        /\ Joined(record', record, rows)
    BY <2>1, RecordsAtCommit
  <2>3. rows = None
    BY <1>1, <1>3, <2>1 DEF Agrees, RecordsAgree, None
  <2> QED
    BY <2>2, <2>3, JoinNone
<1>9. invoice' = [invoice EXCEPT ![h].status = "Canceled"]
  BY <1>2, <1>6 DEF Closed
<1> QED
  BY <1>2, <1>4, <1>5, <1>7, <1>8, <1>9 DEF Effect, CancelInvoice

\* What pay_failed and pay_success make of the accounts.
LEMMA UnlockEffect ==
    ASSUME Consistent, NEW w, Commit(w), txn[w].kind \in {"failed", "success"}
    PROVE  user' = Unlock(txn[w].model.user_id, Back(w), txn[w].model.lock_amount)
<1>1. /\ w \in DOMAIN txn /\ TablesOK /\ Agrees(w) /\ Params(w)
      /\ user' \in [Users -> User]
  BY Committed
<1>2. PICK u \in Users, l \in Nat, back \in Int :
        u = txn[w].model.user_id /\ l = txn[w].model.lock_amount /\ back = Back(w)
  BY <1>1, SettlementAmounts DEF Agrees
<1>3. user[u].lock_amount >= l
  BY <1>1, <1>2, DoneAtCommit, SettledLock
<1> DEFINE new == MoveFunds(u, back, -l)
<1>4. /\ new \in [Users -> User]
      /\ \A k \in Users :
            /\ new[k].balance = user[k].balance + IF k = u THEN back ELSE 0
            /\ new[k].lock_amount = user[k].lock_amount + IF k = u THEN -l ELSE 0
            /\ new[k].donate_amount = user[k].donate_amount
  <2>1. -l \in Int
    OBVIOUS
  <2> QED
    BY <1>1, <2>1, MoveFundsFields DEF TablesOK
<1> HIDE DEF new
<1>5. ASSUME NEW k \in Users
      PROVE  /\ user'[k].balance = new[k].balance
             /\ user'[k].lock_amount = new[k].lock_amount
             /\ user'[k].donate_amount = new[k].donate_amount
  <2>1. /\ user[k].balance \in Int /\ user[k].lock_amount \in Int
        /\ user[k].donate_amount \in Int
    BY <1>1 DEF TablesOK, User
  <2>2. /\ user'[k].balance = user[k].balance + IF k = u THEN back ELSE 0
        /\ user'[k].lock_amount = user[k].lock_amount - IF k = u THEN l ELSE 0
        /\ user'[k].donate_amount = user[k].donate_amount
    BY <1>2, <2>1, AccountsAtCommit
  <2> QED
    BY <1>4, <2>1, <2>2
<1>6. user' = new
  BY <1>1, <1>4, <1>5, SameUsers
<1> QED
  BY <1>2, <1>3, <1>6 DEF Unlock, new

\* pay_failed and pay_success.
LEMMA SettleEffect ==
    ASSUME Consistent, NEW w, Commit(w), txn[w].kind \in {"failed", "success"}
    PROVE  Effect(w)
<1> DEFINE m == txn[w].model
<1>1. /\ w \in DOMAIN txn /\ TablesOK /\ Agrees(w) /\ Params(w)
      /\ record \in Statements /\ txn[w].record \in Statements
      /\ record' \in Statements
      /\ \A k \in Users : record'[k] = record[k] \o txn[w].record[k]
  BY Committed
<1>2. PICK h \in Hashes : h = txn[w].hash
  BY <1>1 DEF Params
<1>3. /\ Done(w, "settle") /\ Done(w, "unlock") /\ ~Done(w, "insert")
      /\ ~Done(w, "debit") /\ ~Done(w, "credit") /\ ~Done(w, "donate")
      /\ ~Done(w, "close")
  BY DoneAtCommit
<1>4. /\ h \in DOMAIN payment
      /\ IF txn[w].kind = "failed" THEN PayFailedMatches(h, m)
         ELSE PaySuccessMatches(h, m)
  BY <1>1, <1>2, <1>3 DEF Agrees, ModelAgrees, RowsAgreeWith
<1>5. user' = Unlock(m.user_id, Back(w), m.lock_amount)
  BY UnlockEffect
<1>6. payment' = [payment EXCEPT ![h] = Settled(w)]
  <2>1. txn[w].payment = Insert(<<>>, h, Settled(w))
    BY <1>1, <1>2, <1>3 DEF Agrees, RowsAgreeWith
  <2> QED
    BY <1>1, <1>4, <2>1, Committed, OverOne DEF TablesOK
<1>7. invoice' = invoice /\ donation' = donation
  <2>1. txn[w].invoice = <<>> /\ txn[w].donation = <<>>
    BY <1>1, <1>3 DEF Agrees, RowsAgreeWith
  <2> QED
    BY <1>1, <2>1, Committed, OverNone DEF TablesOK
<1>8. CASE txn[w].kind = "failed"
  <2>1. record' = record
    <3>1. PICK rows : rows = txn[w].record
      OBVIOUS
    <3>2. /\ rows \in Statements /\ record \in Statements /\ record' \in Statements
          /\ Joined(record', record, rows)
      BY <3>1, RecordsAtCommit
    <3>3. rows = None
      BY <1>1, <1>3, <1>8, <3>1 DEF Agrees, RecordsAgree, UnlockRecord, None
    <3> QED
      BY <3>2, <3>3, JoinNone
  <2>2. payment' = [payment EXCEPT ![h].status = "Canceled", ![h].lock_amount = 0]
    BY <1>2, <1>6, <1>8 DEF Settled
  <2>3. user' = Unlock(m.user_id, m.lock_amount, m.lock_amount)
    BY <1>5, <1>8 DEF Back
  <2>4. PayFailedMatches(h, m) /\ PayFailed(h, m)
    BY <1>4, <1>7, <1>8, <2>1, <2>2, <2>3 DEF PayFailed
  <2> QED
    BY <1>2, <1>8, <2>4 DEF Effect
<1>9. CASE txn[w].kind = "success"
  <2>1. record' = NewRecord(record, m.user_id, txn[w].seen,
                            -Cost(h, m, Route(h)), h, "external_payment")
    <3>1. PICK rows : rows = txn[w].record
      OBVIOUS
    <3>2. /\ rows \in Statements /\ record \in Statements /\ record' \in Statements
          /\ Joined(record', record, rows)
      BY <3>1, RecordsAtCommit
    <3>3. PICK u \in Users, seen \in Int, change \in Int :
            u = m.user_id /\ seen = txn[w].seen /\ change = -Cost(h, m, Route(h))
      BY <1>1, <1>2, <1>9, SettlementAmounts DEF Params, Agrees
    <3>4. rows = NewRecord(None, u, seen, change, h, "external_payment")
      BY <1>1, <1>2, <1>3, <1>9, <3>1, <3>3
         DEF Agrees, RecordsAgree, UnlockRecord, None
    <3>5. "external_payment" \in Sources
      BY DEF Sources
    <3>6. record' = NewRecord(record, u, seen, change, h, "external_payment")
      BY <3>2, <3>3, <3>4, <3>5, JoinOne
    <3> QED
      BY <3>3, <3>6
  <2>2. payment' = [payment EXCEPT ![h].status = "Paid", ![h].lock_amount = 0,
                                   ![h].fee = Route(h),
                                   ![h].total = Cost(h, m, Route(h))]
    BY <1>2, <1>6, <1>9 DEF Settled
  <2>3. user' = Unlock(m.user_id, Payback(h, m, Route(h)), m.lock_amount)
    BY <1>2, <1>5, <1>9 DEF Back
  <2>4. PaySuccessMatches(h, m) /\ PaySuccess(h, m, Route(h), txn[w].seen)
    BY <1>4, <1>7, <1>9, <2>1, <2>2, <2>3 DEF PaySuccess
  <2> QED
    BY <1>2, <1>9, <2>4 DEF Effect
<1> QED
  BY <1>8, <1>9

\* An account that is credited, and one whose donations grow, ...
Plus(users, u, n) == [users EXCEPT ![u].balance = @ + n]

Raise(users, u, n) == [users EXCEPT ![u].donate_amount = @ + n]

\* ... field by field.
LEMMA Credited ==
    ASSUME NEW users \in [Users -> User], NEW u \in Users, NEW n \in Int
    PROVE  /\ Plus(users, u, n) \in [Users -> User]
           /\ \A k \in Users :
                /\ Plus(users, u, n)[k].balance
                        = users[k].balance + IF k = u THEN n ELSE 0
                /\ Plus(users, u, n)[k].lock_amount = users[k].lock_amount
                /\ Plus(users, u, n)[k].donate_amount = users[k].donate_amount
           /\ Raise(users, u, n) \in [Users -> User]
           /\ \A k \in Users :
                /\ Raise(users, u, n)[k].balance = users[k].balance
                /\ Raise(users, u, n)[k].lock_amount = users[k].lock_amount
                /\ Raise(users, u, n)[k].donate_amount
                        = users[k].donate_amount + IF k = u THEN n ELSE 0
<1>1. /\ users[u] \in User
      /\ \A k \in Users : users[k].balance \in Int /\ users[k].donate_amount \in Int
  BY DEF User
<1> DEFINE credited == [users[u] EXCEPT !.balance = @ + n]
           raised   == [users[u] EXCEPT !.donate_amount = @ + n]
<1>2. /\ credited \in User /\ credited.balance = users[u].balance + n
      /\ credited.lock_amount = users[u].lock_amount
      /\ credited.donate_amount = users[u].donate_amount
  BY <1>1 DEF User
<1>3. /\ raised \in User /\ raised.balance = users[u].balance
      /\ raised.lock_amount = users[u].lock_amount
      /\ raised.donate_amount = users[u].donate_amount + n
  BY <1>1 DEF User
<1>4. /\ Plus(users, u, n) = [k \in Users |-> IF k = u THEN credited ELSE users[k]]
      /\ Raise(users, u, n) = [k \in Users |-> IF k = u THEN raised ELSE users[k]]
  BY DEF Plus, Raise
<1> HIDE DEF credited, raised
<1> QED
  BY <1>1, <1>2, <1>3, <1>4

\* The donor's sum, and no other, is raised by sync_donation.
LEMMA Donated ==
    ASSUME NEW users \in [Users -> User], NEW h, NEW model, NEW payer,
           NEW donor \in Users \cup {"none"}, donor = Donor(model, payer),
           NEW n \in Nat, n = model.paid_amount,
           user' \in [Users -> User],
           \A k \in Users :
                /\ user'[k].balance = users[k].balance
                /\ user'[k].lock_amount = users[k].lock_amount
                /\ user'[k].donate_amount
                        = users[k].donate_amount + IF k = donor THEN n ELSE 0,
           donation' = IF donor = "none" THEN donation
                       ELSE Insert(donation, h, [user_id |-> donor, amount |-> n])
    PROVE  SyncDonation(users, h, model, payer)
<1>1. \A k \in Users : users[k].donate_amount \in Int
  BY DEF User
<1>2. CASE donor = "none"
  <2>1. \A k \in Users : /\ user'[k].balance = users[k].balance
                         /\ user'[k].lock_amount = users[k].lock_amount
                         /\ user'[k].donate_amount = users[k].donate_amount
    BY <1>1, <1>2, TransactionsAssumption
  <2>2. user' = users
    BY <2>1, SameUsers
  <2> QED
    BY <1>2, <2>2 DEF SyncDonation
<1>3. CASE donor # "none"
  <2>1. PICK d \in Users : d = donor
    BY <1>3
  <2>2. n \in Int
    OBVIOUS
  <2> DEFINE new == Raise(users, d, n)
  <2>3. /\ new \in [Users -> User]
        /\ \A k \in Users :
            /\ new[k].balance = users[k].balance
            /\ new[k].lock_amount = users[k].lock_amount
            /\ new[k].donate_amount = users[k].donate_amount + IF k = d THEN n ELSE 0
    BY <2>2, Credited
  <2> HIDE DEF new
  <2>4. \A k \in Users : /\ user'[k].balance = new[k].balance
                         /\ user'[k].lock_amount = new[k].lock_amount
                         /\ user'[k].donate_amount = new[k].donate_amount
    BY <2>1, <2>3
  <2>5. user' = new
    BY <2>3, <2>4, SameUsers
  <2>6. user' = [users EXCEPT ![donor].donate_amount = @ + n]
    BY <2>1, <2>5 DEF new, Raise
  <2> QED
    BY <1>3, <2>6 DEF SyncDonation
<1> QED
  BY <1>2, <1>3

\* What closing an invoice writes.
LEMMA CloseEffect ==
    ASSUME Consistent, NEW w, Commit(w),
           txn[w].kind \in {"internal", "paid", "duplicate", "cancel"}
    PROVE  /\ txn[w].hash \in DOMAIN invoice /\ txn[w].model \in Invoice
           /\ IF txn[w].kind = "duplicate" THEN InvoiceDupPaidMatches(txn[w].hash)
              ELSE InvoicePaidMatches(txn[w].hash)
           /\ invoice' = [invoice EXCEPT ![txn[w].hash] = Closed(w)]
           /\ IF txn[w].kind = "internal"
              THEN /\ txn[w].hash \notin DOMAIN payment
                   /\ payment' = Insert(payment, txn[w].hash, NewPayment(w))
              ELSE payment' = payment
           /\ donation' = IF txn[w].kind \in {"internal", "paid"} /\ Donates(w) # "none"
                          THEN Insert(donation, txn[w].hash,
                                      [user_id |-> Donates(w),
                                       amount |-> txn[w].model.paid_amount])
                          ELSE donation
<1>1. w \in DOMAIN txn /\ TablesOK /\ Agrees(w) /\ Params(w)
  BY Committed
<1>2. PICK h \in Hashes : h = txn[w].hash
  BY <1>1 DEF Params
<1>3. /\ Done(w, "close") /\ ~Done(w, "settle")
      /\ Done(w, "insert") <=> txn[w].kind = "internal"
      /\ Done(w, "donate") <=> txn[w].kind \in {"internal", "paid"}
  BY DoneAtCommit
<1>4. /\ h \in DOMAIN invoice /\ txn[w].model \in Invoice
      /\ IF txn[w].kind = "duplicate" THEN InvoiceDupPaidMatches(h)
         ELSE InvoicePaidMatches(h)
  BY <1>1, <1>2, <1>3 DEF Agrees, ModelAgrees, RowsAgreeWith
<1>5. invoice' = [invoice EXCEPT ![h] = Closed(w)]
  <2>1. txn[w].invoice = Insert(<<>>, h, Closed(w))
    BY <1>1, <1>2, <1>3 DEF Agrees, RowsAgreeWith
  <2> QED
    BY <1>1, <1>4, <2>1, Committed, OverOne DEF TablesOK
<1>6. txn[w].kind = "internal" =>
        h \notin DOMAIN payment /\ payment' = Insert(payment, h, NewPayment(w))
  <2> SUFFICES ASSUME txn[w].kind = "internal"
               PROVE  /\ h \notin DOMAIN payment
                      /\ payment' = Insert(payment, h, NewPayment(w))
    OBVIOUS
  <2>1. h \notin DOMAIN payment /\ txn[w].payment = Insert(<<>>, h, NewPayment(w))
    BY <1>1, <1>2, <1>3 DEF Agrees, RowsAgreeWith
  <2> QED
    BY <1>1, <2>1, Committed, OverOne DEF TablesOK
<1>7. txn[w].kind # "internal" => payment' = payment
  <2> SUFFICES ASSUME txn[w].kind # "internal" PROVE payment' = payment
    OBVIOUS
  <2>1. txn[w].payment = <<>>
    BY <1>1, <1>3 DEF Agrees, RowsAgreeWith
  <2> QED
    BY <1>1, <2>1, Committed, OverNone DEF TablesOK
<1>8. donation' = IF txn[w].kind \in {"internal", "paid"} /\ Donates(w) # "none"
                  THEN Insert(donation, h, [user_id |-> Donates(w),
                                            amount |-> txn[w].model.paid_amount])
                  ELSE donation
  <2> DEFINE row == [user_id |-> Donates(w), amount |-> txn[w].model.paid_amount]
  <2>1. txn[w].donation = IF txn[w].kind \in {"internal", "paid"} /\ Donates(w) # "none"
                          THEN Insert(<<>>, h, row) ELSE <<>>
    BY <1>1, <1>2, <1>3 DEF Agrees, RowsAgreeWith
  <2> HIDE DEF row
  <2>2. donation' = Over(txn[w].donation, donation)
    BY Committed
  <2>3. CASE txn[w].kind \in {"internal", "paid"} /\ Donates(w) # "none"
    BY <1>1, <2>1, <2>2, <2>3, OverOne DEF TablesOK, row
  <2>4. CASE ~(txn[w].kind \in {"internal", "paid"} /\ Donates(w) # "none")
    BY <1>1, <2>1, <2>2, <2>4, OverNone DEF TablesOK, row
  <2> QED
    BY <2>3, <2>4
<1> QED
  BY <1>2, <1>4, <1>5, <1>6, <1>7, <1>8

\* The transaction of an invoice, in constants.
LEMMA InvoiceTxn ==
    ASSUME Consistent, NEW w, Commit(w),
           txn[w].kind \in {"internal", "paid", "duplicate"}
    PROVE  /\ txn[w].hash \in Hashes /\ txn[w].user_id \in Users
           /\ txn[w].model.user_id \in Users /\ txn[w].model.paid_amount \in Nat
           /\ txn[w].seen \in Int /\ txn[w].payeeSeen \in Int
           /\ Donates(w) \in Users \cup {"none"}
           /\ Amount[txn[w].hash] \in Int /\ InternalTotal(txn[w].hash) \in Int
           /\ -InternalTotal(txn[w].hash) \in Int
<1>1. Params(w) /\ Agrees(w)
  BY Committed
<1>2. txn[w].hash \in Hashes
  BY <1>1 DEF Params
<1>3. Amount[txn[w].hash] \in Nat /\ InternalTotal(txn[w].hash) \in Nat
  BY <1>2, FeesAreNat, TotalsArePositive
<1> QED
  BY <1>1, <1>2, <1>3, InvoiceAmounts DEF Agrees, Params

\* invoice_dup_paid.
LEMMA DuplicateEffect ==
    ASSUME Consistent, NEW w, Commit(w), txn[w].kind = "duplicate"
    PROVE  Effect(w)
<1>1. PICK h \in Hashes, p \in Users, n \in Int, seen \in Int :
        /\ h = txn[w].hash /\ p = txn[w].model.user_id /\ n = Amount[h]
        /\ seen = txn[w].seen
  BY InvoiceTxn
<1>2. /\ user \in [Users -> User] /\ user' \in [Users -> User]
      /\ Agrees(w) /\ DoneTable(w)
  BY Committed DEF TablesOK
<1>3. /\ InvoiceDupPaidMatches(h) /\ invoice' = [invoice EXCEPT ![h] = Closed(w)]
      /\ payment' = payment /\ donation' = donation
  BY <1>1, CloseEffect
<1>4. user' = Plus(user, p, n)
  <2> DEFINE new == Plus(user, p, n)
  <2>1. /\ new \in [Users -> User]
        /\ \A k \in Users :
            /\ new[k].balance = user[k].balance + IF k = p THEN n ELSE 0
            /\ new[k].lock_amount = user[k].lock_amount
            /\ new[k].donate_amount = user[k].donate_amount
    BY <1>2, Credited
  <2> HIDE DEF new
  <2>2. \A k \in Users :
            /\ user'[k].balance = user[k].balance + IF k = p THEN n ELSE 0
            /\ user'[k].lock_amount = user[k].lock_amount
            /\ user'[k].donate_amount = user[k].donate_amount
    BY <1>1, AccountsAtCommit DEF User
  <2>3. \A k \in Users : /\ user'[k].balance = new[k].balance
                         /\ user'[k].lock_amount = new[k].lock_amount
                         /\ user'[k].donate_amount = new[k].donate_amount
    BY <2>1, <2>2
  <2>4. user' = new
    BY <1>2, <2>1, <2>3, SameUsers
  <2> QED
    BY <2>4 DEF new
<1>5. record' = NewRecord(record, p, seen, n, h, "duplicate_payment")
  <2>1. PICK rows : rows = txn[w].record
    OBVIOUS
  <2>2. /\ rows \in Statements /\ record \in Statements /\ record' \in Statements
        /\ Joined(record', record, rows)
    BY <2>1, RecordsAtCommit
  <2>3. rows = NewRecord(None, p, seen, n, h, "duplicate_payment")
    <3>1. Done(w, "credit") /\ ~Done(w, "debit") /\ ~Done(w, "unlock")
      BY DoneAtCommit
    <3> QED
      BY <1>1, <1>2, <2>1, <3>1 DEF Agrees, RecordsAgree, CreditRecord, None
  <2>4. "duplicate_payment" \in Sources
    BY DEF Sources
  <2> QED
    BY <2>2, <2>3, <2>4, JoinOne
<1>6. invoice' = [invoice EXCEPT ![h].paid_amount = n + txn[w].model.paid_amount,
                                 ![h].duplicate = TRUE]
  BY <1>1, <1>3 DEF Closed
<1>7. user' = [user EXCEPT ![p].balance = @ + n]
  BY <1>4 DEF Plus
<1>8. InvoiceDupPaid(h, txn[w].model, n, seen)
  BY <1>1, <1>3, <1>5, <1>6, <1>7 DEF InvoiceDupPaid
<1> QED
  BY <1>1, <1>3, <1>8 DEF Effect

\* invoice_paid.
LEMMA PaidEffect ==
    ASSUME Consistent, NEW w, Commit(w), txn[w].kind = "paid"
    PROVE  Effect(w)
<1>1. PICK h \in Hashes, p \in Users, n \in Int, seen \in Int,
           donor \in Users \cup {"none"}, gift \in Nat :
        /\ h = txn[w].hash /\ p = txn[w].model.user_id /\ n = Amount[h]
        /\ seen = txn[w].seen /\ donor = Donates(w)
        /\ gift = txn[w].model.paid_amount
  BY InvoiceTxn
<1>2. /\ user \in [Users -> User] /\ user' \in [Users -> User] /\ Agrees(w)
  BY Committed DEF TablesOK
<1>3. /\ InvoicePaidMatches(h) /\ invoice' = [invoice EXCEPT ![h] = Closed(w)]
      /\ payment' = payment
      /\ donation' = IF donor = "none" THEN donation
                     ELSE Insert(donation, h, [user_id |-> donor, amount |-> gift])
  BY <1>1, CloseEffect
<1> DEFINE paid == Plus(user, p, n)
<1>4. /\ paid \in [Users -> User]
      /\ \A k \in Users :
            /\ paid[k].balance = user[k].balance + IF k = p THEN n ELSE 0
            /\ paid[k].lock_amount = user[k].lock_amount
            /\ paid[k].donate_amount = user[k].donate_amount
  BY <1>2, Credited
<1> HIDE DEF paid
<1>5. SyncDonation(paid, h, txn[w].model, "none")
  <2>1. \A k \in Users :
            /\ user'[k].balance = user[k].balance + IF k = p THEN n ELSE 0
            /\ user'[k].lock_amount = user[k].lock_amount
            /\ user'[k].donate_amount
                    = user[k].donate_amount + IF k = donor THEN gift ELSE 0
    BY <1>1, AccountsAtCommit DEF User
  <2>2. \A k \in Users :
            /\ user'[k].balance = paid[k].balance
            /\ user'[k].lock_amount = paid[k].lock_amount
            /\ user'[k].donate_amount
                    = paid[k].donate_amount + IF k = donor THEN gift ELSE 0
    BY <1>4, <2>1
  <2>3. PICK m : m = txn[w].model
    OBVIOUS
  <2>4. donor = Donor(m, "none") /\ gift = m.paid_amount
    BY <1>1, <2>3 DEF Donates
  <2>5. SyncDonation(paid, h, m, "none")
    BY <1>2, <1>3, <1>4, <2>2, <2>4, Donated
  <2> QED
    BY <2>3, <2>5
<1>6. record' = NewRecord(record, p, seen, n, h, "external_payment")
  <2>1. PICK rows : rows = txn[w].record
    OBVIOUS
  <2>2. /\ rows \in Statements /\ record \in Statements /\ record' \in Statements
        /\ Joined(record', record, rows)
    BY <2>1, RecordsAtCommit
  <2>3. rows = NewRecord(None, p, seen, n, h, "external_payment")
    <3>1. Done(w, "credit") /\ ~Done(w, "debit") /\ ~Done(w, "unlock")
      BY DoneAtCommit
    <3> QED
      BY <1>1, <1>2, <2>1, <3>1 DEF Agrees, RecordsAgree, CreditRecord, None
  <2>4. "external_payment" \in Sources
    BY DEF Sources
  <2> QED
    BY <2>2, <2>3, <2>4, JoinOne
<1>7. invoice' = [invoice EXCEPT ![h].status = "Paid", ![h].paid_amount = n,
                                 ![h].internal = FALSE]
  BY <1>1, <1>3 DEF Closed
<1>8. SyncDonation([user EXCEPT ![p].balance = @ + n], h, txn[w].model, "none")
  BY <1>5 DEF paid, Plus
<1>9. InvoicePaid(h, txn[w].model, n, seen)
  BY <1>1, <1>3, <1>6, <1>7, <1>8 DEF InvoicePaid
<1> QED
  BY <1>1, <1>3, <1>9 DEF Effect

\* internal_pay.
LEMMA InternalEffect ==
    ASSUME Consistent, NEW w, Commit(w), txn[w].kind = "internal"
    PROVE  Effect(w)
<1>1. PICK h \in Hashes, u \in Users, p \in Users, n \in Int, total \in Int,
           minus \in Int, seen \in Int, payeeSeen \in Int,
           donor \in Users \cup {"none"}, gift \in Nat :
        /\ h = txn[w].hash /\ u = txn[w].user_id /\ p = txn[w].model.user_id
        /\ n = Amount[h] /\ total = InternalTotal(h) /\ minus = -total
        /\ seen = txn[w].seen /\ payeeSeen = txn[w].payeeSeen
        /\ donor = Donates(w) /\ gift = txn[w].model.paid_amount
  BY InvoiceTxn
<1>2. /\ user \in [Users -> User] /\ user' \in [Users -> User] /\ Agrees(w)
  BY Committed DEF TablesOK
<1>3. /\ InvoicePaidMatches(h) /\ invoice' = [invoice EXCEPT ![h] = Closed(w)]
      /\ h \notin DOMAIN payment /\ payment' = Insert(payment, h, NewPayment(w))
      /\ donation' = IF donor = "none" THEN donation
                     ELSE Insert(donation, h, [user_id |-> donor, amount |-> gift])
  BY <1>1, CloseEffect
<1>4. user[u].balance >= total
  <2>1. Done(w, "debit")
    BY DoneAtCommit
  <2> QED
    BY <1>1, <1>2, <2>1 DEF Agrees, AccountsAgree
<1> DEFINE paid == Plus(user, u, minus)
           both == Plus(paid, p, n)
<1>5. /\ paid \in [Users -> User]
      /\ \A k \in Users :
            /\ paid[k].balance = user[k].balance + IF k = u THEN minus ELSE 0
            /\ paid[k].lock_amount = user[k].lock_amount
            /\ paid[k].donate_amount = user[k].donate_amount
  BY <1>2, Credited
<1> HIDE DEF paid
<1>6. /\ both \in [Users -> User]
      /\ \A k \in Users :
            /\ both[k].balance = paid[k].balance + IF k = p THEN n ELSE 0
            /\ both[k].lock_amount = paid[k].lock_amount
            /\ both[k].donate_amount = paid[k].donate_amount
  BY <1>5, Credited
<1> HIDE DEF both
<1>7. SyncDonation(both, h, txn[w].model, u)
  <2>1. \A k \in Users :
            /\ user'[k].balance = user[k].balance - (IF k = u THEN total ELSE 0)
                                    + IF k = p THEN n ELSE 0
            /\ user'[k].lock_amount = user[k].lock_amount
            /\ user'[k].donate_amount
                    = user[k].donate_amount + IF k = donor THEN gift ELSE 0
    BY <1>1, AccountsAtCommit DEF User
  <2>2. \A k \in Users : user[k].balance \in Int
    BY <1>2 DEF User
  <2>3. \A k \in Users :
            user[k].balance - (IF k = u THEN total ELSE 0)
                = user[k].balance + IF k = u THEN minus ELSE 0
    BY <1>1, <2>2
  <2>4. \A k \in Users :
            /\ user'[k].balance = both[k].balance
            /\ user'[k].lock_amount = both[k].lock_amount
            /\ user'[k].donate_amount
                    = both[k].donate_amount + IF k = donor THEN gift ELSE 0
    BY <1>5, <1>6, <2>1, <2>3
  <2>5. PICK m : m = txn[w].model
    OBVIOUS
  <2>6. donor = Donor(m, u) /\ gift = m.paid_amount
    BY <1>1, <2>5 DEF Donates
  <2>7. SyncDonation(both, h, m, u)
    BY <1>2, <1>3, <1>6, <2>4, <2>6, Donated
  <2> QED
    BY <2>5, <2>7
<1> DEFINE debited == NewRecord(record, u, seen, minus, h, "internal_payment")
<1>8. record' = NewRecord(debited, p, payeeSeen, n, h, "internal_payment")
  <2>0. "internal_payment" \in Sources
    BY DEF Sources
  <2>1. PICK rows : rows = txn[w].record
    OBVIOUS
  <2>2. /\ rows \in Statements /\ record \in Statements /\ record' \in Statements
        /\ Joined(record', record, rows)
    BY <2>1, RecordsAtCommit
  <2> DEFINE first == NewRecord(None, u, seen, minus, h, "internal_payment")
  <2>3. rows = NewRecord(first, p, payeeSeen, n, h, "internal_payment")
    <3>1. Done(w, "credit") /\ Done(w, "debit") /\ ~Done(w, "unlock")
      BY DoneAtCommit
    <3> QED
      BY <1>1, <1>2, <2>1, <3>1
         DEF Agrees, RecordsAgree, CreditRecord, DebitRecord, None
  <2>4. first \in Statements /\ debited \in Statements
    <3>1. None \in Statements
      BY DEF None, Statements
    <3> QED
      BY <2>2, <3>1, NewRecordType DEF Statements
  <2>5. Joined(debited, record, first)
    BY <2>2, <2>4, JoinFirst, <2>0
  <2> HIDE DEF first, debited
  <2> QED
    BY <2>0, <2>2, <2>3, <2>4, <2>5, JoinRecord
<1>9. invoice' = [invoice EXCEPT ![h].status = "Paid", ![h].amount = n,
                                 ![h].paid_amount = n, ![h].internal = TRUE]
  BY <1>1, <1>3 DEF Closed
<1>10. NewPayment(w) = [user_id |-> u, status |-> "Paid", lock_amount |-> 0,
                        fee |-> InternalFee(Amount[h]),
                        service_fee |-> ServiceFee(Amount[h]),
                        total |-> InternalTotal(h), internal |-> TRUE]
  BY <1>1 DEF NewPayment
<1>11. paid = [user EXCEPT ![u].balance = @ - total]
  <2>1. user[u].balance + minus = user[u].balance - total
    BY <1>1, <1>2 DEF User
  <2> QED
    BY <2>1 DEF paid, Plus
<1>12. both = [paid EXCEPT ![p].balance = @ + n]
  BY DEF both, Plus
<1>13. InternalPay(u, h, txn[w].model, seen, payeeSeen)
  BY <1>1, <1>3, <1>7, <1>8, <1>9, <1>10, <1>11, <1>12 DEF InternalPay
<1>14. InternalPayMatches(u, h)
  BY <1>1, <1>3, <1>4 DEF InternalPayMatches, InvoicePaidMatches
<1> QED
  BY <1>1, <1>13, <1>14 DEF Effect

\* Side by side, the transactions have the effect they have in one step.
LEMMA CommitEffect ==
    ASSUME Consistent, NEW w, Commit(w)
    PROVE  Effect(w)
<1>1. txn[w].kind \in Kinds
  BY Committed DEF Params
<1> QED
  BY <1>1, LockEffect, InternalEffect, PaidEffect, DuplicateEffect, CancelEffect,
     SettleEffect DEF Kinds

----------------------------------------------------------------------------
(* After the commit.                                                       *)

\* A commit keeps the tables well typed and the ledger right: an internal
\* payment, and an invoice that is paid, ...
LEMMA InvoiceCommit ==
    ASSUME Consistent, NEW w, Commit(w),
           txn[w].kind \in {"internal", "paid", "duplicate", "cancel"}
    PROVE  TablesOK' /\ Ledger'
<1>1. /\ w \in DOMAIN txn /\ TablesOK /\ Ledger /\ Agrees(w) /\ Params(w)
      /\ Effect(w)
  BY Committed, CommitEffect
<1>2. PICK h \in Hashes, u \in Users, n \in Nat, seen \in Int, payeeSeen \in Int,
           m \in Invoice :
        /\ h = txn[w].hash /\ u = txn[w].user_id /\ n = Amount[h]
        /\ seen = txn[w].seen /\ payeeSeen = txn[w].payeeSeen /\ m = txn[w].model
  BY <1>1, FeesAreNat, CloseEffect DEF Params
<1>3. TablesOK'
  <2>1. CASE txn[w].kind = "internal"
    <3>1. InternalPay(u, h, m, seen, payeeSeen)
      BY <1>1, <1>2, <2>1 DEF Effect
    <3> QED
      BY <1>1, <3>1, InternalPayType
  <2>2. CASE txn[w].kind = "paid"
    <3>1. InvoicePaid(h, m, n, seen)
      BY <1>1, <1>2, <2>2 DEF Effect
    <3> QED
      BY <1>1, <3>1, InvoicePaidType
  <2>3. CASE txn[w].kind = "duplicate"
    <3>1. InvoiceDupPaid(h, m, n, seen)
      BY <1>1, <1>2, <2>3 DEF Effect
    <3> QED
      BY <1>1, <3>1, InvoiceDupPaidType
  <2>4. CASE txn[w].kind = "cancel"
    <3>1. CancelInvoice(h)
      BY <1>1, <1>2, <2>4 DEF Effect
    <3> QED
      BY <1>1, <3>1, CancelInvoiceType
  <2> QED
    BY <2>1, <2>2, <2>3, <2>4
<1>4. \A v \in Users : /\ user'[v].lock_amount = user[v].lock_amount
                       /\ user'[v].balance >= 0
  <2>1. PICK total \in Nat, p \in Users :
          total = InternalTotal(h) /\ p = m.user_id
    BY TotalsArePositive DEF Invoice
  <2>2. txn[w].kind = "internal" => user[u].balance >= total
    BY <1>1, <1>2, <2>1 DEF Effect, InternalPayMatches
  <2>3. \A v \in Users :
          /\ user[v].balance \in Int /\ user[v].lock_amount \in Int
          /\ user[v].balance >= 0
    BY <1>1 DEF TablesOK, User, Ledger, NoOverdraft
  <2>4. \A v \in Users :
          /\ user'[v].balance = user[v].balance
                - (IF txn[w].kind = "internal" /\ u = v THEN total ELSE 0)
                + IF txn[w].kind \in {"internal", "paid", "duplicate"} /\ p = v
                  THEN n ELSE 0
          /\ user'[v].lock_amount = user[v].lock_amount
    BY <1>2, <2>1, <2>3, AccountsAtCommit
  <2> QED
    BY <2>2, <2>3, <2>4
<1>5. PICK row : /\ row.status = "Paid" /\ row.lock_amount = 0
                 /\ row.service_fee = ServiceFee(Amount[h])
                 /\ \/ payment' = payment
                    \/ h \notin DOMAIN payment /\ payment' = Insert(payment, h, row)
  <2> DEFINE row == [user_id |-> u, status |-> "Paid", lock_amount |-> 0,
                     fee |-> InternalFee(Amount[h]),
                     service_fee |-> ServiceFee(Amount[h]),
                     total |-> InternalTotal(h), internal |-> TRUE]
  <2>1. /\ row.status = "Paid" /\ row.lock_amount = 0
        /\ row.service_fee = ServiceFee(Amount[h])
    OBVIOUS
  <2>2. \/ payment' = payment
        \/ h \notin DOMAIN payment /\ payment' = Insert(payment, h, row)
    <3>1. txn[w].kind # "internal" => payment' = payment
      BY CloseEffect
    <3>2. txn[w].kind = "internal" =>
            h \notin DOMAIN payment /\ payment' = Insert(payment, h, NewPayment(w))
      BY <1>2, CloseEffect
    <3>3. txn[w].kind = "internal" => NewPayment(w) = row
      BY <1>2 DEF NewPayment
    <3> QED
      BY <3>1, <3>2, <3>3
  <2> HIDE DEF row
  <2> QED
    BY <2>1, <2>2
<1>6. Ledger'
  BY <1>1, <1>4, <1>5, PaidLedger
<1> QED
  BY <1>3, <1>6

\* ... and a payment over the network.  A payment keeps its account.
LEMMA PaymentCommit ==
    ASSUME Consistent, NEW w, Commit(w),
           txn[w].kind \in {"lock", "failed", "success"}
    PROVE  /\ TablesOK' /\ Ledger'
           /\ DOMAIN payment \subseteq DOMAIN payment' /\ invoice' = invoice
           /\ \A g \in DOMAIN payment : payment'[g].user_id = payment[g].user_id
<1>1. /\ w \in DOMAIN txn /\ TablesOK /\ Ledger /\ Agrees(w) /\ Params(w)
      /\ Effect(w)
  BY Committed, CommitEffect
<1>2. PICK h \in Hashes, u \in Users, seen \in Int :
        h = txn[w].hash /\ u = txn[w].user_id /\ seen = txn[w].seen
  BY <1>1 DEF Params
<1>3. CASE txn[w].kind = "lock"
  <2>1. LockBalanceMatches(u, h) /\ LockBalance(u, h)
    BY <1>1, <1>2, <1>3 DEF Effect
  <2>2. TablesOK' /\ Ledger'
    BY <1>1, <2>1, LockBalanceType, LockBalanceLedger
  <2>3. /\ DOMAIN payment \subseteq DOMAIN payment'
        /\ \A g \in DOMAIN payment : payment'[g] = payment[g]
    BY <2>1, LockBalanceRows
  <2> QED
    BY <2>1, <2>2, <2>3 DEF LockBalance
<1>4. CASE txn[w].kind \in {"failed", "success"}
  <2>1. PICK m \in Payment : m = txn[w].model
    BY <1>1, <1>4 DEF Agrees, ModelAgrees
  <2>2. /\ h \in DOMAIN payment /\ m.user_id = payment[h].user_id
        /\ m.lock_amount = Total(h) /\ m.service_fee = ServiceFee(Amount[h])
        /\ m.user_id \in Users /\ m.lock_amount \in Nat /\ m.service_fee \in Nat
    BY <1>1, <1>2, <1>4, <2>1 DEF Agrees, ModelAgrees, Payment
  <2>3. CASE txn[w].kind = "failed"
    <3>1. PayFailedMatches(h, m) /\ PayFailed(h, m)
      BY <1>1, <1>2, <2>1, <2>3 DEF Effect
    <3>2. TablesOK' /\ Ledger'
      BY <1>1, <2>2, <3>1, PayFailedType, PayFailedLedger
    <3>3. /\ DOMAIN payment' = DOMAIN payment
          /\ payment'[h].user_id = payment[h].user_id
          /\ \A g \in DOMAIN payment \ {h} : payment'[g] = payment[g]
      BY <1>1, <2>2, <3>1, PayFailedRows
    <3> QED
      BY <3>1, <3>2, <3>3 DEF PayFailed
  <2>4. CASE txn[w].kind = "success"
    <3>1. PICK fee \in Nat : fee = Route(h) /\ fee = MaxFee(Amount[h])
      BY FeesAreNat DEF Route
    <3>2. PaySuccessMatches(h, m) /\ PaySuccess(h, m, fee, seen)
      BY <1>1, <1>2, <2>1, <2>4, <3>1 DEF Effect
    <3>3. fee <= MaxFee(Amount[h])
      BY <3>1
    <3>4. TablesOK' /\ Ledger'
      BY <1>1, <2>2, <3>2, <3>3, PaySuccessType, PaySuccessLedger
    <3>5. /\ DOMAIN payment' = DOMAIN payment
          /\ payment'[h].user_id = payment[h].user_id
          /\ \A g \in DOMAIN payment \ {h} : payment'[g] = payment[g]
      BY <1>1, <2>2, <3>2, PaySuccessRows
    <3> QED
      BY <3>2, <3>4, <3>5 DEF PaySuccess
  <2> QED
    BY <1>4, <2>3, <2>4
<1> QED
  BY <1>3, <1>4

\* What a commit of w leaves of the rows of another transaction.
LEMMA OthersAtCommit ==
    ASSUME Consistent, NEW w, Commit(w), NEW v \in DOMAIN txn, v # w
    PROVE  /\ TablesOK' /\ Ledger' /\ txn'[v] = txn[v]
           /\ DOMAIN invoice' = DOMAIN invoice
           /\ DOMAIN payment \subseteq DOMAIN payment'
           /\ \A g \in DOMAIN payment : payment'[g].user_id = payment[g].user_id
           /\ \A k \in Users : k \in DOMAIN txn[v].user => user'[k] = user[k]
           /\ \A g \in DOMAIN txn[v].invoice :
                g \in DOMAIN invoice => invoice'[g] = invoice[g]
           /\ \A g \in DOMAIN txn[v].payment :
                /\ g \in DOMAIN payment' <=> g \in DOMAIN payment
                /\ g \in DOMAIN payment => payment'[g] = payment[g]
<1>1. /\ w \in DOMAIN txn /\ txn[w].kind \in Kinds /\ TablesOK
      /\ user' = Over(txn[w].user, user)
      /\ payment' = Over(txn[w].payment, payment)
      /\ invoice' = Over(txn[w].invoice, invoice)
  BY Committed DEF Commit, Params
<1>2. /\ DOMAIN txn[v].user \cap DOMAIN txn[w].user = {}
      /\ DOMAIN txn[v].payment \cap DOMAIN txn[w].payment = {}
      /\ DOMAIN txn[v].invoice \cap DOMAIN txn[w].invoice = {}
  BY <1>1 DEF Consistent, LocksAgree
<1>3. /\ TablesOK' /\ Ledger' /\ DOMAIN invoice' = DOMAIN invoice
      /\ DOMAIN payment \subseteq DOMAIN payment'
      /\ \A g \in DOMAIN payment : payment'[g].user_id = payment[g].user_id
  <2>1. CASE txn[w].kind \in {"lock", "failed", "success"}
    BY <2>1, PaymentCommit
  <2>2. CASE txn[w].kind \in {"internal", "paid", "duplicate", "cancel"}
    <3>1. TablesOK' /\ Ledger'
      BY <2>2, InvoiceCommit
    <3>2. DOMAIN invoice' = DOMAIN invoice
      BY <2>2, CloseEffect
    <3>3. \/ payment' = payment
          \/ /\ txn[w].hash \notin DOMAIN payment
             /\ payment' = Insert(payment, txn[w].hash, NewPayment(w))
      BY <2>2, CloseEffect
    <3>4. /\ DOMAIN payment \subseteq DOMAIN payment'
          /\ \A g \in DOMAIN payment : payment'[g] = payment[g]
      BY <3>3 DEF Insert
    <3> QED
      BY <3>1, <3>2, <3>4
  <2> QED
    BY <1>1, <2>1, <2>2 DEF Kinds
<1>4. \A k \in Users : k \in DOMAIN txn[v].user => user'[k] = user[k]
  BY <1>1, <1>2 DEF Over, TablesOK
<1>5. \A g \in DOMAIN txn[v].payment :
        /\ g \in DOMAIN payment' <=> g \in DOMAIN payment
        /\ g \in DOMAIN payment => payment'[g] = payment[g]
  BY <1>1, <1>2 DEF Over
<1>6. \A g \in DOMAIN txn[v].invoice : g \in DOMAIN invoice => invoice'[g] = invoice[g]
  BY <1>1, <1>2 DEF Over
<1>7. txn'[v] = txn[v]
  BY DEF Commit, End
<1> QED
  BY <1>3, <1>4, <1>5, <1>6, <1>7

\* A commit of w leaves the other transactions in agreement: what they have
\* read and written is still what their statements make of the rows.
LEMMA AccountsAgreeAtCommit ==
    ASSUME Consistent, NEW w, Commit(w), NEW v \in DOMAIN txn, v # w,
           ModelAgrees(v)'
    PROVE  AccountsAgree(v)'
<1>1. /\ TablesOK /\ TablesOK' /\ txn'[v] = txn[v]
      /\ \A k \in Users : k \in DOMAIN txn[v].user => user'[k] = user[k]
  BY OthersAtCommit, ConsistentOne
<1>2. Agrees(v) /\ Params(v) /\ Params(v)' /\ AccountsAgree(v)
  BY <1>1, ConsistentOne DEF Params, Agrees
<1>3. \A s : Done(v, s)' <=> Done(v, s)
  BY <1>1 DEF Done
<1>4. Donates(v)' = Donates(v) /\ Back(v)' = Back(v)
  BY <1>1 DEF Donates, Back
<1>5. ASSUME NEW k \in Users
      PROVE  Account(v, k)' = Booked(v, k)'
  <2>1. CASE k \in DOMAIN txn[v].user
    <3>1. user'[k] = user[k]
      BY <1>1, <2>1
    <3>2. Booked(v, k)' = Booked(v, k)
      BY <1>1, <1>3, <1>4, <3>1 DEF Booked
    <3>3. Account(v, k)' = txn[v].user[k] /\ Account(v, k) = txn[v].user[k]
      BY <1>1, <2>1 DEF Account, Over
    <3> QED
      BY <1>2, <3>2, <3>3 DEF AccountsAgree
  <2>2. CASE k \notin DOMAIN txn[v].user
    <3>1. user'[k] \in User /\ Booked(v, k)' \in User
      BY <1>1, <1>2, BookedTypeNext DEF TablesOK
    <3>2. Account(v, k)' = user'[k]
      BY <1>1, <2>2 DEF Account, Over, TablesOK
    <3>3. /\ Done(v, "hold") \/ Done(v, "debit") => txn[v].user_id # k
          /\ Done(v, "credit") \/ Done(v, "unlock") => txn[v].model.user_id # k
          /\ Done(v, "donate") => Donates(v) # k
      BY <1>2, <2>2, TransactionsAssumption DEF AccountsAgree
    <3>4. /\ Booked(v, k)'.balance = user'[k].balance
          /\ Booked(v, k)'.lock_amount = user'[k].lock_amount
          /\ Booked(v, k)'.donate_amount = user'[k].donate_amount
      BY <1>1, <1>3, <1>4, <3>1, <3>3 DEF Booked, User
    <3> QED
      BY <3>1, <3>2, <3>4, SameUser
  <2> QED
    BY <2>1, <2>2
<1>6. /\ Done(v, "hold") \/ Done(v, "debit") => txn[v].user_id \in DOMAIN txn[v].user
      /\ txn[v].user_id \in Users
  BY <1>2 DEF AccountsAgree, Params
<1> QED
  BY <1>1, <1>2, <1>3, <1>4, <1>5, <1>6 DEF AccountsAgree

\* The same of the invoices, the payments, the donations and the records.
LEMMA AgreesAtCommit ==
    ASSUME Consistent, NEW w, Commit(w), NEW v \in DOMAIN txn, v # w
    PROVE  Agrees(v)'
<1> DEFINE h == txn[v].hash
<1>1. /\ txn'[v] = txn[v] /\ DOMAIN invoice' = DOMAIN invoice
      /\ DOMAIN payment \subseteq DOMAIN payment'
      /\ \A g \in DOMAIN payment : payment'[g].user_id = payment[g].user_id
      /\ \A g \in DOMAIN txn[v].invoice :
            g \in DOMAIN invoice => invoice'[g] = invoice[g]
      /\ \A g \in DOMAIN txn[v].payment :
            /\ g \in DOMAIN payment' <=> g \in DOMAIN payment
            /\ g \in DOMAIN payment => payment'[g] = payment[g]
  BY OthersAtCommit
<1>2. Agrees(v) /\ Params(v) /\ DoneTable(v)
  BY ConsistentOne, WhatIsDone
<1>3. \A s : Done(v, s)' <=> Done(v, s)
  BY <1>1 DEF Done
<1>4. Donates(v)' = Donates(v) /\ NewPayment(v)' = NewPayment(v)
  BY <1>1 DEF Donates, NewPayment
<1>5. ModelAgrees(v)'
  BY <1>1, <1>2 DEF Agrees, ModelAgrees
<1>6. AccountsAgree(v)'
  BY <1>5, AccountsAgreeAtCommit
<1>7. RowsAgreeWith(v)'
  <2>1. ASSUME Done(v, "close")
        PROVE  invoice'[h] = invoice[h] /\ Closed(v)' = Closed(v)
    <3>1. h \in DOMAIN txn[v].invoice
      BY <1>2, <2>1 DEF Agrees, RowsAgreeWith, Insert
    <3>2. h \in DOMAIN invoice
      BY <1>2, <2>1 DEF Agrees, ModelAgrees, DoneTable, Ran
    <3>3. invoice'[h] = invoice[h]
      BY <1>1, <3>1, <3>2
    <3> QED
      BY <1>1, <3>3 DEF Closed
  <2>2. ASSUME Done(v, "insert") PROVE h \notin DOMAIN payment'
    <3>1. ~Done(v, "settle")
      BY <1>2, <2>2 DEF DoneTable, Ran
    <3>2. h \notin DOMAIN payment /\ txn[v].payment = Insert(<<>>, h, NewPayment(v))
      BY <1>2, <2>2, <3>1 DEF Agrees, RowsAgreeWith
    <3>3. h \in DOMAIN txn[v].payment
      BY <3>2 DEF Insert
    <3> QED
      BY <1>1, <3>2, <3>3
  <2>3. ASSUME Done(v, "settle"), ~Done(v, "insert")
        PROVE  payment'[h] = payment[h] /\ Settled(v)' = Settled(v)
    <3>1. h \in DOMAIN txn[v].payment
      BY <1>2, <2>3 DEF Agrees, RowsAgreeWith, Insert
    <3>2. h \in DOMAIN payment
      BY <1>2, <2>3 DEF Agrees, ModelAgrees, DoneTable, Ran
    <3>3. payment'[h] = payment[h]
      BY <1>1, <3>1, <3>2
    <3> QED
      BY <1>1, <3>3 DEF Settled
  <2>4. ~(Done(v, "settle") /\ Done(v, "insert"))
    BY <1>2 DEF DoneTable, Ran
  <2> QED
    BY <1>1, <1>2, <1>3, <1>4, <2>1, <2>2, <2>3, <2>4
       DEF Agrees, RowsAgreeWith, InvoiceDupPaidMatches, InvoicePaidMatches,
           PayFailedMatches, PaySuccessMatches
<1>8. RecordsAgree(v)'
  <2>1. \A rows : /\ DebitRecord(v, rows)' = DebitRecord(v, rows)
                  /\ CreditRecord(v, rows)' = CreditRecord(v, rows)
                  /\ UnlockRecord(v, rows)' = UnlockRecord(v, rows)
    BY <1>1 DEF DebitRecord, CreditRecord, UnlockRecord
  <2> QED
    BY <1>1, <1>2, <1>3, <2>1 DEF Agrees, RecordsAgree
<1> QED
  BY <1>5, <1>6, <1>7, <1>8 DEF Agrees

\* So a commit keeps the invariant.
LEMMA CommitConsistent ==
    ASSUME Consistent, NEW w, Commit(w)
    PROVE  Consistent'
<1>1. /\ w \in DOMAIN txn /\ txn[w].kind \in Kinds
      /\ DOMAIN txn' = DOMAIN txn \ {w} /\ UNCHANGED <<faults, net>>
      /\ \A v \in DOMAIN txn' : v \in DOMAIN txn /\ v # w /\ txn'[v] = txn[v]
  BY Committed DEF Commit, End, Params
<1>2. TablesOK' /\ Ledger'
  <2>1. txn[w].kind \in {"lock", "failed", "success"} => TablesOK' /\ Ledger'
    BY PaymentCommit
  <2>2. txn[w].kind \in {"internal", "paid", "duplicate", "cancel"}
            => TablesOK' /\ Ledger'
    BY InvoiceCommit
  <2> QED
    BY <1>1, <2>1, <2>2 DEF Kinds
<1>3. TypeOK'
  BY <1>1, <1>2 DEF Consistent, TypeOK, StoreTypeOK
<1>4. LocksAgree'
  BY <1>1 DEF Consistent, LocksAgree
<1>5. \A v \in DOMAIN txn' : Agrees(v)'
  BY <1>1, AgreesAtCommit
<1> QED
  BY <1>2, <1>3, <1>4, <1>5 DEF Consistent

----------------------------------------------------------------------------
(* The theorems.                                                           *)

\* The invariant holds at the start: nothing is open, nothing is locked.
LEMMA InitConsistent == ASSUME Init PROVE Consistent
<1>1. user \in [Users -> User]
  BY StoreAssumption DEF Init, User
<1>2. record \in [Users -> Seq(Record)]
  BY DEF Init
<1>3. IsTable(invoice, Hashes, Invoice)
  <2>1. \A h \in Own : NewInvoice(Payee[h], h, "none") \in Invoice
    BY TransactionsAssumption, InvoiceRow
  <2> QED
    BY <2>1, TransactionsAssumption DEF Init, IsTable
<1>4. StoreTypeOK
  BY <1>1, <1>2, <1>3, EmptyTable, StoreAssumption DEF Init, StoreTypeOK, TablesOK
<1>5. DOMAIN txn = {} /\ DOMAIN payment = {}
  BY EmptyTable DEF Init
<1>6. TypeOK
  BY <1>4, <1>5 DEF Init, TypeOK
<1>7. Ledger
  <2>1. \A u \in Users : Coins(payment, u) = {}
    BY <1>5, CoinsMember
  <2>2. \A u \in Users : user[u].balance \in Nat /\ user[u].lock_amount = 0
    BY StoreAssumption DEF Init
  <2>3. LockedFunds /\ \A u \in Users : IsFiniteSet(Coins(payment, u))
    BY <2>1, <2>2, FS_EmptySet DEF LockedFunds
  <2> QED
    BY <1>5, <2>2, <2>3 DEF Ledger, RowsAgree, NoOverdraft
<1> QED
  BY <1>5, <1>6, <1>7 DEF Consistent, LocksAgree

\* Every step keeps it.
LEMMA NextConsistent == ASSUME Consistent, [Next]_vars PROVE Consistent'
<1>1. CASE UNCHANGED vars
  <2>1. UNCHANGED <<store, faults, txn, net>>
    BY <1>1 DEF vars
  <2>2. TypeOK'
    BY <2>1 DEF store, Consistent, TypeOK, StoreTypeOK, TablesOK
  <2>3. Ledger'
    BY <2>1 DEF store, Consistent, Ledger, RowsAgree, LockedFunds, NoOverdraft
  <2>4. LocksAgree' /\ \A v \in DOMAIN txn' : Agrees(v)'
    BY <2>1, AgreesStays DEF Consistent, LocksAgree
  <2> QED
    BY <2>2, <2>3, <2>4 DEF Consistent
<1>2. ASSUME NEW w \in Workers, Step(w)
      PROVE  Consistent'
  BY <1>2, HoldConsistent, InsertConsistent, DebitConsistent, CloseConsistent,
     CreditConsistent, DonateConsistent, SettleConsistent, UnlockConsistent,
     ConsistentRollback, CommitConsistent DEF Step, Refused
<1>3. ASSUME NEW w \in Workers, BreakDeadlock(w) \/ Drop(w)
      PROVE  Consistent'
  BY <1>3, ConsistentRollback DEF BreakDeadlock, Drop
<1>4. ASSUME NEW h \in Hashes, BeginClose(h) \/ BeginSettle(Task, h)
      PROVE  Consistent'
  BY <1>4, BeginCloseConsistent, BeginSettleConsistent, TransactionsAssumption
<1>5. ASSUME NEW w \in Workers, NEW r \in Requests[w],
             \/ BeginPay(w, r[1], r[2]) \/ BeginInternal(w, r[1], r[2])
             \/ BeginSettle(w, r[2])
      PROVE  Consistent'
  <2>1. r \in Users \X Hashes
    BY TransactionsAssumption
  <2>2. PICK u \in Users, h \in Hashes : u = r[1] /\ h = r[2]
    BY <2>1
  <2> QED
    BY <1>5, <2>2, BeginPayConsistent, BeginSettleConsistent
<1> QED
  BY <1>1, <1>2, <1>3, <1>4, <1>5 DEF Next

\* What a transaction has written is, in every reachable state, what its
\* statements make of the rows as they are committed by then; no row is
\* written by two; and the ledger of Store holds.
THEOREM TransactionsConsistent == Spec => []Consistent
<1>1. Init => Consistent
  BY InitConsistent
<1>2. Consistent /\ [Next]_vars => Consistent'
  BY NextConsistent
<1> QED
  BY <1>1, <1>2, PTL DEF Spec

\* Therefore the tables only change as the one-step transactions of Store
\* change them, under the filters Store gives them: the transactions of pay,
\* internal_pay, pay_failed, pay_success, invoice_paid, invoice_dup_paid and
\* the canceled invoice are serializable.
THEOREM CommitsAreOneStep == Spec => CommitsAreAtomic
<1>1. ASSUME Consistent, [Next]_vars, store' # store
      PROVE  \E w \in DOMAIN txn : Runs(w, "commit") /\ Effect(w)
  <2>1. ASSUME NEW w, Step(w)
        PROVE  Commit(w)
    BY <1>1, <2>1 DEF Step, Hold, InsertPayment, Debit, Close, Credit, Donate,
       Settle, UnlockFunds, Refused, Write, Skip, Rollback
  <2>2. ASSUME NEW w, NEW u, NEW h,
               \/ BreakDeadlock(w) \/ Drop(w) \/ BeginClose(h) \/ BeginSettle(w, h)
               \/ BeginPay(w, u, h) \/ BeginInternal(w, u, h)
        PROVE  FALSE
    BY <1>1, <2>2 DEF BreakDeadlock, Drop, Rollback, BeginClose, BeginSettle,
       BeginPay, BeginInternal, Begin
  <2>3. \E w : Step(w)
    BY <1>1, <2>2 DEF Next, vars
  <2>4. PICK w : Commit(w)
    BY <2>1, <2>3
  <2> QED
    BY <1>1, <2>4, CommitEffect, Committed DEF Commit
<1>2. Consistent /\ [Next]_vars =>
        [store' # store => \E w \in DOMAIN txn : Runs(w, "commit") /\ Effect(w)]_vars
  BY <1>1
<1> QED
  BY <1>2, TransactionsConsistent, PTL DEF Spec, CommitsAreAtomic
=============================================================================
