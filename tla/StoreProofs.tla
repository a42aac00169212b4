---------------------------- MODULE StoreProofs ----------------------------
(***************************************************************************)
(* Facts about the fees, the tables and the transactions of Store, for the *)
(* proofs about the modules that run these transactions.                   *)
(***************************************************************************)
EXTENDS Store, TLAPS, FiniteSetTheorems

(* A percentage of an amount is an amount (pct in setting.rs). *)
LEMMA PctIsNat ==
    ASSUME NEW amount \in Nat, NEW p \in Nat
    PROVE  pct(amount, p) \in Nat
<1>1. amount * p \in Nat
  OBVIOUS
<1>2. PctUnit \in Nat /\ PctUnit > 0
  BY FeeAssumption
<1>3. \A n \in Nat : n \div PctUnit \in Nat
  BY <1>2
<1> QED
  BY <1>1, <1>3 DEF pct

(* So are the fees. *)
LEMMA FeesAreNat ==
    ASSUME NEW h \in Hashes
    PROVE  /\ Amount[h] \in Nat /\ Amount[h] > 0
           /\ MaxFee(Amount[h]) \in Nat
           /\ InternalFee(Amount[h]) \in Nat
           /\ ServiceFee(Amount[h]) \in Nat
<1>1. Amount[h] \in Nat /\ Amount[h] > 0
  BY StoreAssumption
<1> QED
  BY <1>1, PctIsNat, FeeAssumption DEF MaxFee, InternalFee, ServiceFee

(* A payment locks and costs something. *)
LEMMA TotalsArePositive ==
    ASSUME NEW h \in Hashes
    PROVE  /\ Total(h) \in Nat /\ Total(h) > 0
           /\ InternalTotal(h) \in Nat /\ InternalTotal(h) > 0
  BY FeesAreNat DEF Total, InternalTotal

\* A table without rows is a table.
LEMMA EmptyTable ==
    ASSUME NEW Keys, NEW Row
    PROVE  DOMAIN <<>> = {} /\ IsTable(<<>>, Keys, Row)
  BY DEF IsTable

\* An INSERT adds one row and leaves the others.
LEMMA InsertTable ==
    ASSUME NEW Keys, NEW Row, NEW t, IsTable(t, Keys, Row),
           NEW k \in Keys, NEW row \in Row
    PROVE  IsTable(Insert(t, k, row), Keys, Row)
  BY DEF IsTable, Insert

(* new_record appends a record. *)
LEMMA NewRecordType ==
    ASSUME NEW rows \in [Users -> Seq(Record)], NEW u \in Users,
           NEW seen \in Int, NEW change \in Int, NEW h \in Hashes,
           NEW source \in {"admin", "external_payment", "internal_payment",
                           "duplicate_payment"}
    PROVE  NewRecord(rows, u, seen, change, h, source) \in [Users -> Seq(Record)]
<1>1. [balance |-> seen, change |-> change, hash |-> h, source |-> source]
            \in Record
  BY DEF Record
<1>2. Append(rows[u], [balance |-> seen, change |-> change, hash |-> h,
                       source |-> source]) \in Seq(Record)
  BY <1>1
<1> QED
  BY <1>2 DEF NewRecord

(* What an update of one account's balance and lock does to `users`. *)
LEMMA MoveFundsEffect ==
    ASSUME user \in [Users -> User], NEW u \in Users,
           NEW change \in Int, NEW lock \in Int
    PROVE  LET users == MoveFunds(u, change, lock)
           IN  /\ users \in [Users -> User]
               /\ users[u].balance = user[u].balance + change
               /\ users[u].lock_amount = user[u].lock_amount + lock
               /\ \A v \in Users \ {u} : users[v] = user[v]
<1> DEFINE first == [user[u] EXCEPT !.balance = user[u].balance + change]
           row   == [first EXCEPT !.lock_amount = user[u].lock_amount + lock]
<1>1. user[u] \in User
  OBVIOUS
<1>2. first \in User /\ first.balance = user[u].balance + change
  BY <1>1 DEF User
<1>3. MoveFunds(u, change, lock)
        = [v \in Users |-> IF v = u THEN row ELSE user[v]]
  BY DEF MoveFunds
<1> HIDE DEF first
<1>4. /\ row \in User /\ row.balance = user[u].balance + change
      /\ row.lock_amount = user[u].lock_amount + lock
  BY <1>1, <1>2 DEF User
<1> HIDE DEF row
<1> QED
  BY <1>3, <1>4

\* The same, field by field.
LEMMA MoveFundsFields ==
    ASSUME user \in [Users -> User], NEW u \in Users,
           NEW change \in Int, NEW lock \in Int
    PROVE  LET users == MoveFunds(u, change, lock)
           IN  /\ users \in [Users -> User]
               /\ \A v \in Users :
                    /\ users[v].balance
                            = user[v].balance + IF v = u THEN change ELSE 0
                    /\ users[v].lock_amount
                            = user[v].lock_amount + IF v = u THEN lock ELSE 0
                    /\ users[v].donate_amount = user[v].donate_amount
<1>1. MoveFunds(u, change, lock)[u].donate_amount = user[u].donate_amount
  BY DEF MoveFunds, User
<1>2. \A v \in Users : user[v].balance \in Int /\ user[v].lock_amount \in Int
  BY DEF User
<1> QED
  BY <1>1, <1>2, MoveFundsEffect

\* Unlock keeps balances and locks integers, whether its filter matches or not.
LEMMA UnlockType ==
    ASSUME user \in [Users -> User], NEW u \in Users,
           NEW payback \in Int, NEW lock \in Int
    PROVE  Unlock(u, payback, lock) \in [Users -> User]
<1>1. -lock \in Int
  OBVIOUS
<1> QED
  BY <1>1, MoveFundsEffect DEF Unlock

\* The tables of a new database are well typed.
LEMMA StoreInitType == ASSUME StoreInit PROVE StoreTypeOK
<1>1. user \in [Users -> User]
  BY StoreAssumption DEF StoreInit, User
<1>2. record \in [Users -> Seq(Record)]
  <2>1. \A u \in Users : [balance |-> 0, change |-> Deposit[u],
              hash |-> "admin", source |-> "admin"] \in Record
    BY StoreAssumption DEF Record
  <2> QED
    BY <2>1 DEF StoreInit
<1>3. faults \in 0..MaxFaults
  BY StoreAssumption DEF StoreInit
<1> QED
  BY <1>1, <1>2, <1>3, EmptyTable DEF StoreInit, StoreTypeOK, TablesOK

(* The transactions of pay, pay_failed and pay_success keep the tables typed. *)
LEMMA LockBalanceType ==
    ASSUME TablesOK, NEW u \in Users, NEW h \in Hashes, LockBalance(u, h)
    PROVE  TablesOK'
<1>1. user' \in [Users -> User]
  <2>1. Total(h) \in Int /\ -Total(h) \in Int
    BY TotalsArePositive
  <2> QED
    BY <2>1, MoveFundsEffect DEF TablesOK, LockBalance
<1>2. IsTable(payment', Hashes, Payment)
  <2> DEFINE row == [user_id |-> u, status |-> "Unpaid",
                     lock_amount |-> Total(h), fee |-> 0,
                     service_fee |-> ServiceFee(Amount[h]),
                     total |-> Total(h), internal |-> FALSE]
  <2>1. row \in Payment
    BY TotalsArePositive, FeesAreNat DEF Payment, Status
  <2>2. payment' = Insert(payment, h, row)
    BY DEF LockBalance
  <2> QED
    BY <2>1, <2>2, InsertTable DEF TablesOK
<1> QED
  BY <1>1, <1>2 DEF TablesOK, LockBalance

\* A row stays a row when a payment is settled: its status, its lock, its fee
\* and its total change, and nothing else.
LEMMA SettledRow ==
    ASSUME NEW row \in Payment, NEW status \in Status, NEW lock \in Nat,
           NEW fee \in Nat, NEW total \in Nat
    PROVE  /\ [row EXCEPT !.status = status, !.lock_amount = lock] \in Payment
           /\ [row EXCEPT !.status = status, !.lock_amount = lock,
                          !.fee = fee, !.total = total] \in Payment
  BY DEF Payment

\* A table stays one when a row is replaced.
LEMMA UpdateTable ==
    ASSUME NEW table, NEW Keys, NEW Row, NEW h, NEW row,
           IsTable(table, Keys, Row), h \in DOMAIN table => row \in Row
    PROVE  IsTable([table EXCEPT ![h] = row], Keys, Row)
  BY DEF IsTable

\* The transaction of pay_failed keeps the tables well typed.
LEMMA PayFailedType ==
    ASSUME TablesOK, NEW h \in Hashes,
           NEW model, model.user_id \in Users, model.lock_amount \in Nat,
           PayFailed(h, model)
    PROVE  TablesOK'
<1>1. user' \in [Users -> User]
  BY UnlockType DEF TablesOK, PayFailed
<1>2. IsTable(payment', Hashes, Payment)
  <2> DEFINE row == [payment[h] EXCEPT !.status = "Canceled", !.lock_amount = 0]
  <2>1. h \in DOMAIN payment => row \in Payment
    BY SettledRow DEF TablesOK, IsTable, Status
  <2>2. payment' = [payment EXCEPT ![h] = row]
    BY DEF PayFailed
  <2> QED
    BY <2>1, <2>2, UpdateTable DEF TablesOK
<1> QED
  BY <1>1, <1>2 DEF TablesOK, PayFailed

\* The transaction of pay_success keeps the tables well typed.
LEMMA PaySuccessType ==
    ASSUME TablesOK, NEW h \in Hashes, NEW fee \in Nat, NEW seen \in Int,
           NEW model, model.user_id \in Users, model.lock_amount \in Nat,
           model.service_fee \in Nat,
           PaySuccess(h, model, fee, seen)
    PROVE  TablesOK'
<1>1. Payback(h, model, fee) \in Int /\ Cost(h, model, fee) \in Nat
  BY FeesAreNat DEF Payback, Cost
<1>2. user' \in [Users -> User]
  BY <1>1, UnlockType DEF TablesOK, PaySuccess
<1>3. IsTable(payment', Hashes, Payment)
  <2> DEFINE row == [payment[h] EXCEPT !.status = "Paid", !.lock_amount = 0,
                                       !.fee = fee,
                                       !.total = Cost(h, model, fee)]
  <2>1. h \in DOMAIN payment => row \in Payment
    BY <1>1, SettledRow DEF TablesOK, IsTable, Status
  <2>2. payment' = [payment EXCEPT ![h] = row]
    BY DEF PaySuccess
  <2> QED
    BY <2>1, <2>2, UpdateTable DEF TablesOK
<1>4. record' \in [Users -> Seq(Record)]
  <2>1. record' = NewRecord(record, model.user_id, seen,
                            -Cost(h, model, fee), h, "external_payment")
    BY DEF PaySuccess
  <2>2. -Cost(h, model, fee) \in Int
    BY <1>1
  <2> QED
    BY <2>1, <2>2, NewRecordType DEF TablesOK
<1> QED
  BY <1>2, <1>3, <1>4 DEF TablesOK, PaySuccess

----------------------------------------------------------------------------
(* Invoices and payments between accounts: types.                          *)

\* UPDATE of a balance, or of the sum of donations, of one account.
LEMMA CreditType ==
    ASSUME NEW users \in [Users -> User], NEW u \in Users, NEW value \in Int
    PROVE  /\ [users EXCEPT ![u].balance = value] \in [Users -> User]
           /\ [users EXCEPT ![u].donate_amount = value] \in [Users -> User]
<1>1. users[u] \in User
  OBVIOUS
<1>2. /\ [users[u] EXCEPT !.balance = value] \in User
      /\ [users[u] EXCEPT !.donate_amount = value] \in User
  BY <1>1 DEF User
<1> QED
  BY <1>2

\* sync_donation keeps accounts and donations well typed.
LEMMA SyncDonationType ==
    ASSUME NEW users \in [Users -> User], NEW h \in Hashes,
           IsTable(donation, Hashes, Donation),
           NEW model \in Invoice, NEW payer \in Users \cup {"none"},
           SyncDonation(users, h, model, payer)
    PROVE  /\ user' \in [Users -> User]
           /\ IsTable(donation', Hashes, Donation)
<1> DEFINE donor == Donor(model, payer)
<1>1. donor \in Users \cup {"none"} /\ model.paid_amount \in Nat
  BY DEF Donor, Invoice
<1>2. CASE donor = "none"
  BY <1>2 DEF SyncDonation
<1>3. CASE donor # "none"
  <2> DEFINE row == [user_id |-> donor, amount |-> model.paid_amount]
  <2>1. donor \in Users /\ row \in Donation
    BY <1>1, <1>3 DEF Donation
  <2>2. donation' = Insert(donation, h, row)
    BY <1>3 DEF SyncDonation
  <2>3. user' = [users EXCEPT ![donor].donate_amount = @ + model.paid_amount]
    BY <1>3 DEF SyncDonation
  <2>4. users[donor].donate_amount + model.paid_amount \in Int
    BY <1>1, <2>1 DEF User
  <2>5. user' \in [Users -> User]
    BY <2>1, <2>3, <2>4, CreditType
  <2> QED
    BY <2>1, <2>2, <2>5, InsertTable
<1> QED
  BY <1>2, <1>3

\* A new invoice, and an invoice that is paid, has the type of an invoice.
LEMMA InvoiceRow ==
    ASSUME NEW h \in Hashes
    PROVE  /\ \A u \in Users, payer \in Users \cup {"none"} :
                NewInvoice(u, h, payer) \in Invoice
           /\ \A row \in Invoice, amount \in Nat :
                /\ [row EXCEPT !.status = "Paid", !.amount = Amount[h],
                               !.paid_amount = Amount[h], !.internal = TRUE]
                        \in Invoice
                /\ [row EXCEPT !.status = "Paid", !.paid_amount = amount,
                               !.internal = FALSE] \in Invoice
                /\ [row EXCEPT !.paid_amount = amount, !.duplicate = TRUE]
                        \in Invoice
                /\ [row EXCEPT !.status = "Canceled"] \in Invoice
<1>1. Amount[h] \in Nat
  BY FeesAreNat
<1> QED
  BY <1>1 DEF NewInvoice, Invoice, Status

\* The transaction of internal_pay keeps the tables well typed.
LEMMA InternalPayType ==
    ASSUME TablesOK, NEW u \in Users, NEW h \in Hashes,
           NEW model \in Invoice, NEW seen \in Int, NEW payeeSeen \in Int,
           InternalPay(u, h, model, seen, payeeSeen)
    PROVE  TablesOK'
<1> DEFINE payee   == model.user_id
           paid    == [user EXCEPT ![u].balance = @ - InternalTotal(h)]
           debited == NewRecord(record, u, seen, -InternalTotal(h), h,
                                "internal_payment")
<1>1. /\ payee \in Users
      /\ Amount[h] \in Nat /\ InternalTotal(h) \in Nat
      /\ InternalFee(Amount[h]) \in Nat /\ ServiceFee(Amount[h]) \in Nat
  BY FeesAreNat, TotalsArePositive DEF Invoice
<1>2. IsTable(invoice', Hashes, Invoice)
  <2> DEFINE row == [invoice[h] EXCEPT !.status = "Paid",
                        !.amount = Amount[h], !.paid_amount = Amount[h],
                        !.internal = TRUE]
  <2>1. h \in DOMAIN invoice => row \in Invoice
    BY InvoiceRow DEF TablesOK, IsTable
  <2>2. invoice' = [invoice EXCEPT ![h] = row]
    BY DEF InternalPay
  <2> QED
    BY <2>1, <2>2, UpdateTable DEF TablesOK
<1>3. IsTable(payment', Hashes, Payment)
  <2> DEFINE row == [user_id |-> u, status |-> "Paid", lock_amount |-> 0,
                     fee |-> InternalFee(Amount[h]),
                     service_fee |-> ServiceFee(Amount[h]),
                     total |-> InternalTotal(h), internal |-> TRUE]
  <2>1. row \in Payment
    BY <1>1 DEF Payment, Status
  <2>2. payment' = Insert(payment, h, row)
    BY DEF InternalPay
  <2> QED
    BY <2>1, <2>2, InsertTable DEF TablesOK
<1>4. user' \in [Users -> User] /\ IsTable(donation', Hashes, Donation)
  <2> DEFINE both == [paid EXCEPT ![payee].balance = @ + Amount[h]]
  <2>1. paid \in [Users -> User]
    <3>1. user[u].balance - InternalTotal(h) \in Int
      BY <1>1 DEF TablesOK, User
    <3> QED
      BY <3>1, CreditType DEF TablesOK
  <2> HIDE DEF paid
  <2>2. both \in [Users -> User]
    <3>1. paid[payee].balance + Amount[h] \in Int
      BY <1>1, <2>1 DEF User
    <3> QED
      BY <1>1, <2>1, <3>1, CreditType
  <2>3. SyncDonation(both, h, model, u)
    BY DEF InternalPay, paid
  <2> HIDE DEF both
  <2> QED
    BY <2>2, <2>3, SyncDonationType DEF TablesOK
<1>5. record' \in [Users -> Seq(Record)]
  <2>0. -InternalTotal(h) \in Int
    BY <1>1
  <2>1. debited \in [Users -> Seq(Record)]
    BY <2>0, NewRecordType DEF TablesOK
  <2>2. record' = NewRecord(debited, payee, payeeSeen, Amount[h], h,
                            "internal_payment")
    BY DEF InternalPay
  <2> QED
    BY <1>1, <2>1, <2>2, NewRecordType
<1> QED
  BY <1>2, <1>3, <1>4, <1>5 DEF TablesOK

\* The transaction of invoice_paid keeps the tables well typed.
LEMMA InvoicePaidType ==
    ASSUME TablesOK, NEW h \in Hashes, NEW model \in Invoice,
           NEW amount \in Nat, NEW seen \in Int,
           InvoicePaid(h, model, amount, seen)
    PROVE  TablesOK'
<1> DEFINE payee == model.user_id
<1>1. payee \in Users
  BY DEF Invoice
<1>2. IsTable(invoice', Hashes, Invoice)
  <2> DEFINE row == [invoice[h] EXCEPT !.status = "Paid",
                        !.paid_amount = amount, !.internal = FALSE]
  <2>1. h \in DOMAIN invoice => row \in Invoice
    BY InvoiceRow DEF TablesOK, IsTable
  <2>2. invoice' = [invoice EXCEPT ![h] = row]
    BY DEF InvoicePaid
  <2> QED
    BY <2>1, <2>2, UpdateTable DEF TablesOK
<1>3. user' \in [Users -> User] /\ IsTable(donation', Hashes, Donation)
  <2>0. user[payee].balance + amount \in Int
    BY <1>1 DEF TablesOK, User
  <2>1. [user EXCEPT ![payee].balance = @ + amount] \in [Users -> User]
    BY <1>1, <2>0, CreditType DEF TablesOK
  <2>2. SyncDonation([user EXCEPT ![payee].balance = @ + amount],
                     h, model, "none")
    BY DEF InvoicePaid
  <2> QED
    BY <2>1, <2>2, SyncDonationType DEF TablesOK
<1>4. record' \in [Users -> Seq(Record)]
  <2>1. record' = NewRecord(record, payee, seen, amount, h,
                            "external_payment")
    BY DEF InvoicePaid
  <2> QED
    BY <1>1, <2>1, NewRecordType DEF TablesOK
<1> QED
  BY <1>2, <1>3, <1>4 DEF TablesOK, InvoicePaid

\* The transaction of invoice_dup_paid keeps the tables well typed.
LEMMA InvoiceDupPaidType ==
    ASSUME TablesOK, NEW h \in Hashes, NEW model \in Invoice,
           NEW amount \in Nat, NEW seen \in Int,
           InvoiceDupPaid(h, model, amount, seen)
    PROVE  TablesOK'
<1> DEFINE payee == model.user_id
<1>1. payee \in Users /\ amount + model.paid_amount \in Nat
  BY DEF Invoice
<1>2. IsTable(invoice', Hashes, Invoice)
  <2> DEFINE row == [invoice[h] EXCEPT
                        !.paid_amount = amount + model.paid_amount,
                        !.duplicate = TRUE]
  <2>1. h \in DOMAIN invoice => row \in Invoice
    BY <1>1, InvoiceRow DEF TablesOK, IsTable
  <2>2. invoice' = [invoice EXCEPT ![h] = row]
    BY DEF InvoiceDupPaid
  <2> QED
    BY <2>1, <2>2, UpdateTable DEF TablesOK
<1>3. user' \in [Users -> User]
  <2>1. user[payee].balance + amount \in Int
    BY <1>1 DEF TablesOK, User
  <2>2. user' = [user EXCEPT ![payee].balance = @ + amount]
    BY DEF InvoiceDupPaid
  <2> QED
    BY <1>1, <2>1, <2>2, CreditType DEF TablesOK
<1>4. record' \in [Users -> Seq(Record)]
  <2>1. record' = NewRecord(record, payee, seen, amount, h,
                            "duplicate_payment")
    BY DEF InvoiceDupPaid
  <2> QED
    BY <1>1, <2>1, NewRecordType DEF TablesOK
<1> QED
  BY <1>2, <1>3, <1>4 DEF TablesOK, InvoiceDupPaid

\* So does the UPDATE of a canceled invoice.
LEMMA CancelInvoiceType ==
    ASSUME TablesOK, NEW h \in Hashes, CancelInvoice(h)
    PROVE  TablesOK'
<1> DEFINE row == [invoice[h] EXCEPT !.status = "Canceled"]
<1>1. h \in DOMAIN invoice => row \in Invoice
  BY InvoiceRow DEF TablesOK, IsTable
<1>2. IsTable([invoice EXCEPT ![h] = row], Hashes, Invoice)
  BY <1>1, UpdateTable DEF TablesOK
<1> QED
  BY <1>2 DEF TablesOK, CancelInvoice

\* No transaction takes back that an invoice is paid, or how: the filter of
\* internal_pay leaves the paid invoices as they are, ...
LEMMA InternalPayKeepsPaid ==
    ASSUME TablesOK, NEW u, NEW h \in DOMAIN invoice, InternalPayMatches(u, h),
           NEW model, NEW seen, NEW payeeSeen,
           InternalPay(u, h, model, seen, payeeSeen)
    PROVE  /\ DOMAIN invoice' = DOMAIN invoice
           /\ \A g \in DOMAIN invoice :
                invoice[g].status = "Paid" => invoice'[g] = invoice[g]
  BY DEF InternalPayMatches, InternalPay

\* ... so does invoice_paid's, ...
LEMMA InvoicePaidKeepsPaid ==
    ASSUME TablesOK, NEW h \in DOMAIN invoice, InvoicePaidMatches(h),
           NEW model, NEW amount, NEW seen, InvoicePaid(h, model, amount, seen)
    PROVE  /\ DOMAIN invoice' = DOMAIN invoice
           /\ \A g \in DOMAIN invoice :
                invoice[g].status = "Paid" => invoice'[g] = invoice[g]
  BY DEF InvoicePaidMatches, InvoicePaid

\* ... and the one of the UPDATE of canceled invoices.
LEMMA CancelKeepsPaid ==
    ASSUME TablesOK, NEW h \in DOMAIN invoice, CancelInvoice(h)
    PROVE  /\ DOMAIN invoice' = DOMAIN invoice
           /\ \A g \in DOMAIN invoice :
                invoice[g].status = "Paid" => invoice'[g] = invoice[g]
  BY DEF CancelInvoice

\* A second payment, in invoice_dup_paid, keeps how the first was made.
LEMMA InvoiceDupPaidKeepsPaid ==
    ASSUME TablesOK, NEW h \in DOMAIN invoice,
           NEW model, NEW amount, NEW seen,
           InvoiceDupPaid(h, model, amount, seen)
    PROVE  /\ DOMAIN invoice' = DOMAIN invoice
           /\ \A g \in DOMAIN invoice :
                /\ invoice'[g].status = invoice[g].status
                /\ invoice'[g].internal = invoice[g].internal
<1>1. invoice[h] \in Invoice
  BY DEF TablesOK, IsTable
<1> QED
  BY <1>1 DEF InvoiceDupPaid, Invoice

----------------------------------------------------------------------------
(* The sum of what is locked.                                              *)

\* A coin belongs to a pending payment of the account and to its lock amount.
LEMMA CoinsMember ==
    ASSUME NEW rows, NEW u, NEW c
    PROVE  c \in Coins(rows, u) <=>
              \E h \in DOMAIN rows :
                  /\ rows[h].status = "Unpaid" /\ rows[h].user_id = u
                  /\ c \in {h} \X (1..rows[h].lock_amount)
  BY DEF Coins

\* An account keeps the coins of the pending payments it keeps.
LEMMA CoinsSubset ==
    ASSUME NEW rows, NEW new, NEW v,
           \A g \in DOMAIN rows :
              rows[g].status = "Unpaid" /\ rows[g].user_id = v
                 => g \in DOMAIN new /\ new[g] = rows[g]
    PROVE  Coins(rows, v) \subseteq Coins(new, v)
<1> SUFFICES ASSUME NEW c \in Coins(rows, v)
             PROVE  c \in Coins(new, v)
  OBVIOUS
<1>1. PICK g \in DOMAIN rows : /\ rows[g].status = "Unpaid" /\ rows[g].user_id = v
                              /\ c \in {g} \X (1..rows[g].lock_amount)
  BY CoinsMember
<1> QED
  BY <1>1, CoinsMember

(* The lock of one payment, as a number of coins. *)
LEMMA CoinsOfOne ==
    ASSUME NEW h, NEW n \in Nat
    PROVE  IsFiniteSet({h} \X (1..n)) /\ Cardinality({h} \X (1..n)) = n
<1>1. IsFiniteSet(1..n) /\ Cardinality(1..n) = n
  BY FS_Interval
<1>2. IsFiniteSet({h}) /\ Cardinality({h}) = 1
  BY FS_Singleton
<1> QED
  BY <1>1, <1>2, FS_Product

(* A new pending payment adds its lock to its account's, and to no other. *)
LEMMA CoinsLocked ==
    ASSUME NEW rows, NEW h, h \notin DOMAIN rows, NEW row, NEW u,
           row.status = "Unpaid", row.user_id = u, row.lock_amount \in Nat,
           IsFiniteSet(Coins(rows, u))
    PROVE  LET new == Insert(rows, h, row)
           IN  /\ IsFiniteSet(Coins(new, u))
               /\ Cardinality(Coins(new, u))
                    = Cardinality(Coins(rows, u)) + row.lock_amount
               /\ \A v : v # u => Coins(new, v) = Coins(rows, v)
<1> DEFINE new   == Insert(rows, h, row)
           coins == {h} \X (1..row.lock_amount)
<1>1. /\ DOMAIN new = DOMAIN rows \cup {h} /\ new[h] = row
      /\ \A g \in DOMAIN rows : new[g] = rows[g]
  BY DEF Insert
<1> HIDE DEF new
<1>2. Coins(new, u) = Coins(rows, u) \cup coins
  BY <1>1, CoinsMember
<1>3. Coins(rows, u) \cap coins = {}
  <2>1. \A c \in coins : c[1] = h
    OBVIOUS
  <2>2. \A c \in Coins(rows, u) : c[1] \in DOMAIN rows
    BY CoinsMember
  <2> QED
    BY <2>1, <2>2
<1>4. ASSUME NEW v, v # u
      PROVE  Coins(new, v) = Coins(rows, v)
  <2>1. Coins(new, v) \subseteq Coins(rows, v)
    BY <1>1, <1>4, CoinsSubset
  <2>2. Coins(rows, v) \subseteq Coins(new, v)
    BY <1>1, <1>4, CoinsSubset
  <2> QED
    BY <2>1, <2>2
<1>5. IsFiniteSet(coins) /\ Cardinality(coins) = row.lock_amount
  BY CoinsOfOne
<1> HIDE DEF coins
<1>6. /\ IsFiniteSet(Coins(rows, u) \cup coins)
      /\ Cardinality(Coins(rows, u) \cup coins) =
            Cardinality(Coins(rows, u)) + Cardinality(coins) - Cardinality({})
  BY <1>3, <1>5, FS_Union
<1>7. Cardinality({}) = 0 /\ Cardinality(Coins(rows, u)) \in Nat
  BY FS_EmptySet, FS_CardinalityType
<1> QED
  BY <1>2, <1>4, <1>5, <1>6, <1>7 DEF new

(* Settling a pending payment takes its lock out of its account's. *)
LEMMA CoinsUnlocked ==
    ASSUME NEW rows, NEW new, NEW h \in DOMAIN rows, NEW u,
           DOMAIN new = DOMAIN rows,
           \A g \in DOMAIN rows \ {h} : new[g] = rows[g],
           rows[h].status = "Unpaid", rows[h].user_id = u,
           rows[h].lock_amount \in Nat,
           new[h].status # "Unpaid",
           IsFiniteSet(Coins(rows, u))
    PROVE  /\ IsFiniteSet(Coins(new, u))
           /\ Cardinality(Coins(new, u))
                = Cardinality(Coins(rows, u)) - rows[h].lock_amount
           /\ Cardinality(Coins(rows, u)) >= rows[h].lock_amount
           /\ \A v : v # u => Coins(new, v) = Coins(rows, v)
<1> DEFINE coins == {h} \X (1..rows[h].lock_amount)
<1>1. coins \subseteq Coins(rows, u)
  BY CoinsMember
<1>2. Coins(new, u) = Coins(rows, u) \ coins
  <2>1. ASSUME NEW c \in Coins(new, u)
        PROVE  c \in Coins(rows, u) /\ c \notin coins
    <3>1. PICK g \in DOMAIN new : /\ new[g].status = "Unpaid" /\ new[g].user_id = u
                                  /\ c \in {g} \X (1..new[g].lock_amount)
      BY CoinsMember
    <3>2. g # h /\ c[1] = g
      BY <3>1
    <3> QED
      BY <3>1, <3>2, CoinsMember
  <2>2. ASSUME NEW c \in Coins(rows, u), c \notin coins
        PROVE  c \in Coins(new, u)
    <3>1. PICK g \in DOMAIN rows : /\ rows[g].status = "Unpaid" /\ rows[g].user_id = u
                                   /\ c \in {g} \X (1..rows[g].lock_amount)
      BY CoinsMember
    <3>2. g # h
      BY <2>2, <3>1
    <3> QED
      BY <3>1, <3>2, CoinsMember
  <2> QED
    BY <2>1, <2>2
<1>3. ASSUME NEW v, v # u
      PROVE  Coins(new, v) = Coins(rows, v)
  <2>1. Coins(new, v) \subseteq Coins(rows, v)
    BY <1>3, CoinsSubset
  <2>2. Coins(rows, v) \subseteq Coins(new, v)
    BY <1>3, CoinsSubset
  <2> QED
    BY <2>1, <2>2
<1>4. IsFiniteSet(coins) /\ Cardinality(coins) = rows[h].lock_amount
  BY CoinsOfOne
<1> HIDE DEF coins
<1>5. Coins(rows, u) \cap coins = coins
  BY <1>1
<1>6. /\ IsFiniteSet(Coins(rows, u) \ coins)
      /\ Cardinality(Coins(rows, u) \ coins)
            = Cardinality(Coins(rows, u)) - Cardinality(coins)
  <2>1. /\ IsFiniteSet(Coins(rows, u) \ coins)
        /\ Cardinality(Coins(rows, u) \ coins) =
              Cardinality(Coins(rows, u)) - Cardinality(Coins(rows, u) \cap coins)
    BY FS_Difference
  <2> QED
    BY <1>5, <2>1
<1>7. Cardinality(coins) <= Cardinality(Coins(rows, u))
  BY <1>1, FS_Subset
<1>8. Cardinality(Coins(rows, u)) \in Nat
  BY FS_CardinalityType
<1> QED
  BY <1>2, <1>3, <1>4, <1>6, <1>7, <1>8

----------------------------------------------------------------------------
(* The ledger through the transactions.                                    *)

\* With no payment there is no lock: the ledger holds at the start.
LEMMA InitLedger == ASSUME StoreInit PROVE Ledger
<1>1. \A u \in Users : Coins(payment, u) = {}
  BY EmptyTable, CoinsMember DEF StoreInit
<1>2. \A u \in Users : user[u].balance = Deposit[u] /\ user[u].lock_amount = 0
  BY DEF StoreInit
<1>3. DOMAIN payment = {}
  BY EmptyTable DEF StoreInit
<1>4. \A u \in Users : Deposit[u] \in Nat
  BY StoreAssumption
<1>5. RowsAgree
  BY <1>3 DEF RowsAgree
<1>6. LockedFunds /\ \A u \in Users : IsFiniteSet(Coins(payment, u))
  BY <1>1, <1>2, FS_EmptySet DEF LockedFunds
<1>7. NoOverdraft
  BY <1>2, <1>4 DEF NoOverdraft
<1> QED
  BY <1>5, <1>6, <1>7 DEF Ledger

(* pay's transaction: the account's lock grows by what the new row locks. *)
LEMMA LockBalanceLedger ==
    ASSUME TablesOK, Ledger, NEW u \in Users, NEW h \in Hashes,
           LockBalanceMatches(u, h), LockBalance(u, h)
    PROVE  Ledger'
<1> DEFINE row == [user_id |-> u, status |-> "Unpaid",
                   lock_amount |-> Total(h), fee |-> 0,
                   service_fee |-> ServiceFee(Amount[h]),
                   total |-> Total(h), internal |-> FALSE]
<1>1. Total(h) \in Nat /\ -Total(h) \in Int
  BY TotalsArePositive
<1>2. /\ row.status = "Unpaid" /\ row.user_id = u /\ row.lock_amount = Total(h)
      /\ row.service_fee = ServiceFee(Amount[h])
  OBVIOUS
<1>3. payment' = Insert(payment, h, row) /\ h \notin DOMAIN payment
  BY DEF LockBalance, LockBalanceMatches
<1> HIDE DEF row
<1>4. /\ DOMAIN payment' = DOMAIN payment \cup {h} /\ payment'[h] = row
      /\ \A g \in DOMAIN payment : payment'[g] = payment[g]
  BY <1>3 DEF Insert
<1>5. RowsAgree'
  BY <1>2, <1>4 DEF Ledger, RowsAgree
<1>6. /\ IsFiniteSet(Coins(payment', u))
      /\ Cardinality(Coins(payment', u))
            = Cardinality(Coins(payment, u)) + Total(h)
      /\ \A v : v # u => Coins(payment', v) = Coins(payment, v)
  BY <1>1, <1>2, <1>3, CoinsLocked DEF Ledger
<1>7. /\ user'[u].balance = user[u].balance - Total(h)
      /\ user'[u].lock_amount = user[u].lock_amount + Total(h)
      /\ \A v \in Users \ {u} : user'[v] = user[v]
  <2>1. user[u].balance \in Int
    BY DEF TablesOK, User
  <2> QED
    BY <1>1, <2>1, MoveFundsEffect DEF TablesOK, LockBalance
<1>8. user[u].balance >= Total(h)
  BY DEF LockBalanceMatches
<1>9. user[u].balance \in Int /\ user[u].lock_amount \in Int
  BY DEF TablesOK, User
<1>10. (\A v \in Users : IsFiniteSet(Coins(payment, v)))'
  BY <1>6 DEF Ledger
<1>11. LockedFunds'
  BY <1>6, <1>7 DEF Ledger, LockedFunds
<1>12. NoOverdraft'
  BY <1>1, <1>7, <1>8, <1>9 DEF Ledger, NoOverdraft
<1> QED
  BY <1>5, <1>10, <1>11, <1>12 DEF Ledger

(* What pay_failed and pay_success have in common: the row is settled, its  *)
(* lock is taken out of the account's and some of it is paid back.  The     *)
(* filter of the second UPDATE matches because the account's lock is the    *)
(* sum of the pending payments' locks.                                      *)
LEMMA SettleLedger ==
    ASSUME TablesOK, Ledger, NEW h \in DOMAIN payment,
           payment[h].status = "Unpaid",
           DOMAIN payment' = DOMAIN payment,
           \A g \in DOMAIN payment \ {h} : payment'[g] = payment[g],
           payment'[h].status # "Unpaid", payment'[h].lock_amount = 0,
           payment'[h].service_fee = payment[h].service_fee,
           NEW payback \in Nat,
           user' = Unlock(payment[h].user_id, payback, payment[h].lock_amount)
    PROVE  Ledger'
<1> DEFINE u    == payment[h].user_id
           lock == payment[h].lock_amount
<1>1. u \in Users /\ lock \in Nat /\ -lock \in Int
  BY DEF TablesOK, IsTable, Payment
<1>2. RowsAgree'
  BY DEF Ledger, RowsAgree
<1>3. /\ IsFiniteSet(Coins(payment', u))
      /\ Cardinality(Coins(payment', u)) = Cardinality(Coins(payment, u)) - lock
      /\ Cardinality(Coins(payment, u)) >= lock
      /\ \A v : v # u => Coins(payment', v) = Coins(payment, v)
  BY <1>1, CoinsUnlocked DEF Ledger
<1>4. user[u].lock_amount >= lock
  BY <1>1, <1>3 DEF Ledger, LockedFunds
<1>5. user' = MoveFunds(u, payback, -lock)
  BY <1>4 DEF Unlock
<1>6. user[u].balance \in Int /\ user[u].lock_amount \in Int
  BY <1>1 DEF TablesOK, User
<1> HIDE DEF u, lock
<1>7. /\ user'[u].balance = user[u].balance + payback
      /\ user'[u].lock_amount = user[u].lock_amount - lock
      /\ \A v \in Users \ {u} : user'[v] = user[v]
  BY <1>1, <1>5, <1>6, MoveFundsEffect DEF TablesOK
<1>8. (\A v \in Users : IsFiniteSet(Coins(payment, v)))'
  BY <1>3 DEF Ledger
<1>9. LockedFunds'
  BY <1>3, <1>7 DEF Ledger, LockedFunds
<1>10. NoOverdraft'
  BY <1>1, <1>4, <1>6, <1>7 DEF Ledger, NoOverdraft
<1> QED
  BY <1>2, <1>8, <1>9, <1>10 DEF Ledger

(* A row that still has the lock the caller has read is still pending.     *)
LEMMA SameLockIsPending ==
    ASSUME Ledger, NEW h \in Hashes, h \in DOMAIN payment,
           payment[h].lock_amount = Total(h)
    PROVE  payment[h].status = "Unpaid"
  BY TotalsArePositive DEF Ledger, RowsAgree

(* pay_failed gives the whole lock back. *)
LEMMA PayFailedLedger ==
    ASSUME TablesOK, Ledger, NEW h \in DOMAIN payment,
           NEW model, model.user_id = payment[h].user_id,
           PayFailedMatches(h, model), PayFailed(h, model)
    PROVE  Ledger'
<1>1. payment[h] \in Payment
  BY DEF TablesOK, IsTable
<1>2. /\ DOMAIN payment' = DOMAIN payment
      /\ \A g \in DOMAIN payment \ {h} : payment'[g] = payment[g]
      /\ payment'[h].status = "Canceled" /\ payment'[h].lock_amount = 0
      /\ payment'[h].service_fee = payment[h].service_fee
  BY <1>1 DEF PayFailed, Payment
<1>3. payment[h].lock_amount \in Nat
  BY <1>1 DEF Payment
<1>4. user' = Unlock(payment[h].user_id, payment[h].lock_amount,
                     payment[h].lock_amount)
  BY DEF PayFailed, PayFailedMatches
<1>5. payment[h].status = "Unpaid"
  BY DEF PayFailedMatches
<1> QED
  BY <1>2, <1>3, <1>4, <1>5, SettleLedger

(* pay_success gives back what the route did not cost. *)
LEMMA PaySuccessLedger ==
    ASSUME TablesOK, Ledger, NEW h \in DOMAIN payment,
           NEW model, model.user_id = payment[h].user_id,
           model.lock_amount = Total(h),
           model.service_fee = ServiceFee(Amount[h]),
           NEW fee \in Nat, fee <= MaxFee(Amount[h]), NEW seen,
           PaySuccessMatches(h, model), PaySuccess(h, model, fee, seen)
    PROVE  Ledger'
<1>1. h \in Hashes /\ payment[h] \in Payment
  BY DEF TablesOK, IsTable
<1>2. payment[h].status = "Unpaid" /\ payment[h].lock_amount = Total(h)
  BY <1>1, SameLockIsPending DEF PaySuccessMatches
<1>3. Payback(h, model, fee) \in Nat
  BY <1>1, FeesAreNat DEF Total, Payback
<1>4. payment' = [payment EXCEPT ![h].status = "Paid",
                                 ![h].lock_amount = 0,
                                 ![h].fee = fee,
                                 ![h].total = Cost(h, model, fee)]
  BY DEF PaySuccess
<1>5. user' = Unlock(payment[h].user_id, Payback(h, model, fee),
                   payment[h].lock_amount)
  BY <1>2 DEF PaySuccess
<1>6. /\ DOMAIN payment' = DOMAIN payment
      /\ \A g \in DOMAIN payment \ {h} : payment'[g] = payment[g]
      /\ payment'[h].status = "Paid" /\ payment'[h].lock_amount = 0
      /\ payment'[h].service_fee = payment[h].service_fee
  BY <1>1, <1>4 DEF Payment
<1> QED
  BY <1>2, <1>3, <1>5, <1>6, SettleLedger

(* What the transactions do to the rows of payments. *)
LEMMA LockBalanceRows ==
    ASSUME NEW u, NEW h, LockBalanceMatches(u, h), LockBalance(u, h)
    PROVE  /\ h \notin DOMAIN payment
           /\ DOMAIN payment' = DOMAIN payment \cup {h}
           /\ payment'[h].user_id = u /\ payment'[h].status = "Unpaid"
           /\ \A g \in DOMAIN payment : payment'[g] = payment[g]
  BY DEF LockBalanceMatches, LockBalance, Insert

\* What pay_failed does to the rows of the payments.
LEMMA PayFailedRows ==
    ASSUME TablesOK, NEW h \in DOMAIN payment, NEW model, PayFailed(h, model)
    PROVE  /\ DOMAIN payment' = DOMAIN payment
           /\ payment'[h].user_id = payment[h].user_id
           /\ payment'[h].status = "Canceled"
           /\ \A g \in DOMAIN payment \ {h} : payment'[g] = payment[g]
<1>1. payment[h] \in Payment
  BY DEF TablesOK, IsTable
<1> QED
  BY <1>1 DEF PayFailed, Payment

\* What pay_success does to the rows of the payments.
LEMMA PaySuccessRows ==
    ASSUME TablesOK, NEW h \in DOMAIN payment, NEW fee \in Nat, NEW seen,
           NEW model, model.lock_amount = Total(h),
           model.service_fee = ServiceFee(Amount[h]),
           PaySuccess(h, model, fee, seen)
    PROVE  /\ DOMAIN payment' = DOMAIN payment
           /\ payment'[h].user_id = payment[h].user_id
           /\ payment'[h].status = "Paid"
           /\ payment'[h].total = Amount[h] + fee + ServiceFee(Amount[h])
           /\ \A g \in DOMAIN payment \ {h} : payment'[g] = payment[g]
<1>1. h \in Hashes /\ payment[h] \in Payment
  BY DEF TablesOK, IsTable
<1>2. Cost(h, model, fee) = Amount[h] + fee + ServiceFee(Amount[h])
  BY <1>1, FeesAreNat DEF Cost, Payback, Total
<1>3. payment' = [payment EXCEPT ![h].status = "Paid",
                                 ![h].lock_amount = 0,
                                 ![h].fee = fee,
                                 ![h].total = Cost(h, model, fee)]
  BY DEF PaySuccess
<1>4. /\ DOMAIN payment' = DOMAIN payment
      /\ payment'[h].user_id = payment[h].user_id
      /\ payment'[h].status = "Paid" /\ payment'[h].total = Cost(h, model, fee)
      /\ \A g \in DOMAIN payment \ {h} : payment'[g] = payment[g]
  BY <1>1, <1>3 DEF Payment
<1> QED
  BY <1>2, <1>4

\* A pending payment's lock is part of its account's.
LEMMA LockIsThere ==
    ASSUME TablesOK, Ledger, NEW h \in DOMAIN payment,
           payment[h].status = "Unpaid"
    PROVE  user[payment[h].user_id].lock_amount >= payment[h].lock_amount
<1> DEFINE u   == payment[h].user_id
           new == [payment EXCEPT ![h] = [payment[h] EXCEPT !.status = "Paid"]]
<1>1. payment[h] \in Payment
  BY DEF TablesOK, IsTable
<1>2. u \in Users /\ payment[h].lock_amount \in Nat
  BY <1>1 DEF Payment
<1>3. /\ DOMAIN new = DOMAIN payment /\ new[h].status = "Paid"
      /\ \A g \in DOMAIN payment \ {h} : new[g] = payment[g]
  BY <1>1 DEF Payment
<1> HIDE DEF new
<1>4. Cardinality(Coins(payment, u)) >= payment[h].lock_amount
  BY <1>2, <1>3, CoinsUnlocked DEF Ledger
<1> QED
  BY <1>2, <1>4 DEF Ledger, LockedFunds

\* A transaction that locks nothing and takes no account below zero keeps the
\* ledger: the payments stay, or one that is already paid is added.
LEMMA PaidLedger ==
    ASSUME Ledger,
           \A v \in Users : /\ user'[v].lock_amount = user[v].lock_amount
                            /\ user'[v].balance >= 0,
           NEW h, NEW row, row.status = "Paid", row.lock_amount = 0,
           row.service_fee = ServiceFee(Amount[h]),
           \/ payment' = payment
           \/ h \notin DOMAIN payment /\ payment' = Insert(payment, h, row)
    PROVE  Ledger'
<1>1. \A g \in DOMAIN payment' :
        \/ g \in DOMAIN payment /\ payment'[g] = payment[g]
        \/ g = h /\ payment'[g] = row
  BY DEF Insert
<1>2. \A g \in DOMAIN payment : g \in DOMAIN payment' /\ payment'[g] = payment[g]
  BY DEF Insert
<1>3. ASSUME NEW v
      PROVE  Coins(payment', v) = Coins(payment, v)
  <2>1. Coins(payment', v) \subseteq Coins(payment, v)
    BY <1>1, CoinsSubset
  <2>2. Coins(payment, v) \subseteq Coins(payment', v)
    BY <1>2, CoinsSubset
  <2> QED
    BY <2>1, <2>2
<1>4. RowsAgree'
  BY <1>1 DEF Ledger, RowsAgree
<1>5. LockedFunds' /\ (\A v \in Users : IsFiniteSet(Coins(payment, v)))'
  BY <1>3 DEF Ledger, LockedFunds
<1>6. NoOverdraft'
  BY DEF Ledger, NoOverdraft
<1> QED
  BY <1>4, <1>5, <1>6 DEF Ledger

\* A balance and a sum of donations of one account, ...
LEMMA CreditEffect ==
    ASSUME NEW users \in [Users -> User], NEW u \in Users, NEW value \in Int
    PROVE  /\ LET new == [users EXCEPT ![u].balance = value]
              IN  /\ new \in [Users -> User]
                  /\ \A v \in Users :
                        /\ new[v].balance = IF v = u THEN value ELSE users[v].balance
                        /\ new[v].lock_amount = users[v].lock_amount
                        /\ new[v].donate_amount = users[v].donate_amount
           /\ LET new == [users EXCEPT ![u].donate_amount = value]
              IN  /\ new \in [Users -> User]
                  /\ \A v \in Users :
                        /\ new[v].balance = users[v].balance
                        /\ new[v].lock_amount = users[v].lock_amount
                        /\ new[v].donate_amount
                                = IF v = u THEN value ELSE users[v].donate_amount
<1>1. users[u] \in User
  OBVIOUS
<1> DEFINE credited == [users[u] EXCEPT !.balance = value]
           donated  == [users[u] EXCEPT !.donate_amount = value]
<1>2. /\ credited \in User /\ credited.balance = value
      /\ credited.lock_amount = users[u].lock_amount
      /\ credited.donate_amount = users[u].donate_amount
  BY <1>1 DEF User
<1>3. /\ donated \in User /\ donated.balance = users[u].balance
      /\ donated.lock_amount = users[u].lock_amount
      /\ donated.donate_amount = value
  BY <1>1 DEF User
<1>4. /\ [users EXCEPT ![u].balance = value]
            = [v \in Users |-> IF v = u THEN credited ELSE users[v]]
      /\ [users EXCEPT ![u].donate_amount = value]
            = [v \in Users |-> IF v = u THEN donated ELSE users[v]]
  OBVIOUS
<1> HIDE DEF credited, donated
<1> QED
  BY <1>2, <1>3, <1>4

----------------------------------------------------------------------------
(* Sums of functions.                                                      *)

\* What an entry counts for.
Positive(n) == IF n > 0 THEN n ELSE 0

\* A msat belongs to an entry.
LEMMA MsatsMember ==
    ASSUME NEW value, NEW c
    PROVE  c \in Msats(value) <=>
              \E x \in DOMAIN value : c \in {x} \X (1..value[x])
  BY DEF Msats

\* The msats of one entry.
LEMMA MsatsOfOne ==
    ASSUME NEW x, NEW n \in Int
    PROVE  /\ IsFiniteSet({x} \X (1..n))
           /\ Cardinality({x} \X (1..n)) = Positive(n)
<1>1. IsFiniteSet(1..n) /\ Cardinality(1..n) = Positive(n)
  BY FS_Interval DEF Positive
<1>2. IsFiniteSet({x}) /\ Cardinality({x}) = 1
  BY FS_Singleton
<1>3. Positive(n) \in Nat
  BY DEF Positive
<1> QED
  BY <1>1, <1>2, <1>3, FS_Product

\* A finite function has a sum.
LEMMA SumIsNat ==
    ASSUME NEW value, IsFiniteSet(DOMAIN value),
           \A x \in DOMAIN value : value[x] \in Int
    PROVE  IsFiniteSet(Msats(value)) /\ SumOf(value) \in Nat
<1> DEFINE entries == {{x} \X (1..value[x]) : x \in DOMAIN value}
           entry   == [x \in DOMAIN value |-> {x} \X (1..value[x])]
<1>1. entry \in Surjection(DOMAIN value, entries)
  BY DEF Surjection
<1>2. IsFiniteSet(entries)
  <2> HIDE DEF entries, entry
  <2> QED
    BY <1>1, FS_Surjection
<1>3. \A e \in entries : IsFiniteSet(e)
  BY MsatsOfOne
<1>4. IsFiniteSet(UNION entries)
  <2> HIDE DEF entries
  <2> QED
    BY <1>2, <1>3, FS_UNION
<1> QED
  BY <1>4, FS_CardinalityType DEF Msats, SumOf

\* The sum of nothing.
LEMMA SumOfNone ==
    ASSUME NEW value, DOMAIN value = {}
    PROVE  SumOf(value) = 0
<1>1. Msats(value) = {}
  BY MsatsMember
<1> QED
  BY <1>1, FS_EmptySet DEF SumOf

\* Entries that count for no less sum up to no less.
LEMMA SumOfMore ==
    ASSUME NEW old, NEW new, DOMAIN old \subseteq DOMAIN new,
           IsFiniteSet(DOMAIN new),
           \A x \in DOMAIN new : new[x] \in Int,
           \A x \in DOMAIN old : old[x] \in Int /\ old[x] <= new[x]
    PROVE  SumOf(old) <= SumOf(new)
<1>1. Msats(old) \subseteq Msats(new)
  <2> SUFFICES ASSUME NEW c \in Msats(old)
               PROVE  c \in Msats(new)
    OBVIOUS
  <2>1. PICK x \in DOMAIN old : c \in {x} \X (1..old[x])
    BY MsatsMember
  <2>2. 1..old[x] \subseteq 1..new[x]
    BY <2>1
  <2>3. x \in DOMAIN new /\ c \in {x} \X (1..new[x])
    BY <2>1, <2>2
  <2> QED
    BY <2>3, MsatsMember
<1>2. IsFiniteSet(Msats(new))
  BY SumIsNat
<1> QED
  BY <1>1, <1>2, FS_Subset DEF SumOf

\* Functions with the same entries have the same sum.
LEMMA SumOfSame ==
    ASSUME NEW old, NEW new, DOMAIN new = DOMAIN old,
           \A x \in DOMAIN old : new[x] = old[x]
    PROVE  SumOf(new) = SumOf(old)
<1>1. \A c : c \in Msats(new) <=> c \in Msats(old)
  BY MsatsMember
<1>2. Msats(new) = Msats(old)
  BY <1>1
<1> QED
  BY <1>2 DEF SumOf

\* A new entry adds what it counts for.
LEMMA SumOfAdded ==
    ASSUME NEW old, NEW new, NEW x, x \notin DOMAIN old,
           DOMAIN new = DOMAIN old \cup {x}, IsFiniteSet(DOMAIN old),
           \A y \in DOMAIN old : old[y] \in Int /\ new[y] = old[y],
           new[x] \in Int
    PROVE  SumOf(new) = SumOf(old) + Positive(new[x])
<1> DEFINE msats == {x} \X (1..new[x])
<1>1. Msats(new) = Msats(old) \cup msats
  <2>1. \A c : c \in Msats(new) <=> c \in Msats(old) \/ c \in msats
    <3> SUFFICES ASSUME NEW c
                 PROVE  c \in Msats(new) <=> c \in Msats(old) \/ c \in msats
      OBVIOUS
    <3>1. c \in Msats(new) <=> \E y \in DOMAIN new : c \in {y} \X (1..new[y])
      BY MsatsMember
    <3>2. c \in Msats(old) <=> \E y \in DOMAIN old : c \in {y} \X (1..old[y])
      BY MsatsMember
    <3> QED
      BY <3>1, <3>2
  <2> QED
    BY <2>1
<1>2. Msats(old) \cap msats = {}
  <2>1. \A c \in msats : c[1] = x
    OBVIOUS
  <2>2. \A c \in Msats(old) : c[1] \in DOMAIN old
    BY MsatsMember
  <2> QED
    BY <2>1, <2>2
<1>3. IsFiniteSet(Msats(old)) /\ Cardinality(Msats(old)) \in Nat
  BY SumIsNat DEF SumOf
<1>4. IsFiniteSet(msats) /\ Cardinality(msats) = Positive(new[x])
  BY MsatsOfOne
<1> HIDE DEF msats
<1>5. Cardinality(Msats(old) \cup msats) =
        Cardinality(Msats(old)) + Cardinality(msats) - Cardinality({})
  BY <1>2, <1>3, <1>4, FS_Union
<1>6. Cardinality({}) = 0 /\ Positive(new[x]) \in Nat
  BY FS_EmptySet DEF Positive
<1> QED
  BY <1>1, <1>3, <1>4, <1>5, <1>6 DEF SumOf

\* A changed entry takes out what it counted for and adds what it counts for.
LEMMA SumOfChanged ==
    ASSUME NEW old, NEW new, NEW x \in DOMAIN old,
           DOMAIN new = DOMAIN old, IsFiniteSet(DOMAIN old),
           \A y \in DOMAIN old \ {x} : old[y] \in Int /\ new[y] = old[y],
           old[x] \in Int, new[x] \in Int
    PROVE  SumOf(new) = SumOf(old) - Positive(old[x]) + Positive(new[x])
<1> DEFINE rest == [y \in DOMAIN old \ {x} |-> old[y]]
<1>1. IsFiniteSet(DOMAIN rest)
  BY FS_Difference
<1>2. /\ DOMAIN rest = DOMAIN old \ {x}
      /\ \A y \in DOMAIN rest : rest[y] \in Int /\ rest[y] = old[y] /\ rest[y] = new[y]
  OBVIOUS
<1> HIDE DEF rest
<1>3. SumOf(old) = SumOf(rest) + Positive(old[x])
  BY <1>1, <1>2, SumOfAdded
<1>4. SumOf(new) = SumOf(rest) + Positive(new[x])
  BY <1>1, <1>2, SumOfAdded
<1>5. SumOf(rest) \in Nat
  BY <1>1, <1>2, SumIsNat
<1>6. Positive(old[x]) \in Nat /\ Positive(new[x]) \in Nat
  BY DEF Positive
<1> QED
  BY <1>3, <1>4, <1>5, <1>6

\* One of the numbers in a sum moves, and none is negative.
Moved(old, new, S, x, change) ==
    /\ DOMAIN old = S /\ DOMAIN new = S /\ x \in S /\ change \in Int
    /\ \A y \in S : /\ old[y] \in Nat /\ new[y] \in Nat
                    /\ new[y] = old[y] + IF y = x THEN change ELSE 0

LEMMA SumOfMoved ==
    ASSUME NEW S, IsFiniteSet(S), NEW old, NEW new, NEW x, NEW change,
           Moved(old, new, S, x, change)
    PROVE  SumOf(new) = SumOf(old) + change
<1> USE DEF Moved
<1>1. \A y \in S \ {x} : old[y] \in Int /\ new[y] = old[y]
  OBVIOUS
<1>2. old[x] \in Nat /\ new[x] \in Nat /\ new[x] = old[x] + change
  OBVIOUS
<1>3. SumOf(new) = SumOf(old) - Positive(old[x]) + Positive(new[x])
  BY <1>1, <1>2, SumOfChanged
<1>4. Positive(old[x]) = old[x] /\ Positive(new[x]) = new[x]
  BY <1>2 DEF Positive
<1>5. SumOf(old) \in Nat
  BY SumIsNat
<1> QED
  BY <1>2, <1>3, <1>4, <1>5

----------------------------------------------------------------------------
(* The statement through the transactions.                                 *)

\* A statement adds up to a number.
LEMMA BalanceIsInt ==
    ASSUME NEW rows \in Seq(Record)
    PROVE  Balance(rows) \in Int
<1> DEFINE credits == [i \in DOMAIN rows |-> rows[i].change]
           debits  == [i \in DOMAIN rows |-> -rows[i].change]
<1>1. IsFiniteSet(DOMAIN rows)
  BY FS_Interval
<1>2. \A i \in DOMAIN rows : rows[i].change \in Int /\ -rows[i].change \in Int
  <2>1. \A i \in DOMAIN rows : rows[i] \in Record
    OBVIOUS
  <2>2. \A i \in DOMAIN rows : rows[i].change \in Int
    BY <2>1 DEF Record
  <2> QED
    BY <2>2
<1>3. SumOf(credits) \in Nat
  BY <1>1, <1>2, SumIsNat
<1>4. SumOf(debits) \in Nat
  BY <1>1, <1>2, SumIsNat
<1> QED
  BY <1>3, <1>4 DEF Balance

\* A new record adds its change.
LEMMA BalanceAppended ==
    ASSUME NEW rows \in Seq(Record), NEW row \in Record
    PROVE  Balance(Append(rows, row)) = Balance(rows) + row.change
<1> DEFINE new     == Append(rows, row)
           n       == Len(rows) + 1
           credits(r) == [i \in DOMAIN r |-> r[i].change]
           debits(r)  == [i \in DOMAIN r |-> -r[i].change]
<1>1. /\ DOMAIN rows = 1..Len(rows) /\ Len(rows) \in Nat
      /\ DOMAIN new = DOMAIN rows \cup {n} /\ n \notin DOMAIN rows
      /\ new[n] = row /\ \A i \in DOMAIN rows : new[i] = rows[i]
  OBVIOUS
<1>2. IsFiniteSet(DOMAIN rows)
  BY <1>1, FS_Interval
<1>3. /\ \A i \in DOMAIN rows : rows[i].change \in Int /\ -rows[i].change \in Int
      /\ row.change \in Int /\ -row.change \in Int
  <2>1. \A i \in DOMAIN rows : rows[i] \in Record
    OBVIOUS
  <2>2. row.change \in Int /\ \A i \in DOMAIN rows : rows[i].change \in Int
    BY <2>1 DEF Record
  <2> QED
    BY <2>2
<1> HIDE DEF new, n
<1>4. SumOf(credits(new)) = SumOf(credits(rows)) + Positive(row.change)
  <2> DEFINE old == credits(rows)  more == credits(new)
  <2>1. /\ DOMAIN old = DOMAIN rows /\ DOMAIN more = DOMAIN rows \cup {n}
        /\ \A i \in DOMAIN rows : old[i] \in Int /\ more[i] = old[i]
        /\ more[n] = row.change
    BY <1>1, <1>3
  <2> HIDE DEF old, more
  <2>2. /\ n \notin DOMAIN old /\ DOMAIN more = DOMAIN old \cup {n}
        /\ IsFiniteSet(DOMAIN old) /\ more[n] \in Int
        /\ \A i \in DOMAIN old : old[i] \in Int /\ more[i] = old[i]
    BY <1>1, <1>2, <1>3, <2>1
  <2>3. SumOf(more) = SumOf(old) + Positive(more[n])
    BY <2>2, SumOfAdded
  <2> QED
    BY <2>1, <2>3 DEF old, more
<1>5. SumOf(debits(new)) = SumOf(debits(rows)) + Positive(-row.change)
  <2> DEFINE old == debits(rows)  more == debits(new)
  <2>1. /\ DOMAIN old = DOMAIN rows /\ DOMAIN more = DOMAIN rows \cup {n}
        /\ \A i \in DOMAIN rows : old[i] \in Int /\ more[i] = old[i]
        /\ more[n] = -row.change
    BY <1>1, <1>3
  <2> HIDE DEF old, more
  <2>2. /\ n \notin DOMAIN old /\ DOMAIN more = DOMAIN old \cup {n}
        /\ IsFiniteSet(DOMAIN old) /\ more[n] \in Int
        /\ \A i \in DOMAIN old : old[i] \in Int /\ more[i] = old[i]
    BY <1>1, <1>2, <1>3, <2>1
  <2>3. SumOf(more) = SumOf(old) + Positive(more[n])
    BY <2>2, SumOfAdded
  <2> QED
    BY <2>1, <2>3 DEF old, more
<1>6. SumOf(credits(rows)) \in Nat /\ SumOf(debits(rows)) \in Nat
  BY <1>2, <1>3, SumIsNat
<1>7. Positive(row.change) - Positive(-row.change) = row.change
  BY <1>3 DEF Positive
<1>8. Positive(row.change) \in Nat /\ Positive(-row.change) \in Nat
  BY <1>3 DEF Positive
<1>9. /\ Balance(rows) = SumOf(credits(rows)) - SumOf(debits(rows))
      /\ Balance(new) = SumOf(credits(new)) - SumOf(debits(new))
  BY DEF Balance
<1> HIDE DEF credits, debits
<1> QED
  BY <1>3, <1>4, <1>5, <1>6, <1>7, <1>8, <1>9 DEF new

\* new_record adds its change to the statement of one account.
LEMMA NewRecordBalance ==
    ASSUME NEW rows \in [Users -> Seq(Record)], NEW u \in Users,
           NEW seen \in Int, NEW change \in Int, NEW h \in Hashes,
           NEW source \in {"admin", "external_payment", "internal_payment",
                           "duplicate_payment"},
           NEW v \in Users
    PROVE  Balance(NewRecord(rows, u, seen, change, h, source)[v])
                = Balance(rows[v]) + IF v = u THEN change ELSE 0
<1> DEFINE row == [balance |-> seen, change |-> change, hash |-> h,
                   source |-> source]
<1>1. row \in Record /\ row.change = change
  BY DEF Record
<1>2. NewRecord(rows, u, seen, change, h, source)[v]
            = IF v = u THEN Append(rows[v], row) ELSE rows[v]
  BY DEF NewRecord
<1>3. Balance(rows[v]) \in Int
  BY BalanceIsInt
<1> HIDE DEF row
<1>4. Balance(Append(rows[v], row)) = Balance(rows[v]) + change
  BY <1>1, BalanceAppended
<1> QED
  BY <1>2, <1>3, <1>4

\* The statement explains an account when what it holds and what its records add
\* up to change by the same.
LEMMA ExplainedStep ==
    ASSUME TablesOK, Explained,
           \A v \in Users : \E change \in Int :
                /\ user'[v].balance + user'[v].lock_amount
                        = user[v].balance + user[v].lock_amount + change
                /\ Balance(record'[v]) = Balance(record[v]) + change
    PROVE  Explained'
<1>1. \A v \in Users : record[v] \in Seq(Record)
  BY DEF TablesOK
<1>2. \A v \in Users : Balance(record[v]) \in Int
  BY <1>1, BalanceIsInt
<1> QED
  BY <1>2 DEF Explained

\* At the start an account holds what its one record says.
LEMMA InitExplained == ASSUME StoreInit PROVE Explained
<1>1. ASSUME NEW u \in Users
      PROVE  user[u].balance + user[u].lock_amount = Balance(record[u])
  <2> DEFINE row == [balance |-> 0, change |-> Deposit[u], hash |-> "admin",
                     source |-> "admin"]
  <2>1. row \in Record /\ row.change = Deposit[u] /\ Deposit[u] \in Int
    BY StoreAssumption DEF Record
  <2>2. record[u] = <<row>> /\ user[u].balance = Deposit[u] /\ user[u].lock_amount = 0
    BY DEF StoreInit
  <2> HIDE DEF row
  <2>3. <<row>> = Append(<<>>, row) /\ <<>> \in Seq(Record) /\ DOMAIN <<>> = {}
    BY <2>1
  <2>4. Balance(<<row>>) = Balance(<<>>) + Deposit[u]
    BY <2>1, <2>3, BalanceAppended
  <2>5. Balance(<<>>) = 0
    BY <2>3, SumOfNone DEF Balance
  <2> QED
    BY <2>1, <2>2, <2>4, <2>5
<1> QED
  BY <1>1 DEF Explained

\* Locking moves money within the account.
LEMMA LockBalanceExplained ==
    ASSUME TablesOK, Explained, NEW u \in Users, NEW h \in Hashes,
           LockBalance(u, h)
    PROVE  Explained'
<1>1. Total(h) \in Int /\ -Total(h) \in Int
  BY TotalsArePositive
<1>2. ASSUME NEW v \in Users
      PROVE  user'[v].balance + user'[v].lock_amount
                = user[v].balance + user[v].lock_amount + 0
  <2>1. user[v].balance \in Int /\ user[v].lock_amount \in Int
    BY DEF TablesOK, User
  <2> QED
    BY <1>1, <2>1, MoveFundsFields DEF TablesOK, LockBalance
<1>3. \A v \in Users : Balance(record'[v]) = Balance(record[v]) + 0
  BY BalanceIsInt DEF LockBalance, TablesOK
<1> QED
  BY <1>2, <1>3, ExplainedStep

\* What Unlock does to a pending payment's account: its filter matches.
LEMMA UnlockAccounts ==
    ASSUME TablesOK, Ledger, NEW h \in DOMAIN payment,
           payment[h].status = "Unpaid", NEW payback \in Int,
           user' = Unlock(payment[h].user_id, payback, payment[h].lock_amount)
    PROVE  \A v \in Users :
             /\ user'[v].balance = user[v].balance
                    + IF v = payment[h].user_id THEN payback ELSE 0
             /\ user'[v].lock_amount = user[v].lock_amount
                    - IF v = payment[h].user_id THEN payment[h].lock_amount ELSE 0
             /\ user'[v].donate_amount = user[v].donate_amount
<1> DEFINE u == payment[h].user_id
           lock == payment[h].lock_amount
<1>1. u \in Users /\ lock \in Nat /\ -lock \in Int
  BY DEF TablesOK, IsTable, Payment
<1>2. user' = MoveFunds(u, payback, -lock)
  BY LockIsThere DEF Unlock
<1>3. \A v \in Users : user[v].lock_amount \in Int
  BY DEF TablesOK, User
<1> HIDE DEF u, lock
<1>4. \A v \in Users :
        /\ user'[v].balance = user[v].balance + IF v = u THEN payback ELSE 0
        /\ user'[v].lock_amount = user[v].lock_amount + IF v = u THEN -lock ELSE 0
        /\ user'[v].donate_amount = user[v].donate_amount
  BY <1>1, <1>2, MoveFundsFields DEF TablesOK
<1> QED
  BY <1>1, <1>3, <1>4 DEF u, lock

\* pay_failed gives back what was locked.
LEMMA PayFailedExplained ==
    ASSUME TablesOK, Ledger, Explained, NEW h \in DOMAIN payment,
           payment[h].status = "Unpaid", PayFailed(h, payment[h])
    PROVE  Explained'
<1>1. payment[h].lock_amount \in Int
  BY DEF TablesOK, IsTable, Payment
<1>2. ASSUME NEW v \in Users
      PROVE  user'[v].balance + user'[v].lock_amount
                = user[v].balance + user[v].lock_amount + 0
  <2>1. user[v].balance \in Int /\ user[v].lock_amount \in Int
    BY DEF TablesOK, User
  <2> QED
    BY <1>1, <2>1, UnlockAccounts DEF PayFailed
<1>3. \A v \in Users : Balance(record'[v]) = Balance(record[v]) + 0
  BY BalanceIsInt DEF PayFailed, TablesOK
<1> QED
  BY <1>2, <1>3, ExplainedStep

\* What is not given back of a lock is the cost, which is at most the lock.
LEMMA PaymentCost ==
    ASSUME TablesOK, Ledger, NEW h \in DOMAIN payment,
           payment[h].status = "Unpaid",
           NEW fee \in Nat, fee <= MaxFee(Amount[h])
    PROVE  /\ h \in Hashes /\ payment[h].lock_amount = Total(h)
           /\ Total(h) \in Nat
           /\ Payback(h, payment[h], fee) \in Nat
           /\ Cost(h, payment[h], fee) \in Nat
           /\ Cost(h, payment[h], fee) = Amount[h] + fee + ServiceFee(Amount[h])
           /\ Payback(h, payment[h], fee) = Total(h) - Cost(h, payment[h], fee)
           /\ Amount[h] \in Nat /\ Amount[h] > 0 /\ ServiceFee(Amount[h]) \in Nat
<1>1. h \in Hashes
  BY DEF TablesOK, IsTable
<1>2. payment[h].lock_amount = Total(h) /\ payment[h].service_fee = ServiceFee(Amount[h])
  BY DEF Ledger, RowsAgree
<1> QED
  BY <1>1, <1>2, FeesAreNat DEF Payback, Cost, Total

\* pay_success takes the cost, and records it.
LEMMA PaySuccessExplained ==
    ASSUME TablesOK, Ledger, Explained, NEW h \in DOMAIN payment,
           payment[h].status = "Unpaid",
           NEW fee \in Nat, fee <= MaxFee(Amount[h]), NEW seen \in Int,
           PaySuccess(h, payment[h], fee, seen)
    PROVE  Explained'
<1> DEFINE u    == payment[h].user_id
           cost == Cost(h, payment[h], fee)
           back == Payback(h, payment[h], fee)
<1>1. /\ h \in Hashes /\ u \in Users /\ payment[h].lock_amount = Total(h)
      /\ Total(h) \in Nat /\ cost \in Nat /\ -cost \in Int /\ back \in Nat
      /\ back = Total(h) - cost
  <2>1. u \in Users
    BY DEF TablesOK, IsTable, Payment
  <2>2. /\ h \in Hashes /\ payment[h].lock_amount = Total(h) /\ Total(h) \in Nat
        /\ cost \in Nat /\ back \in Nat /\ back = Total(h) - cost
    BY PaymentCost
  <2> HIDE DEF u, cost, back
  <2> QED
    BY <2>1, <2>2
<1>2. \A v \in Users : Balance(record'[v])
                        = Balance(record[v]) + IF v = u THEN -cost ELSE 0
  <2>1. record' = NewRecord(record, u, seen, -cost, h, "external_payment")
    BY DEF PaySuccess
  <2> HIDE DEF u, cost
  <2> QED
    BY <1>1, <2>1, NewRecordBalance DEF TablesOK
<1>3. user' = Unlock(u, back, payment[h].lock_amount)
  BY DEF PaySuccess
<1>4. \A v \in Users :
             /\ user'[v].balance = user[v].balance + IF v = u THEN back ELSE 0
             /\ user'[v].lock_amount = user[v].lock_amount
                    - IF v = u THEN Total(h) ELSE 0
  BY <1>1, <1>3, UnlockAccounts
<1> HIDE DEF u, cost, back
<1>5. \A v \in Users :
            user'[v].balance + user'[v].lock_amount = user[v].balance
                + user[v].lock_amount + IF v = u THEN -cost ELSE 0
  <2>1. \A v \in Users : user[v].balance \in Int /\ user[v].lock_amount \in Int
    BY DEF TablesOK, User
  <2> QED
    BY <1>1, <1>4, <2>1
<1> QED
  BY <1>1, <1>2, <1>5, ExplainedStep

----------------------------------------------------------------------------
(* The accounts through the transactions of invoices.                      *)

\* What sync_donation adds to the donations of v.
Gift(model, payer, v) ==
    IF Donor(model, payer) # "none" /\ v = Donor(model, payer)
    THEN model.paid_amount ELSE 0

\* The accounts differ by an amount in one balance, ...
Raised(old, new, u, change) ==
    /\ new \in [Users -> User]
    /\ \A v \in Users :
        /\ new[v].balance = old[v].balance + IF v = u THEN change ELSE 0
        /\ new[v].lock_amount = old[v].lock_amount
        /\ new[v].donate_amount = old[v].donate_amount

\* ... in the donations of one account, ...
Gave(old, new, u, change) ==
    \A v \in Users :
        /\ new[v].balance = old[v].balance
        /\ new[v].lock_amount = old[v].lock_amount
        /\ new[v].donate_amount
                = old[v].donate_amount + IF v = u THEN change ELSE 0

\* ... and the statements by an amount in one.
Recorded(old, new, u, change) ==
    /\ new \in [Users -> Seq(Record)]
    /\ \A v \in Users :
        Balance(new[v]) = Balance(old[v]) + IF v = u THEN change ELSE 0

LEMMA BalanceRaised ==
    ASSUME NEW users \in [Users -> User], NEW u \in Users, NEW change \in Int,
           NEW new, NEW value, value = users[u].balance + change,
           new = [users EXCEPT ![u].balance = value]
    PROVE  Raised(users, new, u, change)
<1>1. \A v \in Users : users[v].balance \in Int
  BY DEF User
<1>2. value \in Int
  BY <1>1
<1>3. new \in [Users -> User]
  BY <1>2, CreditType
<1>4. \A v \in Users :
            /\ new[v].balance = IF v = u THEN value ELSE users[v].balance
            /\ new[v].lock_amount = users[v].lock_amount
            /\ new[v].donate_amount = users[v].donate_amount
  BY <1>2, CreditEffect
<1> QED
  BY <1>1, <1>3, <1>4 DEF Raised

LEMMA DonationsRaised ==
    ASSUME NEW users \in [Users -> User], NEW u \in Users, NEW change \in Int,
           NEW new, NEW value, value = users[u].donate_amount + change,
           new = [users EXCEPT ![u].donate_amount = value]
    PROVE  Gave(users, new, u, change)
<1>1. \A v \in Users : users[v].donate_amount \in Int
  BY DEF User
<1>2. value \in Int
  BY <1>1
<1>3. \A v \in Users :
            /\ new[v].balance = users[v].balance
            /\ new[v].lock_amount = users[v].lock_amount
            /\ new[v].donate_amount = IF v = u THEN value ELSE users[v].donate_amount
  BY <1>2, CreditEffect
<1> QED
  BY <1>1, <1>3 DEF Gave

LEMMA NewRecordAdds ==
    ASSUME NEW rows \in [Users -> Seq(Record)], NEW u \in Users,
           NEW seen \in Int, NEW change \in Int, NEW h \in Hashes,
           NEW source \in {"admin", "external_payment", "internal_payment",
                           "duplicate_payment"}
    PROVE  Recorded(rows, NewRecord(rows, u, seen, change, h, source), u, change)
<1>1. NewRecord(rows, u, seen, change, h, source) \in [Users -> Seq(Record)]
  BY NewRecordType
<1>2. ASSUME NEW v \in Users
      PROVE  Balance(NewRecord(rows, u, seen, change, h, source)[v])
                = Balance(rows[v]) + IF v = u THEN change ELSE 0
  BY NewRecordBalance
<1> QED
  BY <1>1, <1>2 DEF Recorded

\* sync_donation counts the donation and moves no money.
LEMMA SyncDonationEffect ==
    ASSUME NEW users \in [Users -> User], NEW h,
           NEW model \in Invoice, NEW payer \in Users \cup {"none"},
           SyncDonation(users, h, model, payer)
    PROVE  \A v \in Users :
             /\ user'[v].balance = users[v].balance
             /\ user'[v].lock_amount = users[v].lock_amount
             /\ user'[v].donate_amount
                    = users[v].donate_amount + Gift(model, payer, v)
<1> DEFINE donor  == Donor(model, payer)
           amount == model.paid_amount
           value  == users[donor].donate_amount + amount
<1>1. donor \in Users \cup {"none"} /\ amount \in Int
  BY DEF Donor, Invoice
<1>2. \A v \in Users : users[v].donate_amount \in Int
  BY DEF User
<1>3. CASE donor = "none"
  BY <1>2, <1>3 DEF SyncDonation, Gift
<1>4. CASE donor # "none"
  <2>1. value = users[donor].donate_amount + amount
    OBVIOUS
  <2>2. user' = [users EXCEPT ![donor].donate_amount = value]
    BY <1>4 DEF SyncDonation
  <2>3. \A v \in Users : Gift(model, payer, v) = IF v = donor THEN amount ELSE 0
    BY <1>4 DEF Gift
  <2> HIDE DEF donor, value, amount
  <2>4. donor \in Users
    BY <1>1, <1>4
  <2>5. Gave(users, user', donor, amount)
    BY <1>1, <2>1, <2>2, <2>4, DonationsRaised
  <2> QED
    BY <2>3, <2>5 DEF Gave
<1> QED
  BY <1>3, <1>4

\* internal_pay takes the total from the payer and gives the payee the amount,
\* and their statements say so.
LEMMA InternalPayAccounts ==
    ASSUME TablesOK, NEW u \in Users, NEW h \in Hashes,
           NEW model \in Invoice, NEW seen \in Int, NEW payeeSeen \in Int,
           InternalPay(u, h, model, seen, payeeSeen)
    PROVE  \A v \in Users :
             LET change == (IF v = u THEN -InternalTotal(h) ELSE 0)
                                + IF v = model.user_id THEN Amount[h] ELSE 0
             IN  /\ change \in Int
                 /\ user'[v].balance = user[v].balance + change
                 /\ user'[v].lock_amount = user[v].lock_amount
                 /\ user'[v].donate_amount
                        = user[v].donate_amount + Gift(model, u, v)
                 /\ Balance(record'[v]) = Balance(record[v]) + change
<1> DEFINE payee   == model.user_id
           amount  == Amount[h]
           cost    == -InternalTotal(h)
           less    == user[u].balance + cost
           paid    == [user EXCEPT ![u].balance = less]
           more    == paid[payee].balance + amount
           both    == [paid EXCEPT ![payee].balance = more]
           debited == NewRecord(record, u, seen, cost, h, "internal_payment")
<1>1. /\ payee \in Users /\ amount \in Int /\ cost \in Int
      /\ user \in [Users -> User] /\ record \in [Users -> Seq(Record)]
      /\ \A v \in Users : user[v].balance \in Int
  <2>1. InternalTotal(h) \in Int /\ amount \in Int
    BY FeesAreNat, TotalsArePositive
  <2>2. cost \in Int
    BY <2>1
  <2> QED
    BY <2>1, <2>2 DEF TablesOK, Invoice, User
<1>2. /\ SyncDonation(both, h, model, u)
      /\ record' = NewRecord(debited, payee, payeeSeen, amount, h,
                             "internal_payment")
  <2>1. user[u].balance - InternalTotal(h) = less
    BY <1>1, TotalsArePositive
  <2> QED
    BY <2>1 DEF InternalPay
<1>3. /\ less = user[u].balance + cost /\ paid = [user EXCEPT ![u].balance = less]
      /\ more = paid[payee].balance + amount
      /\ both = [paid EXCEPT ![payee].balance = more]
      /\ debited = NewRecord(record, u, seen, cost, h, "internal_payment")
  OBVIOUS
<1> HIDE DEF payee, amount, cost, less, paid, more, both, debited
<1>4. Raised(user, paid, u, cost)
  BY <1>1, <1>3, BalanceRaised
<1>5. Raised(paid, both, payee, amount)
  <2>1. paid \in [Users -> User]
    BY <1>4 DEF Raised
  <2> QED
    BY <1>1, <1>3, <2>1, BalanceRaised
<1>6. \A v \in Users :
            /\ user'[v].balance = both[v].balance
            /\ user'[v].lock_amount = both[v].lock_amount
            /\ user'[v].donate_amount = both[v].donate_amount + Gift(model, u, v)
  <2>1. both \in [Users -> User] /\ u \in Users \cup {"none"}
    BY <1>5 DEF Raised
  <2> QED
    BY <1>2, <2>1, SyncDonationEffect
<1>7. Recorded(record, debited, u, cost)
  BY <1>1, <1>3, NewRecordAdds
<1>8. Recorded(debited, record', payee, amount)
  <2>1. debited \in [Users -> Seq(Record)]
    BY <1>7 DEF Recorded
  <2> QED
    BY <1>1, <1>2, <2>1, NewRecordAdds
<1>9. \A v \in Users : Balance(record[v]) \in Int
  BY <1>1, BalanceIsInt
<1>10. ASSUME NEW v \in Users
       PROVE  LET change == (IF v = u THEN cost ELSE 0)
                                + IF v = payee THEN amount ELSE 0
              IN  /\ change \in Int
                  /\ user'[v].balance = user[v].balance + change
                  /\ user'[v].lock_amount = user[v].lock_amount
                  /\ user'[v].donate_amount
                        = user[v].donate_amount + Gift(model, u, v)
                  /\ Balance(record'[v]) = Balance(record[v]) + change
  <2> DEFINE a == IF v = u THEN cost ELSE 0
             b == IF v = payee THEN amount ELSE 0
  <2>1. a \in Int /\ b \in Int /\ user[v].balance \in Int /\ Balance(record[v]) \in Int
    BY <1>1, <1>9
  <2>2. /\ paid[v].balance = user[v].balance + a
        /\ both[v].balance = paid[v].balance + b
        /\ both[v].lock_amount = user[v].lock_amount
        /\ both[v].donate_amount = user[v].donate_amount
    BY <1>4, <1>5 DEF Raised
  <2>3. /\ Balance(debited[v]) = Balance(record[v]) + a
        /\ Balance(record'[v]) = Balance(debited[v]) + b
    BY <1>7, <1>8 DEF Recorded
  <2> HIDE DEF a, b
  <2>4. /\ a + b \in Int
        /\ user'[v].balance = user[v].balance + (a + b)
        /\ Balance(record'[v]) = Balance(record[v]) + (a + b)
    BY <1>6, <2>1, <2>2, <2>3
  <2> QED
    BY <1>6, <2>2, <2>4 DEF a, b
<1> QED
  BY <1>10 DEF payee, cost, amount

\* invoice_paid and invoice_dup_paid give the payee what the node received.
Receives(payee, amount) ==
    \A v \in Users :
        LET change == IF v = payee THEN amount ELSE 0
        IN  /\ change \in Nat
            /\ user'[v].balance = user[v].balance + change
            /\ user'[v].lock_amount = user[v].lock_amount
            /\ Balance(record'[v]) = Balance(record[v]) + change

LEMMA InvoicePaidAccounts ==
    ASSUME TablesOK, NEW h \in Hashes, NEW model \in Invoice,
           NEW amount \in Nat, NEW seen \in Int,
           InvoicePaid(h, model, amount, seen)
    PROVE  /\ Receives(model.user_id, amount)
           /\ \A v \in Users : user'[v].donate_amount
                    = user[v].donate_amount + Gift(model, "none", v)
<1> DEFINE payee == model.user_id
           value == user[payee].balance + amount
           paid  == [user EXCEPT ![payee].balance = value]
<1>1. payee \in Users /\ user \in [Users -> User] /\ record \in [Users -> Seq(Record)]
  BY DEF TablesOK, Invoice
<1>2. /\ SyncDonation(paid, h, model, "none")
      /\ record' = NewRecord(record, payee, seen, amount, h, "external_payment")
  BY DEF InvoicePaid
<1>3. value = user[payee].balance + amount /\ amount \in Int
      /\ paid = [user EXCEPT ![payee].balance = value]
  OBVIOUS
<1> HIDE DEF value, paid, payee
<1>4. Raised(user, paid, payee, amount)
  BY <1>1, <1>3, BalanceRaised
<1>5. \A v \in Users :
            /\ user'[v].balance = paid[v].balance
            /\ user'[v].lock_amount = paid[v].lock_amount
            /\ user'[v].donate_amount = paid[v].donate_amount + Gift(model, "none", v)
  <2>1. paid \in [Users -> User] /\ "none" \in Users \cup {"none"}
    BY <1>4 DEF Raised
  <2> QED
    BY <1>2, <2>1, SyncDonationEffect
<1>6. Recorded(record, record', payee, amount)
  BY <1>1, <1>2, <1>3, NewRecordAdds
<1>7. Receives(payee, amount)
  BY <1>4, <1>5, <1>6 DEF Raised, Recorded, Receives
<1> QED
  BY <1>4, <1>5, <1>7 DEF payee, Raised

LEMMA InvoiceDupPaidAccounts ==
    ASSUME TablesOK, NEW h \in Hashes, NEW model \in Invoice,
           NEW amount \in Nat, NEW seen \in Int,
           InvoiceDupPaid(h, model, amount, seen)
    PROVE  /\ Receives(model.user_id, amount)
           /\ \A v \in Users : user'[v].donate_amount = user[v].donate_amount
<1> DEFINE payee == model.user_id
           value == user[payee].balance + amount
<1>1. payee \in Users /\ user \in [Users -> User] /\ record \in [Users -> Seq(Record)]
  BY DEF TablesOK, Invoice
<1>2. /\ user' = [user EXCEPT ![payee].balance = value]
      /\ record' = NewRecord(record, payee, seen, amount, h, "duplicate_payment")
  BY DEF InvoiceDupPaid
<1>3. value = user[payee].balance + amount /\ amount \in Int
  OBVIOUS
<1> HIDE DEF value, payee
<1>4. Raised(user, user', payee, amount)
  BY <1>1, <1>2, <1>3, BalanceRaised
<1>5. Recorded(record, record', payee, amount)
  BY <1>1, <1>2, <1>3, NewRecordAdds
<1>6. Receives(payee, amount)
  BY <1>4, <1>5 DEF Raised, Recorded, Receives
<1> QED
  BY <1>4, <1>6 DEF payee, Raised

\* The three keep every statement true ...
LEMMA CreditsExplained ==
    ASSUME TablesOK, Explained, NEW h \in Hashes, NEW model \in Invoice,
           NEW seen \in Int,
           \/ \E u \in Users, payeeSeen \in Int :
                InternalPay(u, h, model, seen, payeeSeen)
           \/ \E amount \in Nat : \/ InvoicePaid(h, model, amount, seen)
                                  \/ InvoiceDupPaid(h, model, amount, seen)
    PROVE  Explained'
<1>1. ASSUME NEW v \in Users
      PROVE  \E change \in Int :
                /\ user'[v].balance = user[v].balance + change
                /\ user'[v].lock_amount = user[v].lock_amount
                /\ Balance(record'[v]) = Balance(record[v]) + change
  <2>1. ASSUME NEW u \in Users, NEW payeeSeen \in Int,
               InternalPay(u, h, model, seen, payeeSeen)
        PROVE  \E change \in Int :
                /\ user'[v].balance = user[v].balance + change
                /\ user'[v].lock_amount = user[v].lock_amount
                /\ Balance(record'[v]) = Balance(record[v]) + change
    BY <2>1, InternalPayAccounts
  <2>2. ASSUME NEW amount \in Nat,
               \/ InvoicePaid(h, model, amount, seen)
               \/ InvoiceDupPaid(h, model, amount, seen)
        PROVE  \E change \in Int :
                /\ user'[v].balance = user[v].balance + change
                /\ user'[v].lock_amount = user[v].lock_amount
                /\ Balance(record'[v]) = Balance(record[v]) + change
    <3>1. Receives(model.user_id, amount)
      BY <2>2, InvoicePaidAccounts, InvoiceDupPaidAccounts
    <3> QED
      BY <2>2, <3>1 DEF Receives
  <2> QED
    BY <2>1, <2>2
<1>2. \A v \in Users : user[v].balance \in Int /\ user[v].lock_amount \in Int
  BY DEF TablesOK, User
<1>3. \A v \in Users : \E change \in Int :
        /\ user'[v].balance + user'[v].lock_amount
                = user[v].balance + user[v].lock_amount + change
        /\ Balance(record'[v]) = Balance(record[v]) + change
  BY <1>1, <1>2
<1> QED
  BY <1>3, ExplainedStep

\* ... and keep the ledger, which the payer's guard allows.
LEMMA InternalPayLedger ==
    ASSUME TablesOK, Ledger, NEW u \in Users, NEW h \in Hashes,
           InternalPayMatches(u, h), NEW model \in Invoice,
           NEW seen \in Int, NEW payeeSeen \in Int,
           InternalPay(u, h, model, seen, payeeSeen)
    PROVE  Ledger'
<1> DEFINE row == [user_id |-> u, status |-> "Paid", lock_amount |-> 0,
                   fee |-> InternalFee(Amount[h]),
                   service_fee |-> ServiceFee(Amount[h]),
                   total |-> InternalTotal(h), internal |-> TRUE]
<1>1. /\ row.status = "Paid" /\ row.lock_amount = 0
      /\ row.service_fee = ServiceFee(Amount[h])
      /\ h \notin DOMAIN payment /\ payment' = Insert(payment, h, row)
  BY DEF InternalPay, InternalPayMatches
<1> HIDE DEF row
<1>2. ASSUME NEW v \in Users
      PROVE  user'[v].lock_amount = user[v].lock_amount /\ user'[v].balance >= 0
  <2>1. /\ user[v].balance \in Int /\ user[v].balance >= 0
        /\ user[u].balance >= InternalTotal(h)
        /\ Amount[h] \in Nat /\ InternalTotal(h) \in Nat
    BY FeesAreNat, TotalsArePositive
       DEF InternalPayMatches, TablesOK, User, Ledger, NoOverdraft
  <2> QED
    BY <2>1, InternalPayAccounts
<1> QED
  BY <1>1, <1>2, PaidLedger

LEMMA InvoicePaidLedger ==
    ASSUME TablesOK, Ledger, NEW h \in Hashes, NEW model \in Invoice,
           NEW amount \in Nat, NEW seen \in Int,
           \/ InvoicePaid(h, model, amount, seen)
           \/ InvoiceDupPaid(h, model, amount, seen)
    PROVE  Ledger'
<1>1. payment' = payment
  BY DEF InvoicePaid, InvoiceDupPaid
<1>2. \A v \in Users :
        user'[v].lock_amount = user[v].lock_amount /\ user'[v].balance >= 0
  <2>1. \A v \in Users : user[v].balance \in Int /\ user[v].balance >= 0
    BY DEF TablesOK, User, Ledger, NoOverdraft
  <2>2. Receives(model.user_id, amount)
    BY InvoicePaidAccounts, InvoiceDupPaidAccounts
  <2> QED
    BY <2>1, <2>2 DEF Receives
<1> DEFINE row == [status |-> "Paid", lock_amount |-> 0,
                   service_fee |-> ServiceFee(Amount[h])]
<1>3. /\ row.status = "Paid" /\ row.lock_amount = 0
      /\ row.service_fee = ServiceFee(Amount[h])
  OBVIOUS
<1> HIDE DEF row
<1> QED
  BY <1>1, <1>2, <1>3, PaidLedger

\* What writes neither accounts nor payments keeps the ledger, and what writes
\* neither accounts nor statements keeps these true.
LEMMA LedgerFrame == ASSUME Ledger, UNCHANGED <<user, payment>> PROVE Ledger'
  BY DEF Ledger, RowsAgree, LockedFunds, NoOverdraft

LEMMA ExplainedFrame == ASSUME Explained, UNCHANGED <<user, record>> PROVE Explained'
  BY DEF Explained
=============================================================================
