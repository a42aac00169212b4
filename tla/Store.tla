------------------------------- MODULE Store -------------------------------
(***************************************************************************)
(* The tables of the satsbox database that hold money, and the database    *)
(* transactions of service.rs over them.                                   *)
(*                                                                         *)
(* A transaction is one atomic step: its first UPDATE carries the guard    *)
(* that decides the race (rows_affected != 1 rolls the transaction back),  *)
(* and it holds that row until it commits.  An operator named XMatches is  *)
(* that guard, an operator named X the committed effect.  A transaction    *)
(* that rolls back changes nothing; who runs it decides what follows.      *)
(*                                                                         *)
(* Rows of the `invoices` table are keyed by (type, payment_hash), which   *)
(* the migration makes unique: `payment` holds the rows of type Payment,   *)
(* `invoice` those of type Invoice, both as functions from the hashes that *)
(* have a row.                                                             *)
(*                                                                         *)
(* Left out of the rows: texts, keys, preimages and times, which nothing   *)
(* here compares; payer_pubkey and zap_from are one field, `payer`.        *)
(***************************************************************************)
EXTENDS Fee, FiniteSets, Sequences

CONSTANTS
    Users,              \* the accounts
    Hashes,             \* payment hashes; each names one bolt11 invoice
    Amount,             \* [Hashes -> Nat]: the amount written in that bolt11
    GeneratedAt,        \* [Hashes -> Nat]: the creation time written in it
    Deposit,            \* [Users -> Nat]: what the account holds at the start
    DonationReceiver,   \* the account of the donation key, or "none"
    Workers,            \* request handlers that may run at a time
    Lnd,                \* TRUE: the node client is lnd.rs, FALSE: cln.rs
    MaxFaults           \* bound on dropped handlers, failed calls and crashes

ASSUME StoreAssumption ==
    /\ IsFiniteSet(Hashes) /\ "admin" \notin Hashes
    /\ Amount \in [Hashes -> Nat \ {0}]
    /\ GeneratedAt \in [Hashes -> Nat]
    /\ Deposit \in [Users -> Nat]
    /\ DonationReceiver \in Users \cup {"none"}
    /\ Lnd \in BOOLEAN
    /\ MaxFaults \in Nat

VARIABLES
    user,       \* [Users -> User]
    payment,    \* rows of type Payment, a function from a set of hashes
    invoice,    \* rows of type Invoice, a function from a set of hashes
    donation,   \* rows of `donations`, a function from a set of hashes
    record,     \* [Users -> Seq(Record)]: the statement of each account
    faults      \* faults so far; not a table

store == <<user, payment, invoice, donation, record>>

Status == {"Unpaid", "Paid", "Canceled"}

User == [balance: Int, lock_amount: Int, donate_amount: Int]

Payment == [user_id: Users, status: Status, lock_amount: Nat, fee: Nat,
            service_fee: Nat, total: Nat, internal: BOOLEAN]

Invoice == [user_id: Users, status: Status, amount: Nat, paid_amount: Nat,
            internal: BOOLEAN, duplicate: BOOLEAN, payer: Users \cup {"none"}]

Donation == [user_id: Users, amount: Nat]

Record == [balance: Int, change: Int, hash: Hashes \cup {"admin"},
           source: {"admin", "external_payment", "internal_payment",
                    "duplicate_payment"}]

----------------------------------------------------------------------------
(* What the transactions are built from.                                   *)

\* A table: some of the keys have a row.
IsTable(table, Keys, Row) ==
    DOMAIN table \subseteq Keys /\ table \in [DOMAIN table -> Row]

\* INSERT of a row; the caller has checked the unique index.
Insert(table, h, row) ==
    [g \in DOMAIN table \cup {h} |-> IF g = h THEN row ELSE table[g]]

\* new_record: the balance is the one in the user model the caller passes,
\* read before the transaction began.
NewRecord(rows, u, seen, change, h, source) ==
    [rows EXCEPT ![u] = Append(@, [balance |-> seen, change |-> change,
                                     hash |-> h, source |-> source])]

\* UPDATE of the balance and the lock of one account.
MoveFunds(u, change, lock) ==
    [user EXCEPT ![u].balance = @ + change, ![u].lock_amount = @ + lock]

\* Mutants: the filter excludes equality; a success gives back the whole lock.
UnlockStrict(u, payback, lock) ==
    IF user[u].lock_amount > lock THEN MoveFunds(u, payback, -lock) ELSE user

UnlockAll(u, payback, lock) ==
    IF user[u].lock_amount >= lock THEN MoveFunds(u, lock, -lock) ELSE user

\* The second UPDATE of pay_failed and pay_success.  Its result is bound to
\* `_res` and the check after it tests the invoice's `res` again, so when no
\* row matches the transaction still commits.
Unlock(u, payback, lock) ==
    IF user[u].lock_amount >= lock THEN MoveFunds(u, payback, -lock) ELSE user

\* Every account has one record, of an admin_adjust_user_balance.
StoreInit ==
    /\ user = [u \in Users |-> [balance |-> Deposit[u], lock_amount |-> 0,
                                donate_amount |-> 0]]
    /\ payment = <<>> /\ invoice = <<>> /\ donation = <<>>
    /\ record = [u \in Users |->
                    <<[balance |-> 0, change |-> Deposit[u],
                       hash |-> "admin", source |-> "admin"]>>]
    /\ faults = 0

TablesOK ==
    /\ user \in [Users -> User]
    /\ IsTable(payment, Hashes, Payment)
    /\ IsTable(invoice, Hashes, Invoice)
    /\ IsTable(donation, Hashes, Donation)
    /\ record \in [Users -> Seq(Record)]

StoreTypeOK == TablesOK /\ faults \in 0..MaxFaults

----------------------------------------------------------------------------
(* Outgoing payments.                                                      *)

\* What an external payment locks: amount + max_fee + service_fee.
Total(h) == Amount[h] + MaxFee(Amount[h]) + ServiceFee(Amount[h])

\* Mutants: the lock of an account is taken without looking at its balance;
\* the payments have no unique index.
LockUnfunded(u, h) == h \notin DOMAIN payment

LockTwice(u, h) == user[u].balance >= Total(h)

LockBalanceMatches(u, h) ==
    /\ user[u].balance >= Total(h)
    /\ h \notin DOMAIN payment

LockBalance(u, h) ==
    /\ user' = MoveFunds(u, -Total(h), Total(h))
    /\ payment' = Insert(payment, h,
                    [user_id |-> u, status |-> "Unpaid",
                     lock_amount |-> Total(h), fee |-> 0,
                     service_fee |-> ServiceFee(Amount[h]),
                     total |-> Total(h), internal |-> FALSE])
    /\ UNCHANGED <<invoice, donation, record>>

\* pay_failed; `model` is the row as the caller read it.
PayFailedMatches(h, model) ==
    /\ payment[h].status = "Unpaid"
    /\ payment[h].lock_amount = model.lock_amount

\* Mutant: the row keeps its lock_amount.
PayFailedKeepsLock(h, model) ==
    /\ payment' = [payment EXCEPT ![h].status = "Canceled"]
    /\ user' = Unlock(model.user_id, model.lock_amount, model.lock_amount)
    /\ UNCHANGED <<invoice, donation, record>>

PayFailed(h, model) ==
    /\ payment' = [payment EXCEPT ![h].status = "Canceled",
                                  ![h].lock_amount = 0]
    /\ user' = Unlock(model.user_id, model.lock_amount, model.lock_amount)
    /\ UNCHANGED <<invoice, donation, record>>

\* pay_success; `fee` is what the node paid for the route, `seen` the balance
\* in the user model read before the transaction.  The status is not tested.
\* Mutant: it tests nothing.
PaySuccessAlways(h, model) == TRUE

PaySuccessMatches(h, model) ==
    payment[h].lock_amount = model.lock_amount

\* What the account gets back of its lock.  Mutant: the route is free.
PaybackFreeRoute(h, model, fee) ==
    model.lock_amount - model.service_fee - Amount[h]

Payback(h, model, fee) ==
    model.lock_amount - model.service_fee - (Amount[h] + fee)

\* What the payment cost.  Mutant: with the sign of the statement.
CostNegative(h, model, fee) == Payback(h, model, fee) - model.lock_amount

Cost(h, model, fee) == model.lock_amount - Payback(h, model, fee)

PaySuccess(h, model, fee, seen) ==
    /\ payment' = [payment EXCEPT ![h].status = "Paid",
                                  ![h].lock_amount = 0,
                                  ![h].fee = fee,
                                  ![h].total = Cost(h, model, fee)]
    /\ user' = Unlock(model.user_id, Payback(h, model, fee), model.lock_amount)
    /\ record' = NewRecord(record, model.user_id, seen,
                           -Cost(h, model, fee), h, "external_payment")
    /\ UNCHANGED <<invoice, donation>>

----------------------------------------------------------------------------
(* Invoices and payments between accounts.                                 *)

\* sync_donation: an invoice of the donation account counts for its payer,
\* as the payer data or the zap request names it, else for the internal payer
\* ("none" when the money came from the node).  `model` is the invoice as it
\* was read before the transaction, so the amount counted is the amount asked.
Donor(model, payer) ==
    IF model.user_id # DonationReceiver THEN "none"
    ELSE IF model.payer # "none" THEN model.payer ELSE payer

\* Mutant: the donation is stored, the donor's sum is not raised.
SyncDonationRowOnly(users, h, model, payer) ==
    LET donor == Donor(model, payer)
    IN  /\ user' = users
        /\ donation' = IF donor = "none" THEN donation
                       ELSE Insert(donation, h,
                            [user_id |-> donor, amount |-> model.paid_amount])

SyncDonation(users, h, model, payer) ==
    LET donor == Donor(model, payer)
    IN  IF donor = "none" THEN user' = users /\ UNCHANGED donation
        ELSE /\ donation' = Insert(donation, h, [user_id |-> donor,
                                                amount |-> model.paid_amount])
             /\ user' = [users EXCEPT ![donor].donate_amount
                                        = @ + model.paid_amount]

\* create_invoice: the row of a new invoice.
NewInvoice(u, h, payer) ==
    [user_id |-> u, status |-> "Unpaid", amount |-> Amount[h],
     paid_amount |-> Amount[h], internal |-> FALSE, duplicate |-> FALSE,
     payer |-> payer]

\* The transaction of internal_pay, from the account u to the invoice's.
InternalTotal(h) ==
    Amount[h] + InternalFee(Amount[h]) + ServiceFee(Amount[h])

InternalPayMatches(u, h) ==
    /\ invoice[h].status = "Unpaid"
    /\ h \notin DOMAIN payment
    /\ user[u].balance >= InternalTotal(h)

InternalPay(u, h, model, seen, payeeSeen) ==
    LET payee   == model.user_id
        paid    == [user EXCEPT ![u].balance = @ - InternalTotal(h)]
        debited == NewRecord(record, u, seen, -InternalTotal(h), h,
                             "internal_payment")
    IN  /\ invoice' = [invoice EXCEPT ![h].status = "Paid",
                                      ![h].amount = Amount[h],
                                      ![h].paid_amount = Amount[h],
                                      ![h].internal = TRUE]
        /\ payment' = Insert(payment, h,
                        [user_id |-> u, status |-> "Paid", lock_amount |-> 0,
                         fee |-> InternalFee(Amount[h]),
                         service_fee |-> ServiceFee(Amount[h]),
                         total |-> InternalTotal(h), internal |-> TRUE])
        /\ SyncDonation([paid EXCEPT ![payee].balance = @ + Amount[h]],
                        h, model, u)
        /\ record' = NewRecord(debited, payee, payeeSeen, Amount[h], h,
                               "internal_payment")

\* invoice_paid: the node has received `amount` for an unpaid invoice.
\* Mutant: the UPDATE has no filter on the status.
InvoicePaidAlways(h) == TRUE

InvoicePaidMatches(h) == invoice[h].status = "Unpaid"

\* Mutant: the account is credited what was asked.
InvoicePaidAsked(h, model, amount, seen) ==
    /\ invoice' = [invoice EXCEPT ![h].status = "Paid",
                                  ![h].paid_amount = amount,
                                  ![h].internal = FALSE]
    /\ SyncDonation([user EXCEPT ![model.user_id].balance = @ + model.amount],
                    h, model, "none")
    /\ record' = NewRecord(record, model.user_id, seen, amount, h,
                           "external_payment")
    /\ UNCHANGED payment

InvoicePaid(h, model, amount, seen) ==
    LET payee == model.user_id
    IN  /\ invoice' = [invoice EXCEPT ![h].status = "Paid",
                                      ![h].paid_amount = amount,
                                      ![h].internal = FALSE]
        /\ SyncDonation([user EXCEPT ![payee].balance = @ + amount],
                        h, model, "none")
        /\ record' = NewRecord(record, payee, seen, amount, h,
                               "external_payment")
        /\ UNCHANGED payment

\* invoice_dup_paid: ... for one already paid by another account.
InvoiceDupPaidMatches(h) ==
    invoice[h].status = "Paid" /\ invoice[h].internal /\ ~invoice[h].duplicate

\* Mutant: the amounts are subtracted.
InvoiceDupPaidLess(h, model, amount, seen) ==
    LET payee == model.user_id
    IN  /\ invoice' = [invoice EXCEPT ![h].paid_amount
                                        = model.paid_amount - amount,
                                      ![h].duplicate = TRUE]
        /\ user' = [user EXCEPT ![payee].balance = @ + amount]
        /\ record' = NewRecord(record, payee, seen, amount, h,
                               "duplicate_payment")
        /\ UNCHANGED <<payment, donation>>

InvoiceDupPaid(h, model, amount, seen) ==
    LET payee == model.user_id
    IN  /\ invoice' = [invoice EXCEPT ![h].paid_amount
                                        = amount + model.paid_amount,
                                      ![h].duplicate = TRUE]
        /\ user' = [user EXCEPT ![payee].balance = @ + amount]
        /\ record' = NewRecord(record, payee, seen, amount, h,
                               "duplicate_payment")
        /\ UNCHANGED <<payment, donation>>

\* Mutant: the UPDATE has no filter on the status.
CancelAlways(h) ==
    /\ invoice' = [invoice EXCEPT ![h].status = "Canceled"]
    /\ UNCHANGED <<user, payment, donation, record>>

\* The UPDATE of sync_invoices for an invoice the node has canceled.
CancelInvoice(h) ==
    /\ invoice' = IF invoice[h].status = "Unpaid"
                  THEN [invoice EXCEPT ![h].status = "Canceled"]
                  ELSE invoice
    /\ UNCHANGED <<user, payment, donation, record>>

----------------------------------------------------------------------------
(* What holds between the tables.                                          *)

\* Every msat that a pending payment of u locks, as a pair of the payment and
\* a number: their count is the sum of the lock amounts.
Coins(rows, u) ==
    UNION {{h} \X (1..rows[h].lock_amount) :
              h \in {g \in DOMAIN rows : rows[g].status = "Unpaid"
                                         /\ rows[g].user_id = u}}

\* users.lock_amount is the sum of invoices.lock_amount over the account's
\* pending payments, whoever settles them and in whatever order.  It is why
\* pay_failed and pay_success can ignore the result of their second UPDATE:
\* its filter lock_amount >= the payment's always matches.
LockedFunds ==
    \A u \in Users : user[u].lock_amount = Cardinality(Coins(payment, u))

\* The same for any function: the msats of its entries, and how many they are,
\* which is the sum of its positive values.
Msats(value) == UNION {{x} \X (1..value[x]) : x \in DOMAIN value}

SumOf(value) == Cardinality(Msats(value))

\* What a statement adds up to.
Balance(rows) ==
    SumOf([i \in DOMAIN rows |-> rows[i].change])
        - SumOf([i \in DOMAIN rows |-> -rows[i].change])

\* The statement explains the account: what it holds, locked or not, is what
\* its records have credited less what they have charged, whatever was locked
\* and given back in between and whoever settled it.
Explained ==
    \A u \in Users :
        user[u].balance + user[u].lock_amount = Balance(record[u])

\* No account is overdrawn, whatever its requests race for.
NoOverdraft ==
    \A u \in Users : user[u].balance >= 0 /\ user[u].lock_amount >= 0

\* A pending payment locks what it may cost at most, a settled one nothing.
RowsAgree ==
    \A h \in DOMAIN payment :
        /\ payment[h].service_fee = ServiceFee(Amount[h])
        /\ payment[h].lock_amount
                = IF payment[h].status = "Unpaid" THEN Total(h) ELSE 0

\* Together: an invariant of every transaction over the payments.
Ledger ==
    /\ RowsAgree
    /\ \A u \in Users : IsFiniteSet(Coins(payment, u))
    /\ LockedFunds
    /\ NoOverdraft
============================================================================
