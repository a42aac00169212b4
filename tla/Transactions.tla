---------------------------- MODULE Transactions ----------------------------
(***************************************************************************)
(* The transactions of service.rs, statement by statement, on a database   *)
(* that runs them side by side.                                            *)
(*                                                                         *)
(* Store takes each transaction for one atomic step.  Here a transaction   *)
(* is what the code sends: a few statements, each of which locks the row   *)
(* it writes until the transaction commits or rolls back.  The database is *)
(* PostgreSQL at READ COMMITTED, which is what `begin` asks for: an UPDATE *)
(* whose filter matches the committed row waits for the transaction that   *)
(* has written it and looks at the filter again; an INSERT waits for the   *)
(* transaction that is writing its key; of transactions that wait for each *)
(* other in a circle one is rolled back.  SQLite, which runs one writer at *)
(* a time, has fewer behaviours.                                           *)
(***************************************************************************)
EXTENDS Store

CONSTANTS
    Task,       \* the worker that is `sync`; the others are handlers
    Requests,   \* [Workers -> subsets of Users \X Hashes]: the payments each
                \* handler may be asked for, a bound
    Payee,      \* the owners of our own invoices, a function from some hashes
    Outcomes    \* [Hashes -> subsets of {"success", "failed"}]: how a payment
                \* over the network may end

Own == DOMAIN Payee

ASSUME TransactionsAssumption ==
    /\ Task \in Workers
    /\ Requests \in [Workers -> SUBSET (Users \X Hashes)]
    /\ Requests[Task] = {}
    /\ Own \subseteq Hashes /\ Payee \in [Own -> Users]
    /\ "none" \notin Users
    /\ Outcomes \in [Hashes -> SUBSET {"success", "failed"}]

VARIABLES
    txn,        \* the open transactions: a function from a set of workers
    net         \* how the payment of each hash over the network ends
vars == <<store, faults, txn, net>>

Kinds == {"lock", "internal", "paid", "duplicate", "cancel", "failed", "success"}

\* The statements of each transaction, in the order of the code.  A record is
\* inserted with the UPDATE before it: it is a new row and locks nothing.
Script == [lock      |-> <<"hold", "insert">>,
           internal  |-> <<"close", "insert", "debit", "credit", "donate">>,
           paid      |-> <<"close", "credit", "donate">>,
           duplicate |-> <<"close", "credit">>,
           cancel    |-> <<"close">>,
           failed    |-> <<"settle", "unlock">>,
           success   |-> <<"settle", "unlock">>]

\* `model` is the invoice or payment read before the transaction, `seen` and
\* `payeeSeen` balances read before it; `at` the next statement; the rest are
\* the rows the transaction has written, which it alone sees.
Txn(t) == [kind: Kinds, user_id: Users, hash: Hashes, model: {t.model},
           seen: Int, payeeSeen: Int, at: 1..6,
           user: {t.user}, payment: {t.payment}, invoice: {t.invoice},
           donation: {t.donation}, record: [Users -> Seq(Record)]]

\* The invoices are there at the start: to create one is a single INSERT.
Init ==
    /\ user = [u \in Users |-> [balance |-> Deposit[u], lock_amount |-> 0,
                                donate_amount |-> 0]]
    /\ invoice = [h \in Own |-> NewInvoice(Payee[h], h, "none")]
    /\ payment = <<>> /\ donation = <<>>
    /\ record = [u \in Users |-> <<>>] /\ faults = 0
    /\ txn = <<>>
    /\ net \in [Hashes -> {"success", "failed"}]
    /\ \A h \in Hashes : net[h] \in Outcomes[h]

----------------------------------------------------------------------------
(* Rows and locks.                                                         *)

Statement(w) ==
    IF txn[w].at \in DOMAIN Script[txn[w].kind]
    THEN Script[txn[w].kind][txn[w].at] ELSE "commit"

\* A table as a transaction sees it: as committed, but for its own writes.
Over(written, table) ==
    [k \in DOMAIN written \cup DOMAIN table |->
        IF k \in DOMAIN written THEN written[k] ELSE table[k]]

Account(w, u) == Over(txn[w].user, user)[u]

Holds(w, table, k) == k \in DOMAIN txn[w][table]

Free(w, table, k) == \A v \in DOMAIN txn \ {w} : ~Holds(v, table, k)

\* The row the next statement writes.
Donates(w) == Donor(txn[w].model, IF txn[w].kind = "internal"
                                  THEN txn[w].user_id ELSE "none")

Wanted(w) ==
    LET s == Statement(w)
        t == txn[w]
    IN  CASE s \in {"hold", "debit"} -> <<"user", t.user_id>>
          [] s \in {"credit", "unlock"} -> <<"user", t.model.user_id>>
          [] s = "donate" -> <<"user", Donates(w)>>
          [] s = "close" -> <<"invoice", t.hash>>
          [] s \in {"insert", "settle"} -> <<"payment", t.hash>>
          [] s = "commit" -> <<"user", "none">>

\* The filter of the next statement, on the row as the transaction sees it.
Matches(w) ==
    LET s == Statement(w)
        t == txn[w]
        h == t.hash
    IN  CASE s = "hold" -> Account(w, t.user_id).balance >= Total(h)
          [] s = "debit" -> Account(w, t.user_id).balance >= InternalTotal(h)
          [] s = "unlock" ->
                Account(w, t.model.user_id).lock_amount >= t.model.lock_amount
          [] s = "close" -> IF t.kind = "duplicate" THEN InvoiceDupPaidMatches(h)
                            ELSE InvoicePaidMatches(h)
          [] s = "settle" -> IF t.kind = "failed"
                             THEN PayFailedMatches(h, t.model)
                             ELSE PaySuccessMatches(h, t.model)
          [] OTHER -> TRUE

Runs(w, s) == w \in DOMAIN txn /\ Statement(w) = s

\* The next statement finds its row and no other transaction has written it.
Gets(w) == Matches(w) /\ Free(w, Wanted(w)[1], Wanted(w)[2])

End(w) == txn' = [v \in DOMAIN txn \ {w} |-> txn[v]]

Rollback(w) == End(w) /\ UNCHANGED <<store, net>>

\* The statement writes a row, and perhaps a record.
Write(w, table, k, row, rows) ==
    /\ txn' = [txn EXCEPT ![w][table] = Insert(@, k, row),
                          ![w].record = rows, ![w].at = @ + 1]
    /\ UNCHANGED <<store, faults, net>>

Skip(w) ==
    /\ txn' = [txn EXCEPT ![w].at = @ + 1]
    /\ UNCHANGED <<store, faults, net>>

----------------------------------------------------------------------------
(* The statements.                                                         *)

\* An UPDATE that finds no row: the code returns an error, which rolls back.
\* Mutant: the transaction stays open.
RefusedStays(w) == /\ w \in DOMAIN txn /\ Statement(w) # "unlock" /\ ~Matches(w)
                   /\ UNCHANGED vars

Refused(w) ==
    /\ w \in DOMAIN txn /\ Statement(w) # "unlock"
    /\ ~Matches(w)
    /\ Rollback(w) /\ UNCHANGED faults

\* pay: balance - total, lock_amount + total.
Hold(w) ==
    LET u == txn[w].user_id
        n == Total(txn[w].hash)
    IN  /\ Runs(w, "hold") /\ Gets(w)
        /\ Write(w, "user", u, [Account(w, u) EXCEPT !.balance = @ - n,
                                                    !.lock_amount = @ + n],
                 txn[w].record)

\* The new row of the payment.
NewPayment(w) ==
    LET h == txn[w].hash
        f == IF txn[w].kind = "internal" THEN InternalFee(Amount[h]) ELSE 0
        internal == txn[w].kind = "internal"
    IN  [user_id |-> txn[w].user_id, fee |-> f, internal |-> internal,
         status |-> IF internal THEN "Paid" ELSE "Unpaid",
         lock_amount |-> IF internal THEN 0 ELSE Total(h),
         service_fee |-> ServiceFee(Amount[h]),
         total |-> IF internal THEN InternalTotal(h) ELSE Total(h)]

\* INSERT of the payment; the unique index refuses a second one.
InsertPayment(w) ==
    LET h == txn[w].hash
    IN  /\ Runs(w, "insert") /\ Gets(w)
        /\ IF h \in DOMAIN payment THEN Rollback(w) /\ UNCHANGED faults
           ELSE Write(w, "payment", h, NewPayment(w), txn[w].record)

\* internal_pay: the payer's balance, with its record.
DebitRecord(w, rows) ==
    NewRecord(rows, txn[w].user_id, txn[w].seen, -InternalTotal(txn[w].hash),
              txn[w].hash, "internal_payment")

\* Mutant: the balance is set from the model read before.
DebitStale(w) ==
    LET u == txn[w].user_id
        n == InternalTotal(txn[w].hash)
    IN  /\ Runs(w, "debit") /\ Gets(w)
        /\ Write(w, "user", u,
                 [Account(w, u) EXCEPT !.balance = txn[w].seen - n],
                 DebitRecord(w, txn[w].record))

Debit(w) ==
    LET u == txn[w].user_id
        n == InternalTotal(txn[w].hash)
    IN  /\ Runs(w, "debit") /\ Gets(w)
        /\ Write(w, "user", u, [Account(w, u) EXCEPT !.balance = @ - n],
                 DebitRecord(w, txn[w].record))

\* The UPDATE of an invoice that is paid or canceled.
Closed(w) ==
    LET h   == txn[w].hash
        row == invoice[h]
    IN  CASE txn[w].kind = "internal" ->
                [row EXCEPT !.status = "Paid", !.amount = Amount[h],
                            !.paid_amount = Amount[h], !.internal = TRUE]
          [] txn[w].kind = "paid" ->
                [row EXCEPT !.status = "Paid", !.paid_amount = Amount[h],
                            !.internal = FALSE]
          [] txn[w].kind = "duplicate" ->
                [row EXCEPT !.paid_amount = Amount[h] + txn[w].model.paid_amount,
                            !.duplicate = TRUE]
          [] txn[w].kind = "cancel" -> [row EXCEPT !.status = "Canceled"]

Close(w) ==
    /\ Runs(w, "close") /\ Gets(w)
    /\ Write(w, "invoice", txn[w].hash, Closed(w), txn[w].record)

\* The payee's balance, with its record.
CreditRecord(w, rows) ==
    LET h == txn[w].hash
        u == txn[w].model.user_id
    IN  CASE txn[w].kind = "internal" ->
                NewRecord(rows, u, txn[w].payeeSeen, Amount[h], h, "internal_payment")
          [] txn[w].kind = "paid" ->
                NewRecord(rows, u, txn[w].seen, Amount[h], h, "external_payment")
          [] txn[w].kind = "duplicate" ->
                NewRecord(rows, u, txn[w].seen, Amount[h], h, "duplicate_payment")

Credit(w) ==
    LET u == txn[w].model.user_id
    IN  /\ Runs(w, "credit") /\ Gets(w)
        /\ Write(w, "user", u,
                 [Account(w, u) EXCEPT !.balance = @ + Amount[txn[w].hash]],
                 CreditRecord(w, txn[w].record))

\* sync_donation: the donation and the donor's sum.
Donate(w) ==
    LET u == Donates(w)
        n == txn[w].model.paid_amount
    IN  /\ Runs(w, "donate")
        /\ \/ u = "none" /\ Skip(w)
           \/ /\ u # "none" /\ Gets(w)
              /\ txn' = [txn EXCEPT
                    ![w].donation = Insert(@, txn[w].hash,
                                           [user_id |-> u, amount |-> n]),
                    ![w].user = Insert(@, u,
                        [Account(w, u) EXCEPT !.donate_amount = @ + n]),
                    ![w].at = @ + 1]
              /\ UNCHANGED <<store, faults, net>>

\* pay_failed and pay_success: the payment's row.  A route costs the limit.
Route(h) == MaxFee(Amount[h])

Settled(w) ==
    LET h == txn[w].hash
        m == txn[w].model
    IN  IF txn[w].kind = "failed"
        THEN [payment[h] EXCEPT !.status = "Canceled", !.lock_amount = 0]
        ELSE [payment[h] EXCEPT !.status = "Paid", !.lock_amount = 0,
                                !.fee = Route(h), !.total = Cost(h, m, Route(h))]

Settle(w) ==
    /\ Runs(w, "settle") /\ Gets(w)
    /\ Write(w, "payment", txn[w].hash, Settled(w), txn[w].record)

\* The lock goes back, less what the payment cost; with its record.  An
\* UPDATE that finds no row is not noticed.
Back(w) ==
    IF txn[w].kind = "failed" THEN txn[w].model.lock_amount
    ELSE Payback(txn[w].hash, txn[w].model, Route(txn[w].hash))

UnlockRecord(w, rows) ==
    LET h == txn[w].hash
        m == txn[w].model
    IN  IF txn[w].kind = "failed" THEN rows
        ELSE NewRecord(rows, m.user_id, txn[w].seen, -Cost(h, m, Route(h)), h,
                       "external_payment")

UnlockFunds(w) ==
    LET m == txn[w].model
        u == m.user_id
        rows == UnlockRecord(w, txn[w].record)
    IN  /\ Runs(w, "unlock")
        /\ \/ /\ ~Matches(w)
              /\ txn' = [txn EXCEPT ![w].record = rows, ![w].at = @ + 1]
              /\ UNCHANGED <<store, faults, net>>
           \/ /\ Gets(w)
              /\ Write(w, "user", u,
                       [Account(w, u) EXCEPT !.balance = @ + Back(w),
                                             !.lock_amount = @ - m.lock_amount],
                       rows)

\* What has been written becomes visible, all at once.
Commit(w) ==
    /\ Runs(w, "commit")
    /\ user' = Over(txn[w].user, user)
    /\ payment' = Over(txn[w].payment, payment)
    /\ invoice' = Over(txn[w].invoice, invoice)
    /\ donation' = Over(txn[w].donation, donation)
    /\ record' = [u \in Users |-> record[u] \o txn[w].record[u]]
    /\ End(w) /\ UNCHANGED <<faults, net>>

Step(w) ==
    \/ Hold(w) \/ InsertPayment(w) \/ Debit(w) \/ Close(w) \/ Credit(w)
    \/ Donate(w) \/ Settle(w) \/ UnlockFunds(w) \/ Refused(w) \/ Commit(w)

\* w waits for the transaction v, which has written the row w wants.
Waits(w, v) ==
    /\ v # w /\ Matches(w)
    /\ Holds(v, Wanted(w)[1], Wanted(w)[2])

\* The database finds transactions that wait for each other in a circle and
\* rolls one of them back (external).
InCircle(w) ==
    \E circle \in SUBSET (DOMAIN txn) :
        /\ w \in circle
        /\ \A a \in circle :
            /\ \E b \in circle : Waits(a, b)
            /\ \E b \in circle : Waits(b, a)

BreakDeadlock(w) ==
    /\ w \in DOMAIN txn /\ InCircle(w)
    /\ Rollback(w) /\ UNCHANGED faults

\* The handler is dropped or the connection fails: the open transaction goes
\* with it, so that these faults need no bound.
Drop(w) ==
    /\ w \in DOMAIN txn
    /\ Rollback(w) /\ UNCHANGED faults

----------------------------------------------------------------------------
(* What begins a transaction, and what it has read before.                 *)

Begin(w, kind, u, h, model, seen, payeeSeen) ==
    /\ w \notin DOMAIN txn
    /\ txn' = Insert(txn, w,
            [kind |-> kind, user_id |-> u, hash |-> h, model |-> model,
             seen |-> seen, payeeSeen |-> payeeSeen, at |-> 1,
             user |-> <<>>, payment |-> <<>>, invoice |-> <<>>,
             donation |-> <<>>, record |-> [v \in Users |-> <<>>]])
    /\ UNCHANGED <<store, faults, net>>

\* pay, after its check of the balance.
BeginPay(w, u, h) ==
    /\ h \notin Own
    /\ user[u].balance >= Total(h)
    /\ Begin(w, "lock", u, h, <<>>, 0, 0)

\* internal_pay, after its reads and checks.
BeginInternal(w, u, h) ==
    /\ h \in DOMAIN invoice
    /\ invoice[h].status = "Unpaid" /\ invoice[h].user_id # u
    /\ user[u].balance >= InternalTotal(h)
    /\ Begin(w, "internal", u, h, invoice[h], user[u].balance,
             user[invoice[h].user_id].balance)

\* pay_failed and pay_success, in a handler or the task.
BeginSettle(w, h) ==
    /\ h \in DOMAIN payment /\ payment[h].status = "Unpaid"
    /\ LET u == payment[h].user_id
           seen == IF net[h] = "success" THEN user[u].balance ELSE 0
       IN  Begin(w, net[h], u, h, payment[h], seen, 0)

\* What sync_invoices does for an invoice the node has closed.
BeginClose(h) ==
    /\ h \in DOMAIN invoice
    /\ LET row == invoice[h]
           u   == row.user_id
           Go(kind, seen) == Begin(Task, kind, u, h, row, seen, 0)
       IN  \/ net[h] = "success" /\ row.status = "Unpaid"
                /\ Go("paid", user[u].balance)
           \/ net[h] = "success" /\ row.internal /\ ~row.duplicate
                /\ Go("duplicate", user[u].balance)
           \/ net[h] = "failed" /\ row.status = "Unpaid" /\ Go("cancel", 0)

Next ==
    \/ \E w \in Workers : Step(w) \/ BreakDeadlock(w) \/ Drop(w)
    \/ \E h \in Hashes : BeginClose(h) \/ BeginSettle(Task, h)
    \/ \E w \in Workers : \E r \in Requests[w] :
        BeginPay(w, r[1], r[2]) \/ BeginInternal(w, r[1], r[2])
            \/ BeginSettle(w, r[2])

\* Transactions that wait for a row get it in turn; the database looks for
\* circles.
Fairness ==
    \A w \in Workers : SF_vars(Step(w) \/ BreakDeadlock(w))

Spec == Init /\ [][Next]_vars

FairSpec == Spec /\ Fairness
----------------------------------------------------------------------------
(* Properties.                                                             *)

TypeOK ==
    /\ StoreTypeOK
    /\ DOMAIN txn \subseteq Workers
    /\ \A w \in DOMAIN txn :
        /\ txn[w] \in Txn(txn[w])
        /\ IsTable(txn[w].user, Users, User)
        /\ IsTable(txn[w].payment, Hashes, Payment)
        /\ IsTable(txn[w].invoice, Hashes, Invoice)
        /\ IsTable(txn[w].donation, Hashes, Donation)
    /\ net \in [Hashes -> {"success", "failed"}]

\* The statement s of w has been run.
Done(w, s) ==
    \E i \in DOMAIN Script[txn[w].kind] :
        i < txn[w].at /\ Script[txn[w].kind][i] = s

\* What w has read before it began is still true of what does not change.
ModelAgrees(w) ==
    LET t == txn[w]
        h == t.hash
        m == t.model
    IN  /\ t.kind \in {"internal", "paid", "duplicate", "cancel"} =>
                m \in Invoice /\ h \in DOMAIN invoice
        /\ t.kind \in {"failed", "success"} =>
                /\ m \in Payment /\ h \in DOMAIN payment
                /\ m.user_id = payment[h].user_id
                /\ m.lock_amount = Total(h)
                /\ m.service_fee = ServiceFee(Amount[h])

\* The rows w has written are what its statements make of the rows as they
\* are committed now, whoever has committed since, and the filters of its
\* statements hold of those rows.
Booked(w, k) ==
    LET t == txn[w]
        h == t.hash
        m == t.model
        If(s, u, n) == IF Done(w, s) /\ u = k THEN n ELSE 0
    IN  [balance |-> user[k].balance
                        - If("hold", t.user_id, Total(h))
                        - If("debit", t.user_id, InternalTotal(h))
                        + If("credit", m.user_id, Amount[h])
                        + If("unlock", m.user_id, Back(w)),
         lock_amount |-> user[k].lock_amount
                        + If("hold", t.user_id, Total(h))
                        - If("unlock", m.user_id, m.lock_amount),
         donate_amount |-> user[k].donate_amount
                        + If("donate", Donates(w), m.paid_amount)]

AccountsAgree(w) ==
    LET t == txn[w]
    IN  /\ DOMAIN t.user \subseteq Users
        /\ Done(w, "hold") \/ Done(w, "debit") => t.user_id \in DOMAIN t.user
        /\ Done(w, "credit") \/ Done(w, "unlock") => t.model.user_id \in DOMAIN t.user
        /\ Done(w, "donate") =>
                Donates(w) = "none" \/ Donates(w) \in DOMAIN t.user
        /\ \A k \in Users : Account(w, k) = Booked(w, k)
        /\ Done(w, "hold") => user[t.user_id].balance >= Total(t.hash)
        /\ Done(w, "debit") => user[t.user_id].balance >= InternalTotal(t.hash)

RowsAgreeWith(w) ==
    LET t == txn[w]
        h == t.hash
        Row(row) == Insert(<<>>, h, row)
    IN  /\ IF Done(w, "close")
           THEN /\ IF t.kind = "duplicate" THEN InvoiceDupPaidMatches(h)
                   ELSE InvoicePaidMatches(h)
                /\ t.invoice = Row(Closed(w))
           ELSE t.invoice = <<>>
        /\ CASE Done(w, "insert") ->
                    h \notin DOMAIN payment /\ t.payment = Row(NewPayment(w))
             [] Done(w, "settle") ->
                    /\ IF t.kind = "failed" THEN PayFailedMatches(h, t.model)
                       ELSE PaySuccessMatches(h, t.model)
                    /\ t.payment = Row(Settled(w))
             [] OTHER -> t.payment = <<>>
        /\ t.donation =
                IF Done(w, "donate") /\ Donates(w) # "none"
                THEN Row([user_id |-> Donates(w), amount |-> t.model.paid_amount])
                ELSE <<>>

RecordsAgree(w) ==
    LET none     == [u \in Users |-> <<>>]
        debited  == IF Done(w, "debit") THEN DebitRecord(w, none) ELSE none
        credited == IF Done(w, "credit") THEN CreditRecord(w, debited) ELSE debited
    IN  txn[w].record = IF Done(w, "unlock") THEN UnlockRecord(w, credited)
                        ELSE credited

Agrees(w) ==
    ModelAgrees(w) /\ AccountsAgree(w) /\ RowsAgreeWith(w) /\ RecordsAgree(w)

\* No row is written by two transactions.
LocksAgree ==
    \A v, w \in DOMAIN txn : v # w =>
        /\ DOMAIN txn[v].user \cap DOMAIN txn[w].user = {}
        /\ DOMAIN txn[v].payment \cap DOMAIN txn[w].payment = {}
        /\ DOMAIN txn[v].invoice \cap DOMAIN txn[w].invoice = {}

\* The inductive invariant.  The ledger is part of it, because the second
\* UPDATE of a settlement must find its row.
Consistent ==
    /\ TypeOK /\ Ledger /\ LocksAgree
    /\ \A w \in DOMAIN txn : Agrees(w)

\* The transaction of w in one step, as Store has it.
Effect(w) ==
    LET t == txn[w]
    IN  CASE t.kind = "lock" ->
                /\ LockBalanceMatches(t.user_id, t.hash)
                /\ LockBalance(t.user_id, t.hash)
          [] t.kind = "internal" ->
                /\ InternalPayMatches(t.user_id, t.hash)
                /\ InternalPay(t.user_id, t.hash, t.model, t.seen, t.payeeSeen)
          [] t.kind = "paid" ->
                /\ InvoicePaidMatches(t.hash)
                /\ InvoicePaid(t.hash, t.model, Amount[t.hash], t.seen)
          [] t.kind = "duplicate" ->
                /\ InvoiceDupPaidMatches(t.hash)
                /\ InvoiceDupPaid(t.hash, t.model, Amount[t.hash], t.seen)
          [] t.kind = "cancel" -> CancelInvoice(t.hash)
          [] t.kind = "failed" ->
                /\ PayFailedMatches(t.hash, t.model)
                /\ PayFailed(t.hash, t.model)
          [] t.kind = "success" ->
                /\ PaySuccessMatches(t.hash, t.model)
                /\ PaySuccess(t.hash, t.model, Route(t.hash), t.seen)

\* Side by side, dropped or rolled back, the transactions change the tables as
\* the one-step transactions of Store do, one after the other, and the filters
\* of Store hold at the commit: no update is lost or half done.
CommitsAreAtomic ==
    [][store' # store =>
        \E w \in DOMAIN txn : Runs(w, "commit") /\ Effect(w)]_vars

\* Every transaction ends, also those that wait for each other: `pay` takes
\* the account before the payment and pay_success the payment before the
\* account, and two internal payments in opposite directions meet likewise.
EveryTransactionEnds ==
    \A w \in Workers : w \in DOMAIN txn ~> w \notin DOMAIN txn
=============================================================================
