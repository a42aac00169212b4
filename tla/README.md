# A TLA+ verification of satsbox

satsbox is a custodial lightning wallet: accounts with balances in an SQL
database (SQLite by default, PostgreSQL), a lightning node (lnd or cln) reached
over gRPC, and several ways in (LNDhub, LNURL, Nostr Wallet Connect). These
modules model how money moves through it and who may use it. TLC checks them on
small instances, and TLAPS proves the safety of outgoing payments, of receiving,
of wallet requests, of zap receipts and of the accounts, that the database
transactions are serializable, and that the whole is solvent and implements an
abstract wallet, for every number of accounts, invoices and handlers.

All paths below are relative to the repository.

## 1. The system

### 1.1 Components, their state and operations

| Component | Source | State it keeps | Operations |
|---|---|---|---|
| Service | `src/service.rs` | the five tables below | `pay`, `internal_pay`, `create_invoice`, `sync_invoices`, `sync_payments`, `pay_success`, `pay_failed`, `invoice_paid`, `invoice_dup_paid`, `sync_donation`, `admin_adjust_user_balance`, account and event rows |
| Entities, migrations | `entity/`, `migration/` | `users` (balance, lock_amount, donate_amount), `invoices` (invoices and payments, unique by type and hash), `records` (statement), `donations`, `events` | schema only |
| Fee schedule | `src/setting.rs` | none | `Fee::cal` |
| Lightning clients | `lightning/src/{cln,lnd,lightning}.rs` | none; the node has its own | `create_invoice`, `list_invoices`, `pay`, `lookup_payment`, `list_payments` |
| LNDhub API | `src/lndhub.rs` | none | `add_invoice`, `pay_invoice`, `balance`, lists, login |
| Nostr Wallet Connect | `src/nwc.rs` | `events`, a rate limiter | one task per relay event: log, pay or read the balance, answer |
| LNURL and zaps | `src/lnurl.rs` | `invoices.zap_status`, `zap_receipt` | `create_invoice`, the receipts task |
| Accounts API | `src/api.rs` | `users.username`, `users.password` | `update_username`, `reset_lndhub`, what `info` announces |
| Authentication | `src/auth/`, `src/setting.rs` | none; the tokens are the clients' | JWT access and refresh tokens, the whitelist, NIP-98 events |
| Application | `src/app.rs` | none | starts the web server and three background tasks |

### 1.2 How they interact

Every request of an API becomes a handler: an async function that alternates
between database transactions, calls to the node and returns. Any number of
handlers run at once, and the web server drops a handler when its client goes
away. One background task, `Service::sync`, loops over `sync_invoices` and
`sync_payments` and sleeps for five seconds (`src/app.rs:179`). Handlers and task
share nothing in memory. They meet in the database and at the node, which
moves on its own. Two more background tasks run beside it: one receives the
wallet requests of Nostr Wallet Connect and spawns a task for each delivery, the
other publishes receipts for paid zaps.

The code relies on three devices:
the first UPDATE of each transaction carries a filter, and a transaction whose
filter matches no row rolls back; the unique index on (type, payment_hash) admits
one payment per invoice; and the money of a pending payment is moved from
`balance` to `lock_amount` before the node is asked.

### 1.3 What is hard

* A balance, an invoice or a user model is read, an await follows, and the value
  is used afterwards (`service.rs:220`, `:331`, `:500`, `:924`).
* Handler and task settle the same payment from two copies of its row.
* An invoice of our own can be paid twice, by an account and over the network.
* A call times out while the node goes on; a handler is dropped, or the process
  dies, between the lock and its settlement.
* What the task settles depends on what the node's list shows: its start, its
  order, what it leaves out, and whether it fails as a whole.
* A relay delivers a request any number of times, before and after a restart, and
  a payment must follow from the first delivery only. The answer must agree with
  the log, though another handler or the task settles the same payment.
* A transaction is several statements on a database that runs others beside it;
  some of them take the same rows in the opposite order.
* The node's list comes in pages, while it and the database go on changing.
* A payment may be tried over several routes, and the node has an entry of each.
* An account is created by whoever needs it first; a name is checked against a
  donation read before another await; tokens outlive the whitelist they were
  issued under.
* A receipt is sent before it is marked, from a row read earlier; it must stay
  true, and be the same event when it is sent again.
* The time window of the task, the expiry of invoices and the node's own
  closing of them must fit together.

`PROJECT.json` lists each of these at its line, with the properties that would
notice it going wrong.

## 2. The modules

```
Fee ── Store ──┬── Payments ──┬── Service ── Custody (abstract)
               ├── Invoices ──┘
               ├── Receipts
               └── Transactions
Nwc (EXTENDS Payments)
Accounts
StoreProofs (EXTENDS Store)
PaymentsProofs (EXTENDS Payments, StoreProofs)
InvoicesProofs (EXTENDS Invoices, StoreProofs)
ReceiptsProofs (EXTENDS Receipts, StoreProofs)
TransactionsProofs (EXTENDS Transactions, StoreProofs)
NwcProofs (EXTENDS Nwc, PaymentsProofs)
AccountsProofs (EXTENDS Accounts)
ServiceProofs (EXTENDS Service, StoreProofs; instances of PaymentsProofs, InvoicesProofs)
MCPayments, MCInvoices, MCService, MCNwc, MCReceipts, MCTransactions, MCAccounts:
instances for TLC
```

**Fee** is `Fee::cal`: the fee limit of a route, the internal fee and the service
fee. Percentages are integers over `PctUnit`, so fees are exact floors.

**Store** holds the tables with money and one pair of operators for each
transaction: `XMatches` is the filter that decides the race, `X` the committed
effect. A transaction is one atomic step here; `CommitsAreOneStep` of
`TransactionsProofs` shows that it may be.
Values computed
from models read *before* the transaction are parameters (`model`, `seen`), never
read from the current state. `Unlock` keeps a slip of the code: the result of the
second UPDATE of `pay_failed` and `pay_success` is bound to `_res` and the test
after it looks at the first result again, so an UPDATE that matches nothing still
commits.

**Transactions** runs the same transactions statement by statement, as the code
sends them, on PostgreSQL at READ COMMITTED: `Script` is the order of the
statements of each kind, a statement sees the committed rows and the
transaction's own writes, locks the row it writes until the end, and waits for a
row that another transaction has written; when it gets it, it looks at its filter
again. `Commit` makes the writes visible at once. `BreakDeadlock` is the
database's answer to transactions that wait for each other, `Drop` a handler that
goes away. `CommitsAreAtomic` compares every commit with the operators of Store:
the transactions side by side do what those do one after the other, the filters
hold at the commit and no update is lost, although the balance, the invoice and
the payment are different rows that are locked one by one. SQLite runs one
writer at a time, so that it has fewer behaviours. The data are narrower than in Store:
a route costs its limit and the network pays what was asked, since no property
here tells amounts apart beyond that.

**Payments** is the external branch of `pay`, `sync_payments` and the node's
outgoing side. Each action is the code between two awaits:

| Code | Action |
|---|---|
| `pay` up to `begin` (the check of the stale balance) | `Begin` |
| the locking transaction, both outcomes | `Lock` |
| the request reaches the node / does not / the call returns | `Pay` / `PayFails` / `PayReturns` |
| `lookup_payment` and the match | `Lookup` |
| `pay_failed` | `Refund` |
| `pay_success`: read of the user, then the transaction | `ReadUser`, `Charge` |
| handler dropped, query failed, connection lost | `Abandon` |
| `sync_payments`: query, list, then item by item | `SyncRead`, `SyncList`, `SyncRefund`, `SyncReadUser`, `SyncCharge`, `SyncDone`, `SyncFails` |
| the node (external) and a restart | `NodeStarts`, `NodeEnds`, `Crash` |

The task's snapshot is a set of rows, not a list: its items are handled in any
order, which includes the code's order. `Retries` lets the node try a payment
over several routes; cln then lists an entry of each attempt, and
`lookup_payment` answers with the first (`FirstFailed`).

**Invoices** is `create_invoice`, `internal_pay`, `sync_invoices` and the node's
incoming side, with the same granularity. Time is kept as far as the code looks
at it: an invoice is `fresh`, `expired` (the node may close it) or `old` (out of
the 25-hour window). `Passes` bounds from below the rounds the task makes between
the first two; the code makes about 720 in that hour. `Downtime` lifts that
assumption. With cln the list comes in pages (`SweepPage`): each begins at the
last index of the page before, and between two of them the node may make, receive
and close invoices. `Others` are invoices that other programs have made there,
which fill pages too; `PageSize` is 50 in the code.

**Service** composes the two over one store and one node and adds what only
the composition has: the branch of `pay` on the payee, and the loop of the task
in which the two halves alternate.

**Custody** is the abstract specification: what a custodial wallet promises,
without handlers, tasks or tables. Each hash holds, spends or returns money once,
is transferred once and received once, and no account goes below zero. Service
implements it under the mapping at the end of `Service.tla`.

**Nwc** puts the tasks of `handle_event` over Payments. A delivery spawns a task;
`CreateEvent` inserts the event's row or finds it there and ends; `Reject`,
`Refuse`, `GetBalance` and `PayInvoice` are the ways `handle_request` can go;
`Paying` takes one step of the handler of `pay`, which the task runs under its own
worker; `LogEvent` and `SendAnswer` are the two awaits after it. `PayErrs` is a
call or query inside `pay` that fails, whose error is logged and answered;
`TaskFails` is one outside, which ends the task. Permissions, the age of the
event and the rate limiter only appear as one more reason to refuse. Handlers of
LNDhub run next to the tasks and compete for the same invoices.

**Accounts** is `get_or_create_user` and its three callers that write
(`update_username`, `reset_lndhub`, LNURL), `auth` of LNDhub, the part of
`sync_donation` that finds or creates the donor, and a restart with another
whitelist. A request is a SELECT, perhaps an INSERT, and an UPDATE, with others in
between. `Level` and `MinChars` are the donation levels and the lengths of names
they allow. Of the tokens of a key only the latest expiry counts, because access
and refresh tokens are of one kind and each is accepted for the other.

**Receipts** is the validation of a zap request, `create_invoice` of LNURL, and
`handle_receipts`. The task meets the rest of the service in the database only, so
that payments appear as the transactions of Store (`PaidByAccount`,
`PaidByNetwork`, `Canceled`). The id of a receipt is a hash over its tags, the
preimage and `paid_at`; each way to pay an invoice writes `internal` together with
`paid_at`, so `internal` stands for it. `Unreachable` names the zaps one of whose
relays the client does not accept.

Left out of all of them: texts, keys, preimages, times that nothing here
compares, and logging. A payer named by payer data or by a zap request is one
field `payer`. In the modules over Store a donor the service has never seen is an
account from the start; Accounts has the race for it.

## 3. What TLC checks

| Run | Instance | Properties |
|---|---|---|
| MCPayments | 2 accounts, 2 invoices, 2 handlers, 2 faults, cln | types; the inductive invariant `Consistent`; `LockedFunds`: an account's lock is the sum of its pending payments' locks; `NoOverdraft`; `AskedOnceAndFunded`: no invoice is sent twice, nothing is sent without its lock; `NeverRefundedAndSent`; `ChargedWhatItCost`; `Explained`: balance and lock of an account are what its records add up to; `SettledForGood` |
| MCPaymentsLive | 1 account, 2 invoices, 2 handlers, 1 fault, cln | `SucceededIsCharged`, `FailedIsRefunded`: the node's outcome reaches the account, whatever became of the handler |
| MCInvoices | 1 invoice of the donation account, 2 accounts, 3 handlers, 2 faults, overpayment, downtime, a list that may fail | the inductive invariant `Consistent`, which has the types; `CreditedWhatWasPaid`: once for the internal payment, once for the network's, in any order; `Explained`; `DonatedIsSum`; `PaidForGood` |
| MCInvoicesLive | 2 invoices and another program's between them in the list, pages of 2, 1 account that may pay itself, 1 fault, cln | `ReceivedIsCredited`, `ClosedIsClosed`: no invoice falls between two pages |
| MCService | 1 own and 1 foreign invoice, 2 accounts, 1 handler, 1 fault, lnd | the inductive invariant `Consistent`, which has those of both halves, `KindsApart` and `BooksBalance`; `Solvent`: what the accounts hold, with all that was sent or may have to be sent, is covered by what came in; `Explained`; `CustodySpec`: the refinement |
| MCNwc | 1 account, 1 invoice, 2 events that ask for anything, 2 workers, 1 fault, several routes | the inductive invariant `NwcConsistent`, which has the types; `AnsweredOnce`: however often it is delivered, an event is answered once at most, with what the log says; `SuccessIsPaid`: success is logged for a payment of the author's that is charged, and for one event only; `HandledOnce`; `EventuallyAnswered` |
| MCReceipts | 2 zaps, one with a relay that is refused, 2 accounts, 2 faults | types; the inductive invariant `Truthful`; `ReceiptIsTrue`: a receipt is published for what stays paid in the way it was paid, so all receipts of an invoice are one event; `MarkedIsSent`; `PaidIsReceipted`: and one zap does not hold up another |
| MCTransactions | 2 handlers and the task; internal payments in opposite directions, a payment over the network that is locked and settled twice, an invoice of ours that is also paid over the network or closed | the inductive invariant `Consistent`, which has the types; `CommitsAreAtomic`; `EveryTransactionEnds`: also those in a circle |
| MCAccounts | 2 keys, 2 names of different length, 2 donation amounts, 2 requests, 2 donations, 1 restart with any whitelist | types and the unique indexes; `HeldNamesAreAllowed`: nobody holds a name shorter than their donations allow; `DonatedIsKept`; `LockedOut`: a key off the whitelist is out after the longest expiry, however it refreshes; `DonationsAreCredited` |

Three more runs show where the code does not do what it says. Each checks one
property and TLC finds a behaviour that violates it; `PROJECT.json` has the line
and the text it contradicts.

| Run | What TLC finds |
|---|---|
| MCStuckLock | The handler ends between the lock and the call, or the node cannot be reached. The node never lists the payment, so the task never settles it and the lock stays. |
| MCLndFailed | With lnd the list holds completed payments only. A failed payment the handler did not see is never refunded. |
| MCClnAttempts | With cln a payment whose first attempt failed is looked up while a later attempt is under way. The answer is "failed", the lock is given back, and the payment is sent. |

More limits are visible in the model and have no run of their own.

* A node that starts a payment after the handler's lookup answered "not found"
  has it refunded and sent (set `LateStart`).
* One invoice without an amount, made at the node by another program, makes
  `list_invoices` fail for all (set `Foreign` in MCInvoicesLive).
* While a payment is pending the balance reported to clients is too low by its
  lock, which is subtracted twice (`lndhub.rs:338`, `nwc.rs:110`).
* With lnd the start of the payments list is the payee's clock
  (`service.rs:553`), so a payee whose clock runs ahead hides a payment from the
  task (set `Lnd`, and `GeneratedAt` above `SentAt`).
* With cln two invoices of the same second come out of the database in no order,
  and the list starts at the index of whichever came first (set equal times, and
  `Index` in the other order: `ReceivedIsCredited` fails in MCInvoicesLive).
* A wallet request gets no answer when its task dies after the event was logged
  (`nwc.rs:175`) or when the log cannot be written after the payment
  (`nwc.rs:203`); `EventuallyAnswered` excepts faults for both. And it is answered
  with an error although it has paid when `sync_payments` settles first
  (`service.rs:281`): `SuccessIsPaid` is one direction only.
* The task's map of cln's payments keeps the last entry of each hash where the
  lookup takes the first; a payment in several parts has its amounts in several
  entries.
* Money received before a downtime longer than the window is not credited (set
  `Downtime`).
* A donation paid over its amount counts with the amount asked (`service.rs:831`).
* The balance a record holds is the one read before its transaction
  (`service.rs:990`), not the one the change was applied to.
* A wallet request logged before a crash, or whose log entry fails, is never
  answered: the row stays `Created` and every later delivery finds it. A request
  that cannot be read is logged as failed and not answered.
* An error answer does not mean that nothing was paid: the payment may be in
  progress, or be charged by the task. `SuccessIsPaid` has no converse.
* Tasks of wallet requests run side by side, although the comment at `nwc.rs:283`
  calls them synchronous, and the future that would report their errors is never
  polled.
* One relay of a zap that the client does not accept keeps its receipt from all
  the others, for ever (`Unreachable`).

### 3.1 Bounds

Two handlers are enough for every race between handlers that the code has: they
meet at one payment row, at one invoice row or at one balance, and a third
handler finds what the second finds. MCInvoices still takes three, one to create
the invoice and two to pay it. Two invoices of different amounts make the two
locks of one account distinct and put the fee limit on both sides of `SmallPay`.
The deposits pay for one payment and not for two, so that the balance is
contested; in MCInvoicesLive `MCSmallDeposit` covers at first only the smaller of
the account's own invoices. `MaxFaults` bounds dropped handlers, failed calls and restarts
together: one fault leaves a payment to the task, a second hits the task. Amounts
are a few msats and the percentages are halves, so that every fee is positive and
every rounding happens. Two events and two workers are what de-duplication needs:
two deliveries of one event, two events for one payment, or a task and a handler
of LNDhub for one payment. MCNwc sets the routing limits to zero, since fees
change nothing in it. Two zaps are needed for one to hold up the other; the
second is the unreachable one.

`Others` and `PageSize` of MCInvoicesLive put an invoice of another program
between the two of the service, so that the list takes two pages and the second
invoice is on the second; a page holds two, the least with which the next page,
which begins with the last of the one before, makes progress. `Requests` of
MCTransactions fixes who asks for what: the two internal payments go in opposite
directions, and one handler also makes and settles a payment over the network,
next to the task. Each worker runs any number of transactions one after the other,
and drops need no bound. In MCAccounts two requests race for one account or one
name, and `MaxRequests` admits two of them; `MaxDonations` of two reaches the second
amount; `MaxClock` of 3 is one more than the longer expiry, and one restart with
any whitelist takes a key off it. A second restart would admit the key again and
begin the count anew.

Handlers are symmetric in the safety runs, and the
accounts are in MCService. No run with liveness uses symmetry.

### 3.2 Fairness

`Fairness` has three parts. A handler that can go on does (tokio polls what is
ready, and every call of the node client has a timeout, `app.rs:85`). So does
the task, which loops for ever. The node ends a payment it has started and
closes an invoice that has expired. Nothing is assumed of clients: they may
never call, and a fault may drop any handler. No strong fairness is needed there.

`FairSpec` of Transactions has strong fairness of each worker: a row's waiters get
it in turn, and the database finds circles. `Spec` of Accounts only assumes that the
task goes on; requests may stay where they are.

`NwcSpec` assumes a spawned task goes on when it can, and the node as above; it
needs nothing of `sync_payments`. Its liveness is stated up to the first fault,
because the code makes no second attempt. `Receipts` assumes that the task loops
and its calls end; its faults are bounded, so each round that fails is followed by
one that does not.

## 4. What TLAPS proves

`StoreProofs` and `PaymentsProofs` prove, for all accounts, invoices, amounts,
fees, handlers and faults:

| Theorem | Property |
|---|---|
| `TypeCorrect` | `TypeOK` |
| `AlwaysConsistent` | `Consistent`, the inductive invariant |
| `LocksAreAccounted` | `LockedFunds` |
| `NeverOverdrawn` | `NoOverdraft` |
| `NeverAskedTwice` | `AskedOnceAndFunded` |
| `ChargesAreTrue` | `ChargedWhatItCost` |
| `RefundsAreSafe` | `NeverRefundedAndSent`, when `LateStart = FALSE` and `Retries = FALSE` |
| `SettledOnce` | `SettledForGood` |
| `StatementsExplain` | `Explained` |

`ReceiptsProofs` proves for the receipts task, whatever transactions run beside it:

| Theorem | Property |
|---|---|
| `TypeCorrect` | `TypeOK` |
| `AlwaysTruthful` | `Truthful`, the inductive invariant |
| `ReceiptsAreTrue` | `ReceiptIsTrue` |
| `MarkedAreSent` | `MarkedIsSent` |

`InvoicesProofs` proves for receiving and internal payments, with pages of any size,
any overpayment, faults and downtime:

| Theorem | Property |
|---|---|
| `InvoicesConsistent` | `Consistent`, the inductive invariant, which has `TypeOK` (`InvoicesTypeCorrect`) |
| `InvoicesPaidForGood` | `PaidForGood` |
| `InvoicesCredited` | `CreditedWhatWasPaid` |
| `InvoicesExplain` | `Explained` |
| `DonationsAddUp` | `DonatedIsSum` |

`ServiceProofs` proves for the two over one database, with the loop of the task and
restarts:

| Theorem | Property |
|---|---|
| `ServiceConsistent` | `Consistent`, the inductive invariant, which has `TypeOK` (`ServiceTypeCorrect`) |
| `ServiceSolvent` | `Solvent`, when `LateStart = FALSE` and `Retries = FALSE` |
| `ServiceExplains` | `Explained` |
| `ServiceIsCustody` | `CustodySpec`: the service implements `Custody` |

`NwcProofs` proves for the wallet requests, on top of `PaymentsProofs`:

| Theorem | Property |
|---|---|
| `NwcAlwaysConsistent` | `NwcConsistent`, the inductive invariant, which has the types |
| `EventsAnsweredOnce` | `AnsweredOnce` |
| `SuccessesArePaid` | `SuccessIsPaid` |
| `EventsHandledOnce` | `HandledOnce` |
| `NwcKeepsLedger` | `LockedFunds` and `NoOverdraft`, with wallet requests |

`AccountsProofs` proves for the accounts:

| Theorem | Property |
|---|---|
| `AccountsTypeCorrect` | `TypeOK`, with the unique names |
| `DonationsKept` | `DonatedIsKept` |
| `NamesHeldAreAllowed` | `HeldNamesAreAllowed` |
| `KeysAreLockedOut` | `LockedOut` |

`TransactionsProofs` proves for the transactions, statement by statement:

| Theorem | Property |
|---|---|
| `TransactionsConsistent` | `Consistent`, the inductive invariant, which has the types and `Ledger` |
| `CommitsAreOneStep` | `CommitsAreAtomic` |

Assumptions: those named in `Fee`, `Store`, `Payments`, `Invoices`, `Service`, `Nwc`,
`Receipts`, `Accounts` and `Transactions`. The set of hashes is finite, and so is that
of the users in `Service`, whose books are a sum over them; amounts are positive,
deposits and percentages natural; `"admin"`, the source of an account's first record,
is the hash of no invoice. `RefundsAreSafe` and `ServiceSolvent` assume in addition
that the node starts no payment after `pay` has returned and tries one route;
MCClnAttempts shows that refunds need the latter, and a payment that is refunded and
sent is paid from what the others own. `ServiceIsCustody` needs neither: what the
users see is right even then.

None of these properties is inductive. That a refund is safe depends on the handler
that gives it knowing what the node did, and on no other handler having asked for
the same hash; that in turn rests on the unique index and on the row the handler
inserted still being its own. `Consistent` says this piece by piece:

* `Ledger` (over the tables alone): pending rows lock `Total`, settled rows lock
  nothing, and an account's `lock_amount` is the sum over its pending rows. The
  sum is the cardinality of a set of coins (`Coins`), one element for each locked
  msat, so that sums become set algebra and finite cardinalities, for which the
  library has theorems; a fold would need induction over data.
* `JobsAgree`: a handler past its lock owns its row, no other handler past the
  lock has its hash, and what it remembers of the node is true.
* `SyncAgrees`: the snapshot's rows belong to real payments, and what the task is
  about to settle the node has finished.
* `NodeAgrees`: the node only knows payments that have a row, and no route costs
  more than its limit.

`StoreProofs` shows for each transaction what it does to the types, the rows and
the ledger. The central fact is `SameLockIsPending`: because `Total` is positive,
a row whose `lock_amount` equals the model's is still pending. That is why
`pay_success` needs no filter on the status. `PaymentsProofs` then goes action by
action.

For receipts the argument is about a row read earlier. `Truthful` says that what
the task has read was paid and that `internal` in its copy is still that of the
row; that holds because no transaction of Store takes back that an invoice is paid
or how (`InternalPayKeepsPaid`, `InvoicePaidKeepsPaid`, `CancelKeepsPaid`,
`InvoiceDupPaidKeepsPaid`). The type lemmas for those transactions in
`StoreProofs` serve any module over Store.

For receiving the argument is again about rows read earlier, now by two parties.
`Consistent` of Invoices says that a handler about to store an invoice is alone
with it (`RequestsAgree`), that a paid row of the task's snapshot is still as it was
read, or has been paid a second time since (`SweepAgrees`), and that what the node
has received covers the amount (`NodeAgrees`). The lemmas `...Forward` say for each
transaction of Store that it moves an invoice forward: an unpaid one may become
anything, a settled one keeps its status and changes at most once, from paid
internally to paid twice. `StepForward` is the same for every action, and
`PaidForGood` follows. `CreditedRow` is where the stale snapshot meets the
current row: the filters of `invoice_paid` and `invoice_dup_paid`, with
`SweepAgrees`, leave only the second payment that has not been credited.

For wallet requests every step is a step of Payments, or leaves its state alone
(`StepBelow`, `PaymentsBelow`), so that `Consistent` carries over. `TasksAgree` says
that a task past `CreateEvent` is the only one of its event and runs the payment the
event asks for; `SuccessAgrees` that each success, answered, logged or about to be,
belongs to a paid payment of its author, a different one for each event. The step
that makes a new success is the commit of `pay_success`, which turns a pending
payment into a paid one (`ChargeSucceeds`); no earlier success can be about a pending
payment, so the two are different (`SuccessNew`). `StepKeepsRows` and
`StepKeepsSettled` of `PaymentsProofs` keep the payment paid afterwards.

For the accounts, `SeenOK` (in `AccountsProofs`) says that a row a handler has read is
one of its key's, with no more donated than has been since: what it allows is still
allowed when it writes. `CreditingOK` says that the task is about to create the donor
of a donation that is there. `TokenBound` bounds every token by the last moment its
key was admitted, which no refresh moves.

For the transactions the difficulty is that what a commit writes was computed
before, statement by statement, while others committed. `Consistent` of Transactions
says of each open transaction, in terms of the rows as they are committed *now*:
every account it has written is the committed account with its statements applied
(`Booked`), an account it has not written is not touched by the statements it has run,
the filters of these statements hold of the committed rows, the invoice and payment it
has written are computed from the committed ones, and its records are those of its
statements. Others cannot disturb this, since no row is written by two transactions
(`LocksAgree`) and a row that only they have written is not in it (`AgreesAtCommit`).
At the commit nothing is left to run, so that `Booked` is the effect of Store and the
filters are its `XMatches` (`CommitEffect`, one lemma for each kind). `Ledger` must be
in the invariant, because the second UPDATE of a settlement commits even if it finds no
row: that it finds one rests on the account's lock covering the payment's
(`SettledLock`).

Sums are cardinalities. `SumOf(f)`, for a function `f` into the integers, counts one
element for each msat of each entry (`Msats`), so that the sum of a statement, of the
credits of an invoice, of an account's donations or of all balances is the size of a
finite set; a fold would need induction over data. `SumOf` counts positive entries
only, so that `Balance` of a statement is the sum of its credits less the sum of its
charges. `SumOfAdded`, `SumOfChanged` and `SumOfMore` say how a sum moves with one entry,
and `BalanceAppended` what a new record does. `Explained` then follows
transaction by transaction: `LockBalanceExplained` and `PayFailedExplained` move money
within an account and leave no record, `PaySuccessExplained` takes what the record
says, `CreditsExplained` adds what it says, each from a balance read earlier
(`seen`), which the record keeps but the account does not depend on.
`CreditedWhatWasPaid` asks of each payment of an invoice that the
credit goes to the owner, is the only one of its kind, and is recorded under the
invoice's hash (`PaysOnce`, `StepCredited`); that an invoice about to be stored has no
credits yet is part of `InvoicesAgree`.

For the whole, every step is one of a half, at which the other half's variables stand
still, or a restart of both (`StepSides`). `Charges` and `Deposits` are what such a step
can do to the shared tables; `PaymentsKeepInvoices` and `InvoicesKeepPayments` show that
the one half does not disturb what the other knows: a charge touches no invoice and is
no credit, and a deposit touches no payment row and adds only rows that are paid at
once. Two things hold only of both together. `KindsApart` says that the branch of `pay`
has kept our own invoices and those of other nodes apart, which no table says;
without it a settlement of the node could hit the row of an internal payment.
`BooksBalance` says that all balances, locks and charges are covered by the
deposits and what the network has paid for; each transaction moves two accounts, one
payment and one receipt at most (`BooksMoved`). `Solvent` follows (`BooksCover`): what the
node has sent, fee and all, is no more than was charged or is still locked, since the
fee limit is in the lock and nothing refunded is sent. For the refinement each charge is
a `Hold` or a `Settle` of Custody and each deposit a `Transfer`, a `Receive` or a stutter
(`StepCustody`); the cost that `Settle` leaves open is what `pay_success` computes.
`ServiceProofs` first proves all of this about a step that is a charge or a deposit
(`Does`), from the definitions of Service alone, and brings in the proofs about the
halves at the end, in `StepDoes` and `StepInv`.

Only model-checked: liveness under fairness (`SucceededIsCharged`, `FailedIsRefunded`,
`ReceivedIsCredited`, `ClosedIsClosed`, `EventuallyAnswered`, `PaidIsReceipted`,
`EveryTransactionEnds`, `DonationsAreCredited`), which is beyond this prover.

## 5. What is not modelled

The permissions and the rate limiter of Nostr Wallet Connect, and wallet requests
for an invoice of our own; payer data, delegation, comments and the info endpoint of
LNURL; the signatures of zap requests and of NIP-98 events, and the window in which
such an event is accepted, again and again (nothing keeps it from being used twice);
NIP-05, the web UI, the parsing of configuration. `admin_adjust_user_balance` only
appears as the first record of each account: nothing but tests and an example calls
it. The rounding of percentages from f32, the amounts of payments that cln sends in
several parts, and 64-bit overflow (balances are i64 msats, far above the supply) are
abstracted away. Texts, keys and encodings have no state.

## 6. Plan

Done: Fee, Store, Transactions, Payments, Invoices, Service, Custody, Nwc, Receipts,
Accounts, and the proofs of all of them: every invariant and every action property
that a run checks is a theorem. What would come next:

1. `Service` with `Nwc` in the place of the handlers of LNDhub, so that wallet requests
   are in the books as well.
2. A payment in several parts at cln, with the amounts that `lookup_payment` and the
   task read from its entries.
3. The window of NIP-98 events.
