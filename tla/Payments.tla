------------------------------ MODULE Payments ------------------------------
(***************************************************************************)
(* Paying a lightning invoice of another node (service.rs): the request    *)
(* handler `pay`, the background task `sync_payments`, and the lightning   *)
(* node between them.                                                      *)
(*                                                                         *)
(* A handler locks the whole cost in the payer's account, asks the node to *)
(* pay, asks what became of it and settles: pay_success charges the lock,  *)
(* pay_failed gives it back.  A payment the handler does not settle is     *)
(* left to the task, which every few seconds reads the unpaid payments and *)
(* the node's list and settles those the node has finished.                *)
(*                                                                         *)
(* Each action is the code between two points where another request, the   *)
(* task or the node can run: a database transaction or a call to the node. *)
(***************************************************************************)
EXTENDS Store, SequencesExt

CONSTANTS
    LateStart,      \* TRUE: the node may start a payment after `pay` returned
    Retries,        \* TRUE: the node may try several routes, and cln keeps an
                    \* entry of each attempt
    SentAt          \* [Hashes -> Nat]: when our node is asked, by its clock;
                    \* GeneratedAt is the payee's clock

ASSUME PaymentsAssumption ==
    /\ LateStart \in BOOLEAN /\ Retries \in BOOLEAN
    /\ SentAt \in [Hashes -> Nat]

VARIABLES
    job,        \* the running handlers: a function from a set of workers
    sync,       \* sync_payments: where it is and what it has read
    node        \* [Hashes -> Outgoing]: the payments of our lightning node

payVars == <<job, sync, node>>
vars == <<store, faults, payVars>>

\* "none": never asked; "queued": asked, not started; "rejected": refused
\* before anything was sent.
Outgoing == [state: {"none", "queued", "rejected",
                     "inflight", "succeeded", "failed"},
             fee: Nat]

\* `model` is the payment row this handler inserted, known from "pay" on;
\* `fee` the node's answer, `seen` the balance read by pay_success.
Job == [pc: {"lock", "pay", "paying", "lookup", "refund", "read", "charge"},
        user_id: Users, hash: Hashes, ignore_result: BOOLEAN,
        fee: Nat, seen: Int]

\* `rows` are payments of the snapshot with their rows as they were read, from
\* "items" on only those the node listed as finished; `hash` is the one being
\* charged.
Sync(rows) == [pc: {"idle", "list", "items", "charge"}, rows: {rows},
               hash: Hashes \cup {"none"}, fee: Nat, seen: Int]

Idle == [pc |-> "idle", rows |-> <<>>, hash |-> "none", fee |-> 0, seen |-> 0]

Init ==
    /\ StoreInit
    /\ job = <<>>
    /\ sync = Idle
    /\ node = [h \in Hashes |-> [state |-> "none", fee |-> 0]]

----------------------------------------------------------------------------
(* The handler.                                                            *)

Goto(w, pc) == job' = [job EXCEPT ![w].pc = pc]

\* The handler returns, with a result or an error.
Return(w) == job' = [v \in DOMAIN job \ {w} |-> job[v]]

\* pay up to the transaction: the user model was read when the request was
\* authenticated, and the balance in it covers the total.
Begin(w, u, h, ignore) ==
    /\ w \notin DOMAIN job
    /\ user[u].balance >= Total(h)
    /\ job' = Insert(job, w,
                [pc |-> "lock", user_id |-> u, hash |-> h,
                 ignore_result |-> ignore, fee |-> 0, seen |-> 0])
    /\ UNCHANGED <<store, sync, node, faults>>

\* The transaction that locks the balance and inserts the payment.  It rolls
\* back when the balance has gone or the payment already exists.
Lock(w) ==
    /\ job[w].pc = "lock"
    /\ LET u == job[w].user_id
           h == job[w].hash
       IN  \/ LockBalanceMatches(u, h) /\ LockBalance(u, h) /\ Goto(w, "pay")
           \/ ~LockBalanceMatches(u, h) /\ UNCHANGED store /\ Return(w)
    /\ UNCHANGED <<sync, node, faults>>

\* lightning.pay: the request reaches the node.
Pay(w) ==
    /\ job[w].pc = "pay"
    /\ node' = [node EXCEPT ![job[w].hash].state = "queued"]
    /\ Goto(w, "paying")
    /\ UNCHANGED <<store, sync, faults>>

\* The call fails before it reaches the node; the handler goes on all the same.
PayFails(w) ==
    /\ w \in DOMAIN job /\ job[w].pc = "pay"
    /\ faults < MaxFaults
    /\ IF job[w].ignore_result THEN Return(w) ELSE Goto(w, "lookup")
    /\ faults' = faults + 1
    /\ UNCHANGED <<store, sync, node>>

\* lightning.pay returns: the node has answered, or five seconds are over.
\* Its result only picks the text of an error.
PayReturns(w) ==
    /\ job[w].pc = "paying"
    /\ LateStart \/ node[job[w].hash].state # "queued"
    /\ IF job[w].ignore_result THEN Return(w) ELSE Goto(w, "lookup")
    /\ UNCHANGED <<store, sync, node, faults>>

\* Mutant: whatever has not succeeded has failed.
LookupPessimist(w) ==
    LET pay == node[job[w].hash]
    IN  /\ job[w].pc = "lookup"
        /\ IF pay.state = "succeeded"
           THEN job' = [job EXCEPT ![w].pc = "read", ![w].fee = pay.fee]
           ELSE Goto(w, "refund")
        /\ UNCHANGED <<store, sync, node, faults>>

\* lightning.lookup_payment and the match on its answer.  cln.rs answers with
\* the first attempt of the payment, which may have failed before another.
FirstFailed(pay) == Retries /\ ~Lnd /\ pay.state \in {"inflight", "succeeded"}

Lookup(w) ==
    LET pay == node[job[w].hash]
    IN  /\ job[w].pc = "lookup"
        /\ \/ /\ pay.state = "succeeded"
              /\ job' = [job EXCEPT ![w].pc = "read", ![w].fee = pay.fee]
           \/ /\ \/ pay.state \in {"failed", "none", "queued", "rejected"}
                 \/ FirstFailed(pay)
              /\ Goto(w, "refund")
           \/ /\ pay.state = "inflight"
              /\ Return(w)
        /\ UNCHANGED <<store, sync, node, faults>>

\* The row the handler inserted, which it still holds as `model`.
Model(w) == [user_id |-> job[w].user_id,
             lock_amount |-> Total(job[w].hash),
             service_fee |-> ServiceFee(Amount[job[w].hash])]

\* pay_failed.
Refund(w) ==
    /\ job[w].pc = "refund"
    /\ LET h == job[w].hash
       IN  \/ PayFailedMatches(h, Model(w)) /\ PayFailed(h, Model(w))
           \/ ~PayFailedMatches(h, Model(w)) /\ UNCHANGED store
    /\ Return(w)
    /\ UNCHANGED <<sync, node, faults>>

\* pay_success reads the user before its transaction.
ReadUser(w) ==
    /\ job[w].pc = "read"
    /\ job' = [job EXCEPT ![w].pc = "charge",
                          ![w].seen = user[job[w].user_id].balance]
    /\ UNCHANGED <<store, sync, node, faults>>

\* The transaction of pay_success.
Charge(w) ==
    /\ job[w].pc = "charge"
    /\ LET h == job[w].hash
       IN  \/ /\ PaySuccessMatches(h, Model(w))
              /\ PaySuccess(h, Model(w), job[w].fee, job[w].seen)
           \/ ~PaySuccessMatches(h, Model(w)) /\ UNCHANGED store
    /\ Return(w)
    /\ UNCHANGED <<sync, node, faults>>

Handler(w) ==
    /\ w \in DOMAIN job
    /\ \/ Lock(w) \/ Pay(w) \/ PayReturns(w) \/ Lookup(w)
       \/ Refund(w) \/ ReadUser(w) \/ Charge(w)

\* The handler ends at an await: a call or a query failed, a transaction was
\* not committed, or the client went away and the server dropped the request.
Abandon(w) ==
    /\ w \in DOMAIN job
    /\ faults < MaxFaults
    /\ Return(w)
    /\ faults' = faults + 1
    /\ UNCHANGED <<store, sync, node>>

----------------------------------------------------------------------------
(* The task sync_payments.                                                 *)

Pending == {h \in DOMAIN payment : payment[h].status = "Unpaid"}

\* The unpaid payments; the task sleeps again when there are none.
SyncRead ==
    /\ sync.pc = "idle"
    /\ sync' = IF Pending = {} THEN sync
               ELSE [Idle EXCEPT !.pc = "list",
                                 !.rows = [h \in Pending |-> payment[h]]]
    /\ UNCHANGED <<store, job, node, faults>>

\* Mutants: the start of the list is exclusive; failed payments are left out.
ListedAfter(from) ==
    {h \in Hashes :
        /\ node[h].state \in IF Lnd THEN {"succeeded"}
                                    ELSE {"inflight", "succeeded", "failed"}
        /\ SentAt[h] > from}

ListedCompleted(from) ==
    {h \in Hashes : /\ node[h].state = "succeeded"
                    /\ Lnd => SentAt[h] >= from}

\* What list_payments shows from a time on.  cln.rs ignores the time and
\* lists every payment; lnd.rs asks for payments created since then, and
\* leaves include_incomplete unset, so only succeeded ones are listed.
Listed(from) ==
    {h \in Hashes :
        /\ node[h].state \in IF Lnd THEN {"succeeded"}
                                    ELSE {"inflight", "succeeded", "failed"}
        /\ Lnd => SentAt[h] >= from}

\* The loop over the snapshot acts on the payments listed as finished.
SyncList ==
    /\ sync.pc = "list"
    /\ \E first \in DOMAIN sync.rows :
        /\ \A h \in DOMAIN sync.rows : GeneratedAt[first] <= GeneratedAt[h]
        /\ LET todo == {h \in DOMAIN sync.rows \cap Listed(GeneratedAt[first]) :
                            node[h].state \in {"succeeded", "failed"}}
           IN  sync' = [sync EXCEPT !.pc = "items",
                                    !.rows = [h \in todo |-> sync.rows[h]]]
    /\ UNCHANGED <<store, job, node, faults>>

Rest(h) == [g \in DOMAIN sync.rows \ {h} |-> sync.rows[g]]

\* A failed payment: pay_failed.  A transaction that finds the payment
\* settled already fails, and the task goes on.
SyncRefund(h) ==
    /\ sync.pc = "items" /\ h \in DOMAIN sync.rows
    /\ node[h].state = "failed"
    /\ \/ PayFailedMatches(h, sync.rows[h]) /\ PayFailed(h, sync.rows[h])
       \/ ~PayFailedMatches(h, sync.rows[h]) /\ UNCHANGED store
    /\ sync' = [sync EXCEPT !.rows = Rest(h)]
    /\ UNCHANGED <<job, node, faults>>

\* A succeeded payment: pay_success reads the user ...
SyncReadUser(h) ==
    /\ sync.pc = "items" /\ h \in DOMAIN sync.rows
    /\ node[h].state = "succeeded"
    /\ sync' = [sync EXCEPT !.pc = "charge", !.hash = h, !.fee = node[h].fee,
                            !.seen = user[sync.rows[h].user_id].balance]
    /\ UNCHANGED <<store, job, node, faults>>

\* ... and runs its transaction.
SyncCharge ==
    /\ sync.pc = "charge"
    /\ LET h == sync.hash
       IN  /\ \/ /\ PaySuccessMatches(h, sync.rows[h])
                 /\ PaySuccess(h, sync.rows[h], sync.fee, sync.seen)
              \/ ~PaySuccessMatches(h, sync.rows[h]) /\ UNCHANGED store
           /\ sync' = [Idle EXCEPT !.pc = "items", !.rows = Rest(h)]
    /\ UNCHANGED <<job, node, faults>>

SyncDone ==
    /\ sync.pc = "items" /\ DOMAIN sync.rows = {}
    /\ sync' = Idle
    /\ UNCHANGED <<store, job, node, faults>>

SyncTask ==
    \/ SyncRead \/ SyncList \/ SyncCharge \/ SyncDone
    \/ \E h \in Hashes : SyncRefund(h) \/ SyncReadUser(h)

\* list_payments fails, and the task gives up this round; or a query or a
\* transaction for one payment fails, and it goes on with the next.
SyncFails ==
    /\ faults < MaxFaults
    /\ \/ sync.pc = "list" /\ sync' = Idle
       \/ /\ sync.pc \in {"items", "charge"}
          /\ \E h \in DOMAIN sync.rows :
                /\ sync.pc = "charge" => h = sync.hash
                /\ sync' = [Idle EXCEPT !.pc = "items", !.rows = Rest(h)]
    /\ faults' = faults + 1
    /\ UNCHANGED <<store, job, node>>

----------------------------------------------------------------------------
(* The lightning node (external) and the process.                          *)

\* The node starts to pay, or refuses: no route, bad invoice, no funds.
NodeStarts(h) ==
    /\ node[h].state = "queued"
    /\ \E s \in {"inflight", "rejected"} : node' = [node EXCEPT ![h].state = s]
    /\ UNCHANGED <<store, job, sync, faults>>

\* The payment ends; a route costs at most the fee limit of the request.
NodeEnds(h) ==
    /\ node[h].state = "inflight"
    /\ \/ node' = [node EXCEPT ![h].state = "failed"]
       \/ \E fee \in 0..MaxFee(Amount[h]) :
            node' = [node EXCEPT ![h] = [state |-> "succeeded", fee |-> fee]]
    /\ UNCHANGED <<store, job, sync, faults>>

Node(h) == NodeStarts(h) \/ NodeEnds(h)

\* The process dies and starts again: handlers and the task's snapshot are
\* gone, the database and the node are as they were.
Crash ==
    /\ faults < MaxFaults
    /\ job' = <<>>
    /\ sync' = Idle
    /\ faults' = faults + 1
    /\ UNCHANGED <<store, node>>

----------------------------------------------------------------------------
Next ==
    \/ \E w \in Workers, u \in Users, h \in Hashes, ignore \in BOOLEAN :
            Begin(w, u, h, ignore)
    \/ \E w \in Workers : Handler(w) \/ PayFails(w) \/ Abandon(w)
    \/ SyncTask
    \/ SyncFails
    \/ \E h \in Hashes : Node(h)
    \/ Crash

\* Tokio polls every task that can run; every call of the node client ends,
\* within a timeout; the node does not keep a payment for ever.
Fairness ==
    /\ \A w \in Workers : WF_vars(Handler(w))
    /\ WF_vars(SyncTask)
    /\ \A h \in Hashes : WF_vars(Node(h))

Spec == Init /\ [][Next]_vars

FairSpec == Spec /\ Fairness
----------------------------------------------------------------------------
(* Properties.                                                             *)

TypeOK ==
    /\ StoreTypeOK
    /\ IsTable(job, Workers, Job)
    /\ sync \in Sync(sync.rows) /\ IsTable(sync.rows, Hashes, Payment)
    /\ sync.pc = "charge" => sync.hash \in DOMAIN sync.rows
    /\ node \in [Hashes -> Outgoing]

\* A payment is never given back to the payer while the node may still make
\* it, nor after it has (a late answer, a stale snapshot of the task).
NeverRefundedAndSent ==
    \A h \in DOMAIN payment :
        payment[h].status = "Canceled" =>
            node[h].state \in {"none", "rejected", "failed"}

\* A payment charged, not one between accounts, was made by the node, and is
\* charged what it cost: the amount, the fee of the route and the service fee.
ChargedWhatItCost ==
    \A h \in DOMAIN payment :
        payment[h].status = "Paid" /\ ~payment[h].internal =>
            /\ node[h].state = "succeeded"
            /\ payment[h].total = Amount[h] + node[h].fee
                                    + ServiceFee(Amount[h])

\* The node is asked once for each payment, and only while its whole cost is
\* locked: no interleaving of handlers pays an invoice twice.
AskedOnceAndFunded ==
    \A w \in DOMAIN job :
        job[w].pc = "pay" =>
            /\ node[job[w].hash].state = "none"
            /\ payment[job[w].hash].status = "Unpaid"
            /\ payment[job[w].hash].user_id = job[w].user_id
            /\ payment[job[w].hash].lock_amount = Total(job[w].hash)

\* What the handlers, the task and the node know of each other.  A handler past
\* its lock owns the row of its payment and no other handler has that payment;
\* the node has not been asked before it is, and is done with a payment that
\* is refunded or charged.
Owns(u, h) == h \in DOMAIN payment /\ payment[h].user_id = u

JobAgrees(w) ==
    LET h == job[w].hash
    IN  /\ Owns(job[w].user_id, h)
        /\ \A v \in DOMAIN job \ {w} : job[v].hash = h => job[v].pc = "lock"
        /\ job[w].pc = "pay" =>
                node[h].state = "none" /\ payment[h].status = "Unpaid"
        /\ job[w].pc \in {"lookup", "refund"} =>
                LateStart \/ node[h].state # "queued"
        /\ job[w].pc = "refund" =>
                LateStart \/ Retries \/ node[h].state \notin {"inflight", "succeeded"}
        /\ job[w].pc \in {"read", "charge"} =>
                node[h].state = "succeeded" /\ job[w].fee = node[h].fee

JobsAgree == \A w \in DOMAIN job : job[w].pc # "lock" => JobAgrees(w)

SyncAgrees ==
    /\ \A h \in DOMAIN sync.rows :
        /\ Owns(sync.rows[h].user_id, h)
        /\ sync.rows[h].lock_amount = Total(h)
        /\ sync.rows[h].service_fee = ServiceFee(Amount[h])
        /\ sync.pc \in {"items", "charge"} =>
                node[h].state \in {"succeeded", "failed"}
    /\ sync.pc = "charge" =>
            node[sync.hash].state = "succeeded" /\ sync.fee = node[sync.hash].fee

NodeAgrees ==
    \A h \in Hashes :
        /\ node[h].fee <= MaxFee(Amount[h])
        /\ node[h].state # "none" => h \in DOMAIN payment

\* The inductive invariant: the ledger of the store, the knowledge above and
\* the two properties of settled payments.
Consistent ==
    /\ TypeOK /\ Ledger
    /\ JobsAgree /\ SyncAgrees /\ NodeAgrees
    /\ ~LateStart /\ ~Retries => NeverRefundedAndSent
    /\ ChargedWhatItCost

\* A settled payment is settled for good: no later step of a handler or of
\* the task touches its row, or records a charge for it, again.
SettledForGood ==
    [][\A h \in DOMAIN payment :
            payment[h].status # "Unpaid" =>
                /\ payment'[h] = payment[h]
                /\ \A u \in Users : record'[u] # record[u]
                                    => Last(record'[u]).hash # h]_vars

\* What the node has succeeded in sending is charged, and (cln.rs) what has
\* failed is given back, whatever became of the handler.
SucceededIsCharged ==
    \A h \in Hashes :
        node[h].state = "succeeded" ~> h \in DOMAIN payment /\ payment[h].status = "Paid"

FailedIsRefunded ==
    \A h \in Hashes :
        node[h].state = "failed" ~> h \in DOMAIN payment /\ payment[h].status = "Canceled"

\* service.rs leaves a payment whose outcome the handler does not learn with
\* the comment "will handle by the task": then every payment is settled.
EveryPaymentSettled ==
    \A h \in Hashes :
        h \in Pending ~> h \notin Pending
=============================================================================
