--------------------------- MODULE PaymentsProofs ---------------------------
(***************************************************************************)
(* Proofs about Payments, for any accounts, invoices, amounts, fees,       *)
(* number of handlers and number of faults.                                *)
(***************************************************************************)
EXTENDS Payments, StoreProofs

----------------------------------------------------------------------------
(* Type correctness.                                                       *)

\* The sleeping task is well typed.
LEMMA IdleType ==
    Idle \in Sync(Idle.rows) /\ IsTable(Idle.rows, Hashes, Payment)
  BY EmptyTable DEF Idle, Sync

\* The initial states are well typed.
LEMMA InitType == ASSUME Init PROVE TypeOK
<1>1. StoreTypeOK
  BY StoreInitType DEF Init
<1>2. IsTable(job, Workers, Job)
  BY EmptyTable DEF Init
<1>3. /\ sync \in Sync(sync.rows) /\ IsTable(sync.rows, Hashes, Payment)
      /\ sync.pc # "charge"
  BY IdleType DEF Init, Idle
<1>4. node \in [Hashes -> Outgoing]
  BY DEF Init, Outgoing
<1> QED
  BY <1>1, <1>2, <1>3, <1>4 DEF TypeOK

(* A handler that returns leaves the others as they were; one that goes on *)
(* keeps its type.                                                         *)
LEMMA ReturnType ==
    ASSUME IsTable(job, Workers, Job), NEW w, Return(w)
    PROVE  IsTable(job', Workers, Job)
  BY DEF IsTable, Return

\* A handler that goes on to its next call stays well typed.
LEMMA GotoType ==
    ASSUME IsTable(job, Workers, Job), NEW w,
           NEW pc \in {"lock", "pay", "paying", "lookup", "refund", "read",
                       "charge"},
           Goto(w, pc)
    PROVE  IsTable(job', Workers, Job)
<1> DEFINE next == [job[w] EXCEPT !.pc = pc]
<1>1. job' = [job EXCEPT ![w] = next]
  BY DEF Goto
<1>2. w \in DOMAIN job => next \in Job
  <2>1. w \in DOMAIN job => job[w] \in Job
    BY DEF IsTable
  <2> QED
    BY <2>1 DEF Job
<1> QED
  BY <1>1, <1>2, UpdateTable

(* A handler that goes on with something it has read keeps its type. *)
LEMMA AnswerType ==
    ASSUME IsTable(job, Workers, Job), NEW w \in DOMAIN job
    PROVE  /\ \A fee \in Nat : IsTable([job EXCEPT ![w].pc = "read",
                                                  ![w].fee = fee], Workers, Job)
           /\ \A seen \in Int : IsTable([job EXCEPT ![w].pc = "charge",
                                                   ![w].seen = seen], Workers, Job)
<1>1. ASSUME NEW fee \in Nat
      PROVE  IsTable([job EXCEPT ![w].pc = "read", ![w].fee = fee], Workers, Job)
  <2> DEFINE next == [job EXCEPT ![w].pc = "read", ![w].fee = fee]
  <2>1. DOMAIN next = DOMAIN job /\ \A v \in DOMAIN job : next[v] \in Job
    BY DEF IsTable, Job
  <2> QED
    BY <2>1 DEF IsTable
<1>2. ASSUME NEW seen \in Int
      PROVE  IsTable([job EXCEPT ![w].pc = "charge", ![w].seen = seen], Workers, Job)
  <2> DEFINE next == [job EXCEPT ![w].pc = "charge", ![w].seen = seen]
  <2>1. DOMAIN next = DOMAIN job /\ \A v \in DOMAIN job : next[v] \in Job
    BY DEF IsTable, Job
  <2> QED
    BY <2>1 DEF IsTable
<1> QED
  BY <1>1, <1>2

(* The loop drops a payment from its snapshot. *)
LEMMA RestType ==
    ASSUME IsTable(sync.rows, Hashes, Payment), NEW h
    PROVE  IsTable(Rest(h), Hashes, Payment)
  BY DEF IsTable, Rest

(* The rows a settlement works from are typed as it expects them. *)
LEMMA ModelType ==
    ASSUME TypeOK, NEW w \in DOMAIN job
    PROVE  /\ job[w] \in Job
           /\ Model(w).user_id \in Users
           /\ Model(w).lock_amount \in Nat
           /\ Model(w).service_fee \in Nat
<1>1. job[w] \in Job
  BY DEF TypeOK, IsTable
<1>2. job[w].user_id \in Users /\ job[w].hash \in Hashes
  BY <1>1 DEF Job
<1> QED
  BY <1>1, <1>2, TotalsArePositive, FeesAreNat DEF Model

\* The row a handler works on is a row of the table.
LEMMA RowType ==
    ASSUME TypeOK, NEW h \in DOMAIN sync.rows
    PROVE  /\ h \in Hashes
           /\ sync.rows[h] \in Payment
           /\ sync.rows[h].user_id \in Users
           /\ sync.rows[h].lock_amount \in Nat
           /\ sync.rows[h].service_fee \in Nat
  BY DEF TypeOK, IsTable, Payment

(* Every step of a handler keeps the types. *)
LEMMA HandlerType ==
    ASSUME TypeOK, NEW w \in Workers, Handler(w)
    PROVE  TypeOK'
<1> USE DEF TypeOK, StoreTypeOK
<1>0. w \in DOMAIN job /\ job[w] \in Job
  BY ModelType DEF Handler
<1>1. CASE Lock(w)
  <2> DEFINE u == job[w].user_id
             h == job[w].hash
  <2>1. u \in Users /\ h \in Hashes
    BY <1>0 DEF Job
  <2>2. TablesOK'
    BY <1>1, <2>1, LockBalanceType DEF Lock, TablesOK, store
  <2>3. IsTable(job', Workers, Job)
    BY <1>1, GotoType, ReturnType DEF Lock
  <2> QED
    BY <1>1, <2>2, <2>3 DEF Lock
<1>2. CASE Pay(w)
  <2>1. IsTable(job', Workers, Job)
    BY <1>2, GotoType DEF Pay
  <2>2. node' \in [Hashes -> Outgoing]
    BY <1>2 DEF Pay, Outgoing
  <2> QED
    BY <1>2, <2>1, <2>2 DEF Pay, store, TablesOK
<1>3. CASE PayReturns(w)
  BY <1>3, GotoType, ReturnType DEF PayReturns, store, TablesOK
<1>4. CASE Lookup(w)
  <2>1. IsTable(job', Workers, Job)
    <3>1. CASE Goto(w, "refund")
      BY <3>1, GotoType
    <3>2. CASE Return(w)
      BY <3>2, ReturnType
    <3>3. CASE job' = [job EXCEPT ![w].pc = "read",
                                  ![w].fee = node[job[w].hash].fee]
      <4>1. node[job[w].hash].fee \in Nat
        BY <1>0 DEF Outgoing, Job
      <4> QED
        BY <1>0, <3>3, <4>1, AnswerType
    <3> QED
      BY <1>4, <3>1, <3>2, <3>3 DEF Lookup
  <2> QED
    BY <1>4, <2>1 DEF Lookup, store, TablesOK
<1>5. CASE Refund(w)
  <2>1. job[w].hash \in Hashes
    BY <1>0 DEF Job
  <2>2. TablesOK'
    BY <1>0, <1>5, <2>1, ModelType, PayFailedType DEF Refund, TablesOK, store
  <2> QED
    BY <1>5, <2>2, ReturnType DEF Refund
<1>6. CASE ReadUser(w)
  <2>1. user[job[w].user_id].balance \in Int
    BY <1>0 DEF TablesOK, User, Job
  <2>2. IsTable(job', Workers, Job)
    BY <1>0, <1>6, <2>1, AnswerType DEF ReadUser
  <2> QED
    BY <1>6, <2>2 DEF ReadUser, store, TablesOK
<1>7. CASE Charge(w)
  <2>1. job[w].hash \in Hashes /\ job[w].fee \in Nat /\ job[w].seen \in Int
    BY <1>0 DEF Job
  <2>2. TablesOK'
    BY <1>0, <1>7, <2>1, ModelType, PaySuccessType DEF Charge, TablesOK, store
  <2> QED
    BY <1>7, <2>2, ReturnType DEF Charge
<1> QED
  BY <1>1, <1>2, <1>3, <1>4, <1>5, <1>6, <1>7 DEF Handler

(* Every step of the task keeps the types. *)
LEMMA SyncType ==
    ASSUME TypeOK, SyncTask
    PROVE  TypeOK'
<1> DEFINE SyncOK ==
            sync \in Sync(sync.rows) /\ IsTable(sync.rows, Hashes, Payment)
<1> USE DEF TypeOK, StoreTypeOK
<1>1. CASE SyncRead
  <2>1. ASSUME Pending # {}
        PROVE  SyncOK' /\ sync'.pc # "charge"
    <3>1. IsTable([h \in Pending |-> payment[h]], Hashes, Payment)
      BY DEF TablesOK, IsTable, Pending
    <3> DEFINE rows == [h \in Pending |-> payment[h]]
    <3>2. sync' = [Idle EXCEPT !.pc = "list", !.rows = rows]
      BY <1>1, <2>1 DEF SyncRead
    <3> HIDE DEF rows
    <3>3. sync' = [pc |-> "list", rows |-> rows, hash |-> "none",
                   fee |-> 0, seen |-> 0]
      BY <3>2 DEF Idle
    <3>4. sync'.rows = rows /\ sync'.pc = "list"
      BY <3>3
    <3>5. sync' \in Sync(rows)
      BY <3>3 DEF Sync
    <3>6. IsTable(rows, Hashes, Payment)
      BY <3>1 DEF rows
    <3> QED
      BY <3>4, <3>5, <3>6
  <2>2. SyncOK' /\ (sync'.pc = "charge" => sync'.hash \in DOMAIN sync'.rows)
    BY <1>1, <2>1 DEF SyncRead
  <2> QED
    BY <1>1, <2>2 DEF SyncRead, store, TablesOK
<1>2. CASE SyncList
  <2>1. PICK first \in DOMAIN sync.rows :
            LET todo == {h \in DOMAIN sync.rows \cap Listed(GeneratedAt[first]) :
                            node[h].state \in {"succeeded", "failed"}}
            IN  sync' = [sync EXCEPT !.pc = "items",
                                     !.rows = [h \in todo |-> sync.rows[h]]]
    BY <1>2 DEF SyncList
  <2> DEFINE todo == {h \in DOMAIN sync.rows \cap Listed(GeneratedAt[first]) :
                            node[h].state \in {"succeeded", "failed"}}
             rows == [h \in todo |-> sync.rows[h]]
  <2>3. todo \subseteq DOMAIN sync.rows
    OBVIOUS
  <2>4. sync' = [sync EXCEPT !.pc = "items", !.rows = rows]
    BY <2>1
  <2> HIDE DEF todo
  <2>5. IsTable(rows, Hashes, Payment)
    BY <2>3 DEF IsTable
  <2> HIDE DEF rows
  <2>6. SyncOK' /\ sync'.pc # "charge"
    BY <2>4, <2>5 DEF Sync
  <2> QED
    BY <1>2, <2>6 DEF SyncList, store, TablesOK
<1>3. CASE SyncCharge
  <2> DEFINE h == sync.hash
  <2>1. h \in DOMAIN sync.rows /\ sync.fee \in Nat /\ sync.seen \in Int
    BY <1>3 DEF SyncCharge, Sync
  <2>2. TablesOK'
    BY <1>3, <2>1, RowType, PaySuccessType DEF SyncCharge, TablesOK, store
  <2>3. SyncOK' /\ sync'.pc # "charge"
    BY <1>3, RestType, IdleType DEF SyncCharge, Sync, Idle
  <2> QED
    BY <1>3, <2>2, <2>3 DEF SyncCharge
<1>4. CASE SyncDone
  BY <1>4, IdleType DEF SyncDone, store, TablesOK, Idle
<1>5. ASSUME NEW h \in Hashes, SyncRefund(h)
      PROVE  TypeOK'
  <2>1. TablesOK'
    BY <1>5, RowType, PayFailedType DEF SyncRefund, TablesOK, store
  <2>2. SyncOK' /\ sync'.pc # "charge"
    BY <1>5, RestType DEF SyncRefund, Sync
  <2> QED
    BY <1>5, <2>1, <2>2 DEF SyncRefund
<1>6. ASSUME NEW h \in Hashes, SyncReadUser(h)
      PROVE  TypeOK'
  <2> DEFINE fee  == node[h].fee
             seen == user[sync.rows[h].user_id].balance
  <2>1. fee \in Nat
    BY DEF Outgoing
  <2>2. seen \in Int
    BY <1>6, RowType DEF SyncReadUser, TablesOK, User
  <2>3. sync' = [sync EXCEPT !.pc = "charge", !.hash = h, !.fee = fee,
                             !.seen = seen]
    BY <1>6 DEF SyncReadUser
  <2> HIDE DEF fee, seen
  <2>4. SyncOK' /\ sync'.hash = h /\ sync'.rows = sync.rows
    BY <2>1, <2>2, <2>3 DEF Sync
  <2> QED
    BY <1>6, <2>4 DEF SyncReadUser, store, TablesOK
<1> QED
  BY <1>1, <1>2, <1>3, <1>4, <1>5, <1>6 DEF SyncTask

\* Every step keeps the types.
LEMMA StepType ==
    ASSUME TypeOK, [Next]_vars
    PROVE  TypeOK'
<1> USE DEF TypeOK, StoreTypeOK
<1>1. ASSUME NEW w \in Workers, NEW u \in Users, NEW h \in Hashes,
             NEW ignore \in BOOLEAN, Begin(w, u, h, ignore)
      PROVE  TypeOK'
  <2> DEFINE new == [pc |-> "lock", user_id |-> u, hash |-> h,
                     ignore_result |-> ignore, fee |-> 0, seen |-> 0]
  <2>1. new \in Job
    BY DEF Job
  <2>2. job' = Insert(job, w, new)
    BY <1>1 DEF Begin
  <2> HIDE DEF new
  <2>3. IsTable(job', Workers, Job)
    BY <2>1, <2>2, InsertTable
  <2> QED
    BY <1>1, <2>3 DEF Begin, store, TablesOK
<1>2. ASSUME NEW w \in Workers, Handler(w)
      PROVE  TypeOK'
  BY <1>2, HandlerType
<1>3. ASSUME faults < MaxFaults, faults' = faults + 1
      PROVE  faults' \in 0..MaxFaults
  BY <1>3, StoreAssumption
<1>4. ASSUME NEW w \in Workers, PayFails(w)
      PROVE  TypeOK'
  <2>1. IsTable(job', Workers, Job)
    BY <1>4, GotoType, ReturnType DEF PayFails
  <2> QED
    BY <1>3, <1>4, <2>1 DEF PayFails, store, TablesOK
<1>5. ASSUME NEW w \in Workers, Abandon(w)
      PROVE  TypeOK'
  BY <1>3, <1>5, ReturnType DEF Abandon, store, TablesOK
<1>6. CASE SyncTask
  BY <1>6, SyncType
<1>7. CASE SyncFails
  <2>1. ASSUME NEW h \in DOMAIN sync.rows,
               sync' = [Idle EXCEPT !.pc = "items", !.rows = Rest(h)]
        PROVE  /\ sync' \in Sync(sync'.rows) /\ sync'.pc = "items"
               /\ IsTable(sync'.rows, Hashes, Payment)
    <3>1. IsTable(Rest(h), Hashes, Payment)
      BY RestType
    <3>2. sync' = [pc |-> "items", rows |-> Rest(h), hash |-> "none",
                   fee |-> 0, seen |-> 0]
      BY <2>1 DEF Idle
    <3>3. sync' \in Sync(Rest(h)) /\ sync'.rows = Rest(h)
      BY <3>2 DEF Sync
    <3> QED
      BY <3>1, <3>2, <3>3
  <2>2. UNCHANGED <<store, job, node>> /\ faults' \in 0..MaxFaults
    BY <1>3, <1>7 DEF SyncFails
  <2>3. /\ sync' \in Sync(sync'.rows) /\ sync'.pc # "charge"
        /\ IsTable(sync'.rows, Hashes, Payment)
    <3>1. CASE sync' = Idle
      BY <3>1, IdleType DEF Idle
    <3> QED
      BY <1>7, <2>1, <3>1 DEF SyncFails
  <2> QED
    BY <2>2, <2>3 DEF store, TablesOK
<1>8. ASSUME NEW h \in Hashes, Node(h)
      PROVE  TypeOK'
  <2>1. node' \in [Hashes -> Outgoing]
    <3>1. ASSUME NEW fee \in 0..MaxFee(Amount[h])
          PROVE  fee \in Nat
      BY FeesAreNat
    <3> QED
      BY <1>8, <3>1 DEF Node, NodeStarts, NodeEnds, Outgoing
  <2> QED
    BY <1>8, <2>1 DEF Node, NodeStarts, NodeEnds, store, TablesOK
<1>9. CASE Crash
  BY <1>3, <1>9, IdleType, EmptyTable DEF Crash, store, TablesOK, Idle
<1>10. CASE UNCHANGED vars
  BY <1>10 DEF vars, payVars, store, TablesOK
<1> QED
  BY <1>1, <1>2, <1>4, <1>5, <1>6, <1>7, <1>8, <1>9, <1>10 DEF Next

(* Every behaviour keeps every variable in its type: among others, amounts  *)
(* and locks stored in a payment's row never go below zero.                *)
THEOREM TypeCorrect == Spec => []TypeOK
<1>1. Init => TypeOK
  BY InitType
<1>2. TypeOK /\ [Next]_vars => TypeOK'
  BY StepType
<1> QED
  BY <1>1, <1>2, PTL DEF Spec

----------------------------------------------------------------------------
(* The inductive invariant.                                                *)

(* What a step must keep for those that do not take part in it.            *)
OwnersKept ==
    \A h \in DOMAIN payment :
        h \in DOMAIN payment' /\ payment'[h].user_id = payment[h].user_id

AnswersKept ==
    \A h \in Hashes :
        node[h].state \in {"succeeded", "failed"} => node'[h] = node[h]

(* The step of a handler as the other handlers see it. *)
JobStep(w) ==
    /\ DOMAIN job' \subseteq DOMAIN job
    /\ \A v \in DOMAIN job' \ {w} : job'[v] = job[v]
    /\ w \in DOMAIN job' =>
            job'[w].hash = job[w].hash /\ job'[w].user_id = job[w].user_id

Settled ==
    (~LateStart /\ ~Retries => NeverRefundedAndSent) /\ ChargedWhatItCost

\* The initial states are consistent.
LEMMA InitConsistent == ASSUME Init PROVE Consistent
<1>1. TypeOK /\ Ledger
  BY InitType, InitLedger DEF Init
<1>2. DOMAIN payment = {} /\ DOMAIN job = {}
  BY EmptyTable DEF Init, StoreInit
<1>3. DOMAIN sync.rows = {} /\ sync.pc = "idle"
  BY EmptyTable DEF Init, Idle
<1>4. NodeAgrees
  BY FeesAreNat DEF Init, NodeAgrees
<1> QED
  BY <1>1, <1>2, <1>3, <1>4
     DEF Consistent, JobsAgree, SyncAgrees, NeverRefundedAndSent,
         ChargedWhatItCost

(* A step that leaves the tables and the node alone. *)
LEMMA TablesAndNodeKept ==
    ASSUME Consistent, UNCHANGED <<store, node>>
    PROVE  /\ Ledger' /\ NodeAgrees' /\ Settled'
           /\ OwnersKept /\ AnswersKept
<1>1. UNCHANGED <<user, payment, node>>
  BY DEF store
<1>2. Ledger'
  BY <1>1 DEF Consistent, Ledger, RowsAgree, LockedFunds, NoOverdraft
<1> QED
  BY <1>1, <1>2 DEF Consistent, NodeAgrees, Settled, NeverRefundedAndSent,
                    ChargedWhatItCost, OwnersKept, AnswersKept

\* What the task knows survives a step that leaves it, the node and the owners
\* of the payments alone.
LEMMA SyncKept ==
    ASSUME TypeOK, SyncAgrees, OwnersKept, AnswersKept, UNCHANGED sync
    PROVE  SyncAgrees'
<1>1. \A h \in DOMAIN sync.rows : h \in Hashes
  BY RowType
<1>2. sync.pc = "charge" => sync.hash \in Hashes
  BY <1>1 DEF TypeOK
<1> QED
  BY <1>1, <1>2 DEF SyncAgrees, OwnersKept, AnswersKept, Owns

(* The other handlers still agree after a step of w with its payment. *)
LEMMA OthersAgree ==
    ASSUME TypeOK, JobsAgree, NEW w \in DOMAIN job, job[w].pc # "lock",
           JobStep(w), OwnersKept,
           \A g \in Hashes \ {job[w].hash} :
                /\ node'[g] = node[g]
                /\ g \in DOMAIN payment => payment'[g].status = payment[g].status
    PROVE  /\ \A v \in DOMAIN job' \ {w} :
                    job'[v].hash = job[w].hash => job'[v].pc = "lock"
           /\ \A v \in DOMAIN job' \ {w} : job'[v].pc # "lock" => JobAgrees(v)'
<1>1. \A v \in DOMAIN job \ {w} : job[v].hash = job[w].hash => job[v].pc = "lock"
  BY DEF JobsAgree, JobAgrees
<1>2. \A v \in DOMAIN job' \ {w} :
            job'[v].hash = job[w].hash => job'[v].pc = "lock"
  BY <1>1 DEF JobStep
<1>3. ASSUME NEW v \in DOMAIN job' \ {w}, job'[v].pc # "lock"
      PROVE  JobAgrees(v)'
  <2> DEFINE h == job[v].hash
  <2>1. v \in DOMAIN job /\ job'[v] = job[v] /\ JobAgrees(v)
    BY <1>3 DEF JobStep, JobsAgree
  <2>2. h \in Hashes \ {job[w].hash} /\ h \in DOMAIN payment
    <3>1. job[v] \in Job
      BY <2>1, ModelType
    <3> QED
      BY <1>2, <1>3, <2>1, <3>1 DEF Job, JobAgrees, Owns
  <2>3. /\ node'[h] = node[h] /\ payment'[h].status = payment[h].status
        /\ h \in DOMAIN payment' /\ payment'[h].user_id = payment[h].user_id
    BY <2>2 DEF OwnersKept
  <2>4. \A x \in DOMAIN job' \ {v} : job'[x].hash = h => job'[x].pc = "lock"
    <3>1. ASSUME NEW x \in DOMAIN job' \ {v}, job'[x].hash = h
          PROVE  job'[x].pc = "lock"
      <4>1. x # w
        BY <2>2, <3>1 DEF JobStep
      <4> QED
        BY <2>1, <3>1, <4>1 DEF JobStep, JobAgrees
    <3> QED
      BY <3>1
  <2> HIDE DEF h
  <2>5. job'[v].hash = h /\ job[v].hash = h
    BY <2>1 DEF h
  <2> QED
    BY <2>1, <2>3, <2>4, <2>5 DEF JobAgrees, Owns
<1> QED
  BY <1>2, <1>3

(* A handler that returns, with the tables and the node as they were. *)
LEMMA ReturnConsistent ==
    ASSUME Consistent, TypeOK', NEW w \in DOMAIN job, Return(w),
           UNCHANGED <<store, sync, node>>
    PROVE  Consistent'
<1>1. Ledger' /\ NodeAgrees' /\ Settled' /\ OwnersKept /\ AnswersKept
  BY TablesAndNodeKept
<1>2. SyncAgrees'
  BY <1>1, SyncKept DEF Consistent
<1>3. JobsAgree'
  BY DEF Consistent, Return, JobsAgree, JobAgrees, Owns, store
<1> QED
  BY <1>1, <1>2, <1>3 DEF Consistent, Settled

\* A handler that goes on changes its own position only.
LEMMA GotoEffect ==
    ASSUME TypeOK, NEW w \in DOMAIN job, NEW pc, Goto(w, pc)
    PROVE  /\ DOMAIN job' = DOMAIN job /\ JobStep(w)
           /\ job'[w].pc = pc /\ job'[w].fee = job[w].fee
           /\ job'[w].hash = job[w].hash /\ job'[w].user_id = job[w].user_id
<1>1. job[w] \in Job
  BY ModelType
<1> QED
  BY <1>1 DEF Goto, JobStep, Job

\* A handler that returns leaves the others where they are.
LEMMA ReturnEffect ==
    ASSUME NEW w \in DOMAIN job, Return(w)
    PROVE  DOMAIN job' = DOMAIN job \ {w} /\ JobStep(w)
  BY DEF Return, JobStep

(* A handler past its lock goes on, with the tables and the node as they   *)
(* were.                                                                   *)
LEMMA GoesOnConsistent ==
    ASSUME Consistent, TypeOK', NEW w \in DOMAIN job, job[w].pc # "lock",
           JobStep(w), UNCHANGED <<store, sync, node>>,
           w \in DOMAIN job',
           job'[w].pc \notin {"lock", "pay"},
           LET h == job[w].hash
           IN  /\ job'[w].pc \in {"lookup", "refund"} =>
                        LateStart \/ node[h].state # "queued"
               /\ job'[w].pc = "refund" =>
                        \/ LateStart \/ Retries
                        \/ node[h].state \notin {"inflight", "succeeded"}
               /\ job'[w].pc \in {"read", "charge"} =>
                        node[h].state = "succeeded" /\ job'[w].fee = node[h].fee
    PROVE  Consistent'
<1>1. Ledger' /\ NodeAgrees' /\ Settled' /\ OwnersKept /\ AnswersKept
  BY TablesAndNodeKept
<1>2. SyncAgrees'
  BY <1>1, SyncKept DEF Consistent
<1>3. JobsAgree'
  <2>1. payment' = payment /\ node' = node
    BY DEF store
  <2>2. /\ \A v \in DOMAIN job' \ {w} :
                    job'[v].hash = job[w].hash => job'[v].pc = "lock"
        /\ \A v \in DOMAIN job' \ {w} : job'[v].pc # "lock" => JobAgrees(v)'
    BY <1>1, <2>1, OthersAgree DEF Consistent
  <2>3. job'[w].hash = job[w].hash /\ job'[w].user_id = job[w].user_id
    BY DEF JobStep
  <2>4. JobAgrees(w)
    BY DEF Consistent, JobsAgree
  <2>5. JobAgrees(w)'
    BY <2>1, <2>2, <2>3, <2>4 DEF JobAgrees, Owns
  <2> QED
    BY <2>2, <2>5 DEF JobsAgree
<1> QED
  BY <1>1, <1>2, <1>3 DEF Consistent, Settled

(* A step of w with its payment that settles it and returns. *)
LEMMA SettlesConsistent ==
    ASSUME Consistent, TypeOK', NEW w \in DOMAIN job, job[w].pc # "lock",
           Return(w), UNCHANGED <<sync, node>>, Ledger', Settled', OwnersKept,
           \A g \in DOMAIN payment \ {job[w].hash} :
                payment'[g].status = payment[g].status
    PROVE  Consistent'
<1>1. AnswersKept
  BY DEF AnswersKept
<1>2. SyncAgrees'
  BY <1>1, SyncKept DEF Consistent
<1>3. NodeAgrees'
  BY DEF Consistent, NodeAgrees, OwnersKept
<1>4. DOMAIN job' = DOMAIN job \ {w} /\ JobStep(w)
  BY ReturnEffect
<1>5. JobsAgree'
  BY <1>4, OthersAgree DEF Consistent, JobsAgree
<1> QED
  BY <1>2, <1>3, <1>5 DEF Consistent, Settled

\* The transaction that locks the balance keeps the invariant: the unique index
\* makes its handler the only one past the lock for that payment.
LEMMA LockConsistent ==
    ASSUME Consistent, TypeOK', NEW w \in DOMAIN job, Lock(w)
    PROVE  Consistent'
<1> DEFINE u == job[w].user_id
           h == job[w].hash
<1>1. u \in Users /\ h \in Hashes /\ job[w].pc = "lock"
  BY ModelType DEF Consistent, Job, Lock
<1>2. CASE UNCHANGED store /\ Return(w)
  BY <1>2, ReturnConsistent DEF Lock
<1>3. CASE LockBalanceMatches(u, h) /\ LockBalance(u, h) /\ Goto(w, "pay")
  <2>1. /\ h \notin DOMAIN payment
        /\ DOMAIN payment' = DOMAIN payment \cup {h}
        /\ payment'[h].user_id = u /\ payment'[h].status = "Unpaid"
        /\ \A g \in DOMAIN payment : payment'[g] = payment[g]
    BY <1>3, LockBalanceRows
  <2>2. node' = node /\ sync' = sync
    BY DEF Lock
  <2>3. OwnersKept /\ AnswersKept
    BY <2>1, <2>2 DEF OwnersKept, AnswersKept
  <2>4. Ledger'
    BY <1>1, <1>3, LockBalanceLedger DEF Consistent, TypeOK, StoreTypeOK
  <2>5. SyncAgrees'
    BY <2>2, <2>3, SyncKept DEF Consistent
  <2>6. NodeAgrees'
    BY <2>1, <2>2 DEF Consistent, NodeAgrees
  <2>7. Settled'
    BY <2>1, <2>2 DEF Consistent, Settled, NeverRefundedAndSent,
                      ChargedWhatItCost
  <2>8. /\ DOMAIN job' = DOMAIN job /\ JobStep(w)
        /\ job'[w].pc = "pay" /\ job'[w].hash = h /\ job'[w].user_id = u
    BY <1>3, GotoEffect DEF Consistent
  <2>9. ASSUME NEW v \in DOMAIN job \ {w}, job[v].pc # "lock"
        PROVE  job[v].hash # h /\ JobAgrees(v)'
    <3>1. JobAgrees(v)
      BY <2>9 DEF Consistent, JobsAgree
    <3>2. job[v].hash \in DOMAIN payment /\ job[v].hash # h
      BY <2>1, <3>1 DEF JobAgrees, Owns
    <3>3. job'[v] = job[v]
      BY <2>8 DEF JobStep
    <3>4. \A x \in DOMAIN job' \ {v} :
                job'[x].hash = job[v].hash => job'[x].pc = "lock"
      BY <2>8, <3>1, <3>2 DEF JobStep, JobAgrees
    <3>5. payment'[job[v].hash] = payment[job[v].hash]
      BY <2>1, <3>2
    <3> QED
      BY <2>1, <2>2, <3>1, <3>2, <3>3, <3>4, <3>5 DEF JobAgrees, Owns
  <2>10. node[h].state = "none"
    BY <1>1, <2>1 DEF Consistent, NodeAgrees
  <2>11. JobAgrees(w)'
    BY <2>1, <2>2, <2>8, <2>9, <2>10 DEF JobAgrees, Owns, JobStep
  <2>12. JobsAgree'
    BY <2>8, <2>9, <2>11 DEF JobsAgree, JobStep
  <2> QED
    BY <2>4, <2>5, <2>6, <2>7, <2>12 DEF Consistent, Settled
<1> QED
  BY <1>2, <1>3 DEF Lock

\* Asking the node keeps the invariant: no other handler holds the payment.
LEMMA PayConsistent ==
    ASSUME Consistent, TypeOK', NEW w \in DOMAIN job, Pay(w)
    PROVE  Consistent'
<1> DEFINE h == job[w].hash
<1>1. job[w] \in Job /\ job[w].pc = "pay" /\ h \in Hashes
  BY ModelType DEF Consistent, Job, Pay
<1>2. JobAgrees(w) /\ node[h].state = "none" /\ payment[h].status = "Unpaid"
      /\ h \in DOMAIN payment
  BY <1>1 DEF Consistent, JobsAgree, JobAgrees, Owns
<1>3. UNCHANGED <<user, payment, sync>>
  BY DEF Pay, store
<1>4. /\ \A g \in Hashes \ {h} : node'[g] = node[g]
      /\ node'[h].state = "queued" /\ node'[h].fee = node[h].fee
  <2>1. node[h] \in Outgoing /\ node \in [Hashes -> Outgoing]
    BY <1>1 DEF Consistent, TypeOK
  <2> QED
    BY <1>1, <2>1 DEF Pay, Outgoing
<1>5. OwnersKept /\ AnswersKept
  BY <1>2, <1>3, <1>4 DEF OwnersKept, AnswersKept
<1>6. Ledger'
  BY <1>3 DEF Consistent, Ledger, RowsAgree, LockedFunds, NoOverdraft
<1>7. SyncAgrees'
  BY <1>3, <1>5, SyncKept DEF Consistent
<1>8. NodeAgrees'
  BY <1>2, <1>3, <1>4 DEF Consistent, NodeAgrees
<1>9. Settled'
  <2>1. \A g \in DOMAIN payment : g \in Hashes
    BY DEF Consistent, TypeOK, StoreTypeOK, TablesOK, IsTable
  <2>2. \A g \in DOMAIN payment : payment[g].status # "Unpaid" => g # h
    BY <1>2
  <2> HIDE DEF h
  <2> QED
    BY <1>3, <1>4, <2>1, <2>2
       DEF Consistent, Settled, NeverRefundedAndSent, ChargedWhatItCost
<1>10. JobsAgree'
  <2>1. /\ DOMAIN job' = DOMAIN job /\ JobStep(w)
        /\ job'[w].pc = "paying" /\ job'[w].hash = h
        /\ job'[w].user_id = job[w].user_id
    BY GotoEffect DEF Consistent, Pay
  <2>2. /\ \A v \in DOMAIN job' \ {w} :
                    job'[v].hash = h => job'[v].pc = "lock"
        /\ \A v \in DOMAIN job' \ {w} : job'[v].pc # "lock" => JobAgrees(v)'
    BY <1>1, <1>3, <1>4, <1>5, <2>1, OthersAgree DEF Consistent
  <2>3. JobAgrees(w)'
    BY <1>2, <1>3, <2>1, <2>2 DEF JobAgrees, Owns
  <2> QED
    BY <2>1, <2>2, <2>3 DEF JobsAgree
<1> QED
  BY <1>6, <1>7, <1>8, <1>9, <1>10 DEF Consistent, Settled

\* pay_failed, run by the handler, keeps the invariant: the node is done with the
\* payment or never had it.
LEMMA RefundConsistent ==
    ASSUME Consistent, TypeOK', NEW w \in DOMAIN job, Refund(w)
    PROVE  Consistent'
<1> DEFINE h == job[w].hash
           model == Model(w)
<1>1. job[w].pc = "refund" /\ JobAgrees(w)
  BY DEF Refund, Consistent, JobsAgree
<1>2. h \in DOMAIN payment /\ model.user_id = payment[h].user_id
  BY <1>1 DEF JobAgrees, Owns, Model
<1>3. CASE UNCHANGED store
  BY <1>3, ReturnConsistent DEF Refund
<1>4. CASE PayFailedMatches(h, model) /\ PayFailed(h, model)
  <2>1. TablesOK
    BY DEF Consistent, TypeOK, StoreTypeOK
  <2>2. Ledger'
    BY <1>2, <1>4, <2>1, PayFailedLedger DEF Consistent
  <2>3. /\ DOMAIN payment' = DOMAIN payment
        /\ payment'[h].user_id = payment[h].user_id
        /\ payment'[h].status = "Canceled"
        /\ \A g \in DOMAIN payment \ {h} : payment'[g] = payment[g]
    BY <1>2, <1>4, <2>1, PayFailedRows
  <2>4. OwnersKept
    BY <2>3 DEF OwnersKept
  <2>5. node' = node
    BY DEF Refund
  <2>6. LateStart \/ Retries \/ node[h].state \in {"none", "rejected", "failed"}
    <3>1. node[h] \in Outgoing
      BY <1>2, <2>1 DEF Consistent, TypeOK, TablesOK, IsTable
    <3> QED
      BY <1>1, <3>1 DEF JobAgrees, Outgoing
  <2>7. Settled'
    BY <2>3, <2>5, <2>6 DEF Consistent, Settled, NeverRefundedAndSent,
                            ChargedWhatItCost
  <2> QED
    BY <1>1, <2>2, <2>3, <2>4, <2>7, SettlesConsistent DEF Refund
<1> QED
  BY <1>3, <1>4 DEF Refund

\* pay_success, run by the handler, keeps the invariant: the fee it charges is
\* the one the node has paid.
LEMMA ChargeConsistent ==
    ASSUME Consistent, TypeOK', NEW w \in DOMAIN job, Charge(w)
    PROVE  Consistent'
<1> DEFINE h == job[w].hash
           model == Model(w)
           fee == job[w].fee
<1>1. job[w].pc = "charge" /\ JobAgrees(w) /\ job[w] \in Job
  BY ModelType DEF Charge, Consistent, JobsAgree
<1>2. /\ h \in DOMAIN payment /\ h \in Hashes
      /\ model.user_id = payment[h].user_id
      /\ model.lock_amount = Total(h)
      /\ model.service_fee = ServiceFee(Amount[h])
      /\ node[h].state = "succeeded" /\ fee = node[h].fee
  BY <1>1 DEF JobAgrees, Owns, Model, Job
<1>3. fee \in Nat /\ fee <= MaxFee(Amount[h])
  BY <1>1, <1>2 DEF Consistent, NodeAgrees, Job
<1>4. CASE UNCHANGED store
  BY <1>4, ReturnConsistent DEF Charge
<1>5. CASE PaySuccessMatches(h, model) /\ PaySuccess(h, model, fee, job[w].seen)
  <2>1. TablesOK
    BY DEF Consistent, TypeOK, StoreTypeOK
  <2>2. Ledger'
    BY <1>2, <1>3, <1>5, <2>1, PaySuccessLedger DEF Consistent
  <2>3. /\ DOMAIN payment' = DOMAIN payment
        /\ payment'[h].user_id = payment[h].user_id
        /\ payment'[h].status = "Paid"
        /\ payment'[h].total = Amount[h] + fee + ServiceFee(Amount[h])
        /\ \A g \in DOMAIN payment \ {h} : payment'[g] = payment[g]
    BY <1>2, <1>3, <1>5, <2>1, PaySuccessRows
  <2>4. OwnersKept
    BY <2>3 DEF OwnersKept
  <2>5. node' = node
    BY DEF Charge
  <2>6. Settled'
    BY <1>2, <2>3, <2>5 DEF Consistent, Settled, NeverRefundedAndSent,
                            ChargedWhatItCost
  <2> QED
    BY <1>1, <2>2, <2>3, <2>4, <2>6, SettlesConsistent DEF Charge
<1> QED
  BY <1>4, <1>5 DEF Charge

\* Every step of a handler keeps the invariant.
LEMMA HandlerConsistent ==
    ASSUME Consistent, TypeOK', NEW w \in Workers, Handler(w)
    PROVE  Consistent'
<1> USE DEF Consistent
<1>0. w \in DOMAIN job /\ job[w] \in Job /\ job[w].hash \in Hashes
  BY ModelType DEF Handler, Job
<1>a. job[w].pc # "lock" => JobAgrees(w)
  BY <1>0 DEF JobsAgree
<1>1. CASE Lock(w)
  BY <1>0, <1>1, LockConsistent
<1>2. CASE Pay(w)
  BY <1>0, <1>2, PayConsistent
<1>3. CASE PayReturns(w)
  <2>1. CASE Return(w)
    BY <1>0, <1>3, <2>1, ReturnConsistent DEF PayReturns
  <2>2. CASE Goto(w, "lookup")
    <3>1. /\ DOMAIN job' = DOMAIN job /\ JobStep(w) /\ job'[w].pc = "lookup"
      BY <1>0, <2>2, GotoEffect
    <3> QED
      BY <1>0, <1>3, <3>1, GoesOnConsistent DEF PayReturns
  <2> QED
    BY <1>3, <2>1, <2>2 DEF PayReturns
<1>4. CASE Lookup(w)
  <2> DEFINE pay == node[job[w].hash]
  <2>1. CASE /\ pay.state = "succeeded"
             /\ job' = [job EXCEPT ![w].pc = "read", ![w].fee = pay.fee]
    <3>1. job' = [job EXCEPT ![w].pc = "read", ![w].fee = pay.fee]
      BY <2>1
    <3> DEFINE fee == pay.fee
    <3>2. /\ DOMAIN job' = DOMAIN job /\ JobStep(w)
          /\ job'[w].pc = "read" /\ job'[w].fee = fee
      <4> HIDE DEF fee
      <4> QED
        BY <1>0, <3>1 DEF JobStep, Job, fee
    <3> QED
      BY <1>0, <1>4, <2>1, <3>2, GoesOnConsistent DEF Lookup
  <2>2. CASE /\ \/ pay.state \in {"failed", "none", "queued", "rejected"}
                \/ FirstFailed(pay)
             /\ Goto(w, "refund")
    <3>1. Goto(w, "refund")
      BY <2>2
    <3>2. DOMAIN job' = DOMAIN job /\ JobStep(w) /\ job'[w].pc = "refund"
      BY <1>0, <3>1, GotoEffect
    <3>3. LateStart \/ pay.state # "queued"
      BY <1>4, <1>a DEF Lookup, JobAgrees
    <3>4. Retries \/ pay.state \notin {"inflight", "succeeded"}
      BY <2>2 DEF FirstFailed
    <3> QED
      BY <1>0, <1>4, <3>2, <3>3, <3>4, GoesOnConsistent DEF Lookup
  <2>3. CASE Return(w)
    BY <1>0, <1>4, <2>3, ReturnConsistent DEF Lookup
  <2> QED
    BY <1>4, <2>1, <2>2, <2>3 DEF Lookup
<1>5. CASE Refund(w)
  BY <1>0, <1>5, RefundConsistent
<1>6. CASE ReadUser(w)
  <2> DEFINE seen == user[job[w].user_id].balance
  <2>1. job' = [job EXCEPT ![w].pc = "charge", ![w].seen = seen]
        /\ job[w].pc = "read"
    BY <1>6 DEF ReadUser
  <2> HIDE DEF seen
  <2>2. /\ DOMAIN job' = DOMAIN job /\ JobStep(w)
        /\ job'[w].pc = "charge" /\ job'[w].fee = job[w].fee
    BY <1>0, <2>1 DEF JobStep, Job
  <2>3. /\ node[job[w].hash].state = "succeeded"
        /\ job[w].fee = node[job[w].hash].fee
    BY <1>a, <2>1 DEF JobAgrees
  <2> QED
    BY <1>0, <1>6, <2>1, <2>2, <2>3, GoesOnConsistent DEF ReadUser
<1>7. CASE Charge(w)
  BY <1>0, <1>7, ChargeConsistent
<1> QED
  BY <1>1, <1>2, <1>3, <1>4, <1>5, <1>6, <1>7 DEF Handler

----------------------------------------------------------------------------
(* The steps of the task.                                                  *)

(* The jobs see nothing of a step of the task that leaves the node alone    *)
(* and settles only what the node has finished.                            *)
LEMMA JobsKept ==
    ASSUME TypeOK, JobsAgree, OwnersKept, UNCHANGED <<job, node>>,
           \A g \in DOMAIN payment :
                node[g].state = "none" => payment'[g].status = payment[g].status
    PROVE  JobsAgree'
  BY DEF JobsAgree, JobAgrees, Owns, OwnersKept

\* Every step of the task keeps the invariant, whatever the handlers settled since
\* its snapshot.
LEMMA SyncConsistent ==
    ASSUME Consistent, TypeOK', SyncTask
    PROVE  Consistent'
<1> USE DEF Consistent
<1>0. TablesOK
  BY DEF TypeOK, StoreTypeOK
<1>1. ASSUME UNCHANGED <<store, job, node>>
      PROVE  Ledger' /\ NodeAgrees' /\ Settled' /\ JobsAgree'
  <2>1. OwnersKept /\ payment' = payment
    BY <1>1, TablesAndNodeKept DEF store
  <2> QED
    BY <1>1, <2>1, TablesAndNodeKept, JobsKept
<1>2. CASE SyncRead
  <2>1. SyncAgrees'
    <3>1. CASE Pending = {}
      BY <1>2, <3>1, SyncKept, TablesAndNodeKept DEF SyncRead
    <3>2. CASE Pending # {}
      <4> DEFINE rows == [h \in Pending |-> payment[h]]
      <4>1. sync' = [Idle EXCEPT !.pc = "list", !.rows = rows]
        BY <1>2, <3>2 DEF SyncRead
      <4>2. DOMAIN rows = Pending /\ \A h \in Pending : rows[h] = payment[h]
        OBVIOUS
      <4>3. \A h \in Pending : /\ h \in DOMAIN payment
                               /\ payment[h].lock_amount = Total(h)
                               /\ payment[h].service_fee = ServiceFee(Amount[h])
        BY DEF Pending, Ledger, RowsAgree
      <4> HIDE DEF rows
      <4>4. sync'.pc = "list" /\ sync'.rows = rows
        BY <4>1 DEF Idle
      <4>5. payment' = payment
        BY <1>2 DEF SyncRead, store
      <4> QED
        BY <4>2, <4>3, <4>4, <4>5 DEF SyncAgrees, Owns
    <3> QED
      BY <3>1, <3>2
  <2> QED
    BY <1>1, <1>2, <2>1 DEF SyncRead, Settled
<1>3. CASE SyncList
  <2>1. PICK first \in DOMAIN sync.rows :
            LET todo == {h \in DOMAIN sync.rows \cap Listed(GeneratedAt[first]) :
                            node[h].state \in {"succeeded", "failed"}}
            IN  sync' = [sync EXCEPT !.pc = "items",
                                     !.rows = [h \in todo |-> sync.rows[h]]]
    BY <1>3 DEF SyncList
  <2> DEFINE todo == {h \in DOMAIN sync.rows \cap Listed(GeneratedAt[first]) :
                            node[h].state \in {"succeeded", "failed"}}
             rows == [h \in todo |-> sync.rows[h]]
  <2>2. \A h \in todo : h \in DOMAIN sync.rows /\ rows[h] = sync.rows[h]
                        /\ node[h].state \in {"succeeded", "failed"}
    OBVIOUS
  <2>3. sync' = [sync EXCEPT !.pc = "items", !.rows = rows]
    BY <2>1
  <2>4. DOMAIN rows = todo
    OBVIOUS
  <2> HIDE DEF todo, rows
  <2>5. sync'.rows = rows /\ sync'.pc = "items"
    BY <2>3 DEF TypeOK, Sync
  <2>6. payment' = payment /\ node' = node
    BY <1>3 DEF SyncList, store
  <2>7. SyncAgrees'
    BY <2>2, <2>4, <2>5, <2>6 DEF SyncAgrees, Owns
  <2> QED
    BY <1>1, <1>3, <2>7 DEF SyncList, Settled
<1>4. CASE SyncDone
  <2>1. DOMAIN sync'.rows = {} /\ sync'.pc = "idle"
    BY <1>4, EmptyTable DEF SyncDone, Idle
  <2>2. SyncAgrees'
    BY <2>1 DEF SyncAgrees
  <2> QED
    BY <1>1, <1>4, <2>2 DEF SyncDone, Settled
<1>5. ASSUME NEW h \in Hashes, SyncReadUser(h)
      PROVE  Consistent'
  <2> DEFINE fee  == node[h].fee
             seen == user[sync.rows[h].user_id].balance
  <2>1. sync' = [sync EXCEPT !.pc = "charge", !.hash = h, !.fee = fee,
                             !.seen = seen]
        /\ sync.pc = "items" /\ node[h].state = "succeeded"
    BY <1>5 DEF SyncReadUser
  <2> HIDE DEF fee, seen
  <2>2. /\ sync'.pc = "charge" /\ sync'.hash = h /\ sync'.fee = fee
        /\ sync'.rows = sync.rows
    BY <2>1 DEF TypeOK, Sync
  <2>3. payment' = payment /\ node' = node
    BY <1>5 DEF SyncReadUser, store
  <2>4. SyncAgrees'
    BY <2>1, <2>2, <2>3 DEF SyncAgrees, Owns, fee
  <2> QED
    BY <1>1, <1>5, <2>4 DEF SyncReadUser, Settled
<1>6. ASSUME NEW h \in DOMAIN sync.rows, sync.pc \in {"items", "charge"},
             UNCHANGED <<job, node>>, Ledger', Settled', OwnersKept,
             \A g \in DOMAIN payment \ {h} : payment'[g] = payment[g],
             sync'.rows = Rest(h), sync'.pc = "items"
      PROVE  Consistent'
  <2>1. node[h].state # "none"
    BY <1>6 DEF SyncAgrees
  <2>2. JobsAgree'
    BY <1>6, <2>1, JobsKept
  <2>3. SyncAgrees'
    BY <1>6 DEF SyncAgrees, Owns, OwnersKept, Rest
  <2>4. NodeAgrees'
    BY <1>6 DEF NodeAgrees, OwnersKept
  <2> QED
    BY <1>6, <2>2, <2>3, <2>4 DEF Settled
<1>7. ASSUME NEW h \in Hashes, SyncRefund(h)
      PROVE  Consistent'
  <2> DEFINE model == sync.rows[h]
  <2>1. /\ h \in DOMAIN sync.rows /\ sync.pc = "items"
        /\ h \in DOMAIN payment /\ model.user_id = payment[h].user_id
    BY <1>7 DEF SyncRefund, SyncAgrees, Owns
  <2>2. sync'.rows = Rest(h) /\ sync'.pc = "items"
    BY <1>7, <2>1 DEF SyncRefund, TypeOK, Sync
  <2>3. CASE UNCHANGED store
    BY <1>6, <1>7, <2>1, <2>2, <2>3, TablesAndNodeKept DEF SyncRefund, store
  <2>4. CASE PayFailedMatches(h, model) /\ PayFailed(h, model)
    <3>1. Ledger'
      BY <1>0, <2>1, <2>4, PayFailedLedger
    <3>2. /\ DOMAIN payment' = DOMAIN payment
          /\ payment'[h].user_id = payment[h].user_id
          /\ payment'[h].status = "Canceled"
          /\ \A g \in DOMAIN payment \ {h} : payment'[g] = payment[g]
      BY <1>0, <2>1, <2>4, PayFailedRows
    <3>3. OwnersKept
      BY <3>2 DEF OwnersKept
    <3>4. Settled'
      BY <1>7, <3>2 DEF SyncRefund, Settled, NeverRefundedAndSent,
                        ChargedWhatItCost
    <3> QED
      BY <1>6, <1>7, <2>1, <2>2, <3>1, <3>2, <3>3, <3>4 DEF SyncRefund
  <2> QED
    BY <1>7, <2>3, <2>4 DEF SyncRefund
<1>8. CASE SyncCharge
  <2> DEFINE h     == sync.hash
             model == sync.rows[h]
             fee   == sync.fee
  <2>1. /\ h \in DOMAIN sync.rows /\ sync.pc = "charge" /\ h \in Hashes
        /\ h \in DOMAIN payment /\ model.user_id = payment[h].user_id
        /\ model.lock_amount = Total(h)
        /\ model.service_fee = ServiceFee(Amount[h])
        /\ node[h].state = "succeeded" /\ fee = node[h].fee
    BY <1>8, RowType DEF SyncCharge, SyncAgrees, Owns, TypeOK
  <2>2. fee \in Nat /\ fee <= MaxFee(Amount[h])
    BY <2>1 DEF NodeAgrees, TypeOK, Sync
  <2>3. sync'.rows = Rest(h) /\ sync'.pc = "items"
    BY <1>8 DEF SyncCharge, Idle
  <2>4. CASE UNCHANGED store
    BY <1>6, <1>8, <2>1, <2>3, <2>4, TablesAndNodeKept DEF SyncCharge, store
  <2>5. CASE PaySuccessMatches(h, model) /\ PaySuccess(h, model, fee, sync.seen)
    <3>1. Ledger'
      BY <1>0, <2>1, <2>2, <2>5, PaySuccessLedger
    <3>2. /\ DOMAIN payment' = DOMAIN payment
          /\ payment'[h].user_id = payment[h].user_id
          /\ payment'[h].status = "Paid"
          /\ payment'[h].total = Amount[h] + fee + ServiceFee(Amount[h])
          /\ \A g \in DOMAIN payment \ {h} : payment'[g] = payment[g]
      BY <1>0, <2>1, <2>2, <2>5, PaySuccessRows
    <3>3. OwnersKept
      BY <3>2 DEF OwnersKept
    <3>4. node' = node /\ job' = job
      BY <1>8 DEF SyncCharge
    <3>5. Settled'
      BY <2>1, <3>2, <3>4 DEF Settled, NeverRefundedAndSent, ChargedWhatItCost
    <3> QED
      BY <1>6, <2>1, <2>3, <3>1, <3>2, <3>3, <3>4, <3>5
  <2> QED
    BY <1>8, <2>4, <2>5 DEF SyncCharge
<1> QED
  BY <1>2, <1>3, <1>4, <1>5, <1>7, <1>8 DEF SyncTask

----------------------------------------------------------------------------
(* The other steps, and the theorems.                                      *)

\* Every step of the node keeps the invariant: it only moves on from what nobody
\* has settled on.
LEMMA NodeConsistent ==
    ASSUME Consistent, TypeOK', NEW h \in Hashes, Node(h)
    PROVE  Consistent'
<1> USE DEF Consistent
<1>1. UNCHANGED <<user, payment, job, sync>>
  BY DEF Node, NodeStarts, NodeEnds, store
<1>2. node[h] \in Outgoing /\ \A g \in Hashes \ {h} : node'[g] = node[g]
  BY DEF TypeOK, Node, NodeStarts, NodeEnds
<1>3. \/ /\ node[h].state = "queued" /\ node'[h].fee = node[h].fee
         /\ node'[h].state \in {"inflight", "rejected"}
      \/ /\ node[h].state = "inflight" /\ node'[h].fee = node[h].fee
         /\ node'[h].state = "failed"
      \/ /\ node[h].state = "inflight" /\ node'[h].fee \in 0..MaxFee(Amount[h])
         /\ node'[h].state = "succeeded"
  BY <1>2 DEF TypeOK, Node, NodeStarts, NodeEnds, Outgoing
<1>4. OwnersKept /\ AnswersKept
  BY <1>1, <1>2, <1>3 DEF OwnersKept, AnswersKept
<1>5. Ledger'
  BY <1>1 DEF Ledger, RowsAgree, LockedFunds, NoOverdraft
<1>6. SyncAgrees'
  BY <1>1, <1>4, SyncKept
<1>7. NodeAgrees'
  <2>1. node'[h].fee <= MaxFee(Amount[h]) /\ h \in DOMAIN payment
    <3>1. MaxFee(Amount[h]) \in Nat
      BY FeesAreNat
    <3> QED
      BY <1>3, <3>1 DEF NodeAgrees
  <2> QED
    BY <1>1, <1>2, <2>1 DEF NodeAgrees
<1>8. Settled'
  <2>1. \A g \in DOMAIN payment : g \in Hashes
    BY DEF TypeOK, StoreTypeOK, TablesOK, IsTable
  <2> QED
    BY <1>1, <1>2, <1>3, <2>1 DEF Settled, NeverRefundedAndSent,
                                  ChargedWhatItCost
<1>9. JobsAgree'
  <2>1. ASSUME NEW w \in DOMAIN job, job[w].pc # "lock"
        PROVE  JobAgrees(w)'
    <3>1. JobAgrees(w) /\ job[w] \in Job
      BY <2>1, ModelType DEF JobsAgree
    <3>2. CASE job[w].hash # h
      <4>1. node'[job[w].hash] = node[job[w].hash]
        BY <1>2, <3>1, <3>2 DEF Job
      <4> QED
        BY <1>1, <3>1, <4>1 DEF JobAgrees, Owns
    <3>3. CASE job[w].hash = h
      BY <1>1, <1>3, <3>1, <3>3 DEF JobAgrees, Owns
    <3> QED
      BY <3>2, <3>3
  <2> QED
    BY <1>1, <2>1 DEF JobsAgree
<1> QED
  BY <1>5, <1>6, <1>7, <1>8, <1>9 DEF Settled

\* Every step keeps the invariant.
LEMMA StepConsistent ==
    ASSUME Consistent, TypeOK', [Next]_vars
    PROVE  Consistent'
<1> USE DEF Consistent
<1>1. ASSUME NEW w \in Workers, NEW u \in Users, NEW h \in Hashes,
             NEW ignore \in BOOLEAN, Begin(w, u, h, ignore)
      PROVE  Consistent'
  <2>1. Ledger' /\ NodeAgrees' /\ Settled' /\ OwnersKept /\ AnswersKept
    BY <1>1, TablesAndNodeKept DEF Begin
  <2>2. SyncAgrees'
    BY <1>1, <2>1, SyncKept DEF Begin
  <2>3. /\ w \notin DOMAIN job /\ DOMAIN job' = DOMAIN job \cup {w}
        /\ job'[w].pc = "lock" /\ \A v \in DOMAIN job : job'[v] = job[v]
    BY <1>1 DEF Begin, Insert
  <2>4. JobsAgree'
    BY <1>1, <2>3 DEF Begin, JobsAgree, JobAgrees, Owns, store
  <2> QED
    BY <2>1, <2>2, <2>4 DEF Settled
<1>2. ASSUME NEW w \in Workers, Handler(w)
      PROVE  Consistent'
  BY <1>2, HandlerConsistent
<1>3. ASSUME NEW w \in Workers, PayFails(w)
      PROVE  Consistent'
  <2>1. CASE Return(w)
    BY <1>3, <2>1, ReturnConsistent DEF PayFails
  <2>2. CASE Goto(w, "lookup")
    <3>1. /\ DOMAIN job' = DOMAIN job /\ JobStep(w) /\ job'[w].pc = "lookup"
      BY <1>3, <2>2, GotoEffect DEF PayFails
    <3>2. node[job[w].hash].state = "none"
      BY <1>3 DEF PayFails, JobsAgree, JobAgrees
    <3> QED
      BY <1>3, <3>1, <3>2, GoesOnConsistent DEF PayFails
  <2> QED
    BY <1>3, <2>1, <2>2 DEF PayFails
<1>4. ASSUME NEW w \in Workers, Abandon(w)
      PROVE  Consistent'
  BY <1>4, ReturnConsistent DEF Abandon
<1>5. CASE SyncTask
  BY <1>5, SyncConsistent
<1>6. ASSUME UNCHANGED <<store, node>>, sync' = Idle,
             DOMAIN job' = {} \/ job' = job
      PROVE  Consistent'
  <2>1. Ledger' /\ NodeAgrees' /\ Settled'
    BY <1>6, TablesAndNodeKept
  <2>2. SyncAgrees'
    BY <1>6, EmptyTable DEF SyncAgrees, Idle
  <2>3. JobsAgree'
    BY <1>6 DEF JobsAgree, JobAgrees, Owns, store
  <2> QED
    BY <2>1, <2>2, <2>3 DEF Settled
<1>7. CASE SyncFails
  <2>1. CASE sync' = Idle
    BY <1>6, <1>7, <2>1 DEF SyncFails
  <2>2. ASSUME NEW h \in DOMAIN sync.rows, sync.pc \in {"items", "charge"},
               sync' = [Idle EXCEPT !.pc = "items", !.rows = Rest(h)]
        PROVE  Consistent'
    <3>1. /\ sync'.pc = "items"
          /\ \A g \in DOMAIN sync'.rows :
                g \in DOMAIN sync.rows /\ sync'.rows[g] = sync.rows[g]
      BY <2>2 DEF Idle, Rest
    <3>2. UNCHANGED <<store, job, node>>
      BY <1>7 DEF SyncFails
    <3>3. Ledger' /\ NodeAgrees' /\ Settled' /\ JobsAgree'
      BY <3>2, TablesAndNodeKept, JobsKept DEF store
    <3>4. SyncAgrees'
      BY <2>2, <3>1, <3>2 DEF SyncAgrees, Owns, store
    <3> QED
      BY <3>3, <3>4 DEF Settled
  <2> QED
    BY <1>7, <2>1, <2>2 DEF SyncFails
<1>8. ASSUME NEW h \in Hashes, Node(h)
      PROVE  Consistent'
  BY <1>8, NodeConsistent
<1>9. CASE Crash
  BY <1>6, <1>9, EmptyTable DEF Crash
<1>10. CASE UNCHANGED vars
  <2>1. UNCHANGED <<store, node, sync, job>>
    BY <1>10 DEF vars, payVars
  <2>2. Ledger' /\ NodeAgrees' /\ Settled' /\ OwnersKept /\ AnswersKept
    BY <2>1, TablesAndNodeKept
  <2>3. SyncAgrees'
    BY <2>1, <2>2, SyncKept
  <2>4. JobsAgree'
    BY <2>1 DEF JobsAgree, JobAgrees, Owns, store
  <2> QED
    BY <2>2, <2>3, <2>4 DEF Settled
<1> QED
  BY <1>1, <1>2, <1>3, <1>4, <1>5, <1>7, <1>8, <1>9, <1>10 DEF Next

(* The inductive invariant holds in every behaviour. *)
THEOREM AlwaysConsistent == Spec => []Consistent
<1>1. Init => Consistent
  BY InitConsistent
<1>2. Consistent /\ [Next]_vars => Consistent'
  BY StepType, StepConsistent DEF Consistent
<1> QED
  BY <1>1, <1>2, PTL DEF Spec

(* users.lock_amount is always the sum of the locks of the account's pending *)
(* payments, however handlers, task, crashes and the node interleave, for    *)
(* any fees and amounts: the unchecked second UPDATE of pay_failed and       *)
(* pay_success (`_res`) always matches.                                      *)
THEOREM LocksAreAccounted == Spec => []LockedFunds
<1>1. Consistent => LockedFunds
  BY DEF Consistent, Ledger
<1> QED
  BY <1>1, AlwaysConsistent, PTL

(* No account is overdrawn, however many requests race for its balance. *)
THEOREM NeverOverdrawn == Spec => []NoOverdraft
<1>1. Consistent => NoOverdraft
  BY DEF Consistent, Ledger
<1> QED
  BY <1>1, AlwaysConsistent, PTL

(* The node is asked at most once to make a payment, and only while its whole *)
(* cost is locked by the one who asks.                                        *)
THEOREM NeverAskedTwice == Spec => []AskedOnceAndFunded
<1>1. ASSUME Consistent
      PROVE  AskedOnceAndFunded
  <2>1. ASSUME NEW w \in DOMAIN job, job[w].pc = "pay"
        PROVE  /\ node[job[w].hash].state = "none"
               /\ payment[job[w].hash].status = "Unpaid"
               /\ payment[job[w].hash].user_id = job[w].user_id
               /\ payment[job[w].hash].lock_amount = Total(job[w].hash)
    <3>1. JobAgrees(w)
      BY <1>1, <2>1 DEF Consistent, JobsAgree
    <3> QED
      BY <1>1, <2>1, <3>1 DEF Consistent, JobAgrees, Owns, Ledger, RowsAgree
  <2> QED
    BY <2>1 DEF AskedOnceAndFunded
<1> QED
  BY <1>1, AlwaysConsistent, PTL

(* A payment the service charges was made by the node, for what is charged. *)
THEOREM ChargesAreTrue == Spec => []ChargedWhatItCost
<1>1. Consistent => ChargedWhatItCost
  BY DEF Consistent
<1> QED
  BY <1>1, AlwaysConsistent, PTL

(* When the node starts what it accepts before `pay` returns, and tries one  *)
(* route, no payment it may still make, or has made, is given back.          *)
THEOREM RefundsAreSafe ==
    ASSUME LateStart = FALSE, Retries = FALSE
    PROVE  Spec => []NeverRefundedAndSent
<1>1. Consistent => NeverRefundedAndSent
  BY DEF Consistent
<1> QED
  BY <1>1, AlwaysConsistent, PTL

----------------------------------------------------------------------------
(* What a step does to the tables.                                         *)

\* A step is one transaction at most: a handler locks what its payment may
\* cost, or a pending payment is settled, from its row as it stands and, when
\* it is charged, for the fee of the node, whoever settles it.
Transacts ==
    \/ UNCHANGED store
    \/ \E w \in DOMAIN job :
        /\ LockBalanceMatches(job[w].user_id, job[w].hash)
        /\ LockBalance(job[w].user_id, job[w].hash)
    \/ \E h \in DOMAIN payment :
        /\ payment[h].status = "Unpaid"
        /\ \/ PayFailed(h, payment[h])
           \/ /\ node[h].state = "succeeded"
              /\ \E seen \in Int : PaySuccess(h, payment[h], node[h].fee, seen)

\* A copy of the row that agrees with it does the same as the row.
LEMMA SameRow ==
    ASSUME NEW h, NEW model, model.user_id = payment[h].user_id,
           model.lock_amount = payment[h].lock_amount,
           model.service_fee = payment[h].service_fee, NEW fee, NEW seen
    PROVE  /\ PayFailed(h, model) => PayFailed(h, payment[h])
           /\ PaySuccess(h, model, fee, seen) => PaySuccess(h, payment[h], fee, seen)
<1>1. PayFailed(h, model) => PayFailed(h, payment[h])
  BY DEF PayFailed
<1>2. /\ Payback(h, model, fee) = Payback(h, payment[h], fee)
      /\ Cost(h, model, fee) = Cost(h, payment[h], fee)
  BY DEF Payback, Cost
<1>3. PaySuccess(h, model, fee, seen) => PaySuccess(h, payment[h], fee, seen)
  BY <1>2 DEF PaySuccess
<1> QED
  BY <1>1, <1>3

\* A transaction that settles a payment from such a copy.
LEMMA Settles ==
    ASSUME Ledger, NEW h \in Hashes, NEW model,
           h \in DOMAIN payment, model.user_id = payment[h].user_id,
           model.lock_amount = Total(h),
           model.service_fee = ServiceFee(Amount[h]),
           NEW seen \in Int,
           \/ PayFailedMatches(h, model) /\ PayFailed(h, model)
           \/ /\ node[h].state = "succeeded" /\ PaySuccessMatches(h, model)
              /\ PaySuccess(h, model, node[h].fee, seen)
    PROVE  Transacts
<1>1. payment[h].lock_amount = Total(h)
  BY DEF PayFailedMatches, PaySuccessMatches
<1>2. payment[h].status = "Unpaid"
  BY <1>1, SameLockIsPending
<1>3. payment[h].service_fee = ServiceFee(Amount[h])
  BY DEF Ledger, RowsAgree
<1> QED
  BY <1>1, <1>2, <1>3, SameRow DEF Transacts

\* Every step is such a transaction: the copies that handlers and task hold,
\* old as they may be, agree with the rows their filters let them settle.
LEMMA StepTransacts ==
    ASSUME Consistent, [Next]_vars
    PROVE  Transacts
<1> USE DEF Consistent
<1>1. CASE UNCHANGED store
  BY <1>1 DEF Transacts
<1>2. ASSUME NEW w \in Workers, Handler(w)
      PROVE  Transacts
  <2> DEFINE h == job[w].hash
             model == Model(w)
  <2>1. w \in DOMAIN job /\ job[w] \in Job
    BY <1>2, ModelType DEF Handler
  <2>2. job[w].pc # "lock" => /\ h \in DOMAIN payment /\ h \in Hashes
                              /\ model.user_id = payment[h].user_id
                              /\ model.lock_amount = Total(h)
                              /\ model.service_fee = ServiceFee(Amount[h])
                              /\ job[w].seen \in Int
    BY <2>1 DEF JobsAgree, JobAgrees, Owns, Model, Job
  <2>3. CASE Lock(w)
    BY <1>1, <2>1, <2>3 DEF Lock, Transacts
  <2>4. CASE Refund(w)
    <3>1. job[w].pc = "refund"
      BY <2>4 DEF Refund
    <3>2. CASE PayFailedMatches(h, model) /\ PayFailed(h, model)
      BY <2>2, <3>1, <3>2, Settles
    <3> QED
      BY <1>1, <2>4, <3>2 DEF Refund
  <2>5. CASE Charge(w)
    <3>1. /\ job[w].pc = "charge"
          /\ node[h].state = "succeeded" /\ job[w].fee = node[h].fee
      BY <2>1, <2>5 DEF Charge, JobsAgree, JobAgrees
    <3>2. CASE PaySuccessMatches(h, model)
               /\ PaySuccess(h, model, job[w].fee, job[w].seen)
      BY <2>2, <3>1, <3>2, Settles
    <3> QED
      BY <1>1, <2>5, <3>2 DEF Charge
  <2> QED
    BY <1>1, <1>2, <2>3, <2>4, <2>5
       DEF Handler, Pay, PayReturns, Lookup, ReadUser
<1>3. CASE SyncTask
  <2>1. \A h \in DOMAIN sync.rows :
            /\ h \in DOMAIN payment /\ h \in Hashes
            /\ sync.rows[h].user_id = payment[h].user_id
            /\ sync.rows[h].lock_amount = Total(h)
            /\ sync.rows[h].service_fee = ServiceFee(Amount[h])
    BY RowType DEF SyncAgrees, Owns
  <2>2. ASSUME NEW h \in Hashes, SyncRefund(h)
        PROVE  Transacts
    <3>1. h \in DOMAIN sync.rows
      BY <2>2 DEF SyncRefund
    <3>2. CASE PayFailedMatches(h, sync.rows[h]) /\ PayFailed(h, sync.rows[h])
      BY <2>1, <3>1, <3>2, Settles
    <3> QED
      BY <1>1, <2>2, <3>2 DEF SyncRefund
  <2>3. CASE SyncCharge
    <3> DEFINE h == sync.hash
    <3>1. /\ h \in DOMAIN sync.rows /\ sync.seen \in Int
          /\ node[h].state = "succeeded" /\ sync.fee = node[h].fee
      BY <2>3 DEF SyncCharge, SyncAgrees, TypeOK, Sync
    <3>2. CASE PaySuccessMatches(h, sync.rows[h])
               /\ PaySuccess(h, sync.rows[h], sync.fee, sync.seen)
      BY <2>1, <3>1, <3>2, Settles
    <3> QED
      BY <1>1, <2>3, <3>2 DEF SyncCharge
  <2> QED
    BY <1>1, <1>3, <2>2, <2>3
       DEF SyncTask, SyncRead, SyncList, SyncDone, SyncReadUser
<1>4. CASE UNCHANGED vars
  BY <1>1, <1>4 DEF vars
<1> QED
  BY <1>1, <1>2, <1>3, <1>4
     DEF Next, Begin, PayFails, Abandon, SyncFails, Node, NodeStarts,
         NodeEnds, Crash

\* The node does not take back an answer.
LEMMA StepKeepsAnswers ==
    ASSUME Consistent, [Next]_vars
    PROVE  AnswersKept
<1>1. CASE UNCHANGED node
  BY <1>1 DEF AnswersKept
<1>2. ASSUME NEW w \in DOMAIN job, Pay(w)
      PROVE  AnswersKept
  <2>1. node[job[w].hash].state = "none"
    BY <1>2 DEF Consistent, Pay, JobsAgree, JobAgrees
  <2> QED
    BY <1>2, <2>1 DEF Pay, AnswersKept, Consistent, TypeOK
<1>3. ASSUME NEW h \in Hashes, Node(h)
      PROVE  AnswersKept
  BY <1>3 DEF Node, NodeStarts, NodeEnds, AnswersKept, Consistent, TypeOK
<1>4. CASE SyncTask \/ SyncFails \/ Crash \/ UNCHANGED vars
  BY <1>1, <1>4
     DEF SyncTask, SyncRead, SyncList, SyncRefund, SyncReadUser, SyncCharge,
         SyncDone, SyncFails, Crash, vars, payVars
<1>5. ASSUME NEW w \in Workers, Handler(w)
      PROVE  AnswersKept
  BY <1>1, <1>2, <1>5
     DEF Handler, Lock, PayReturns, Lookup, Refund, ReadUser, Charge
<1> QED
  BY <1>1, <1>3, <1>4, <1>5 DEF Next, Begin, PayFails, Abandon

\* A transaction keeps every statement true.
LEMMA StepExplained ==
    ASSUME Consistent, Explained, [Next]_vars
    PROVE  Explained'
<1>1. TablesOK /\ Ledger
  BY DEF Consistent, TypeOK, StoreTypeOK
<1>2. CASE UNCHANGED store
  BY <1>2, ExplainedFrame DEF store
<1>3. ASSUME NEW w \in DOMAIN job, LockBalance(job[w].user_id, job[w].hash)
      PROVE  Explained'
  <2>1. job[w].user_id \in Users /\ job[w].hash \in Hashes
    BY ModelType DEF Consistent, Job
  <2> QED
    BY <1>1, <1>3, <2>1, LockBalanceExplained
<1>4. ASSUME NEW h \in DOMAIN payment, payment[h].status = "Unpaid",
             PayFailed(h, payment[h])
      PROVE  Explained'
  BY <1>1, <1>4, PayFailedExplained
<1>5. ASSUME NEW h \in DOMAIN payment, payment[h].status = "Unpaid",
             NEW seen \in Int, PaySuccess(h, payment[h], node[h].fee, seen)
      PROVE  Explained'
  <2>1. node[h].fee \in Nat /\ node[h].fee <= MaxFee(Amount[h])
    BY <1>1 DEF Consistent, TypeOK, TablesOK, IsTable, NodeAgrees, Outgoing
  <2> QED
    BY <1>1, <1>5, <2>1, PaySuccessExplained
<1> QED
  BY <1>2, <1>3, <1>4, <1>5, StepTransacts DEF Transacts

\* Every account holds what its statement adds up to (transfers, new_record),
\* though locks and refunds leave no record, and whoever charges a payment does
\* so from a copy of its row.
THEOREM StatementsExplain == Spec => []Explained
<1>1. Init => Explained
  BY InitExplained DEF Init
<1>2. Consistent /\ Explained /\ [Next]_vars => Explained'
  BY StepExplained
<1> QED
  BY <1>1, <1>2, AlwaysConsistent, PTL DEF Spec

----------------------------------------------------------------------------
(* A settled payment is settled for good.                                  *)

SettledKept ==
    \A h \in DOMAIN payment :
        payment[h].status # "Unpaid" =>
            /\ payment'[h] = payment[h]
            /\ \A u \in Users : record'[u] # record[u] => Last(record'[u]).hash # h

\* pay_failed leaves a settled payment alone.
LEMMA RefundKeepsSettled ==
    ASSUME TablesOK, NEW h \in DOMAIN payment, NEW model,
           PayFailedMatches(h, model), PayFailed(h, model)
    PROVE  SettledKept
<1>1. /\ \A g \in DOMAIN payment \ {h} : payment'[g] = payment[g]
      /\ record' = record
  BY PayFailedRows DEF PayFailed
<1> QED
  BY <1>1 DEF SettledKept, PayFailedMatches

\* pay_success leaves a settled payment alone, though it does not test the status:
\* a pending payment locks a positive amount, a settled one locks nothing.
LEMMA ChargeKeepsSettled ==
    ASSUME TablesOK, Ledger, NEW h \in DOMAIN payment,
           NEW model, model.user_id \in Users, model.lock_amount = Total(h),
           model.service_fee = ServiceFee(Amount[h]),
           NEW fee \in Nat, NEW seen \in Int,
           PaySuccessMatches(h, model), PaySuccess(h, model, fee, seen)
    PROVE  SettledKept
<1>1. h \in Hashes
  BY DEF TablesOK, IsTable
<1>2. payment[h].status = "Unpaid"
  BY <1>1, SameLockIsPending DEF PaySuccessMatches
<1>3. \A g \in DOMAIN payment \ {h} : payment'[g] = payment[g]
  BY PaySuccessRows
<1> DEFINE row == [balance |-> seen, change |-> -Cost(h, model, fee),
                   hash |-> h, source |-> "external_payment"]
<1>4. row \in Record /\ row.hash = h
  BY <1>1, TotalsArePositive, FeesAreNat DEF Record, Cost, Payback
<1>5. record' = [record EXCEPT ![model.user_id] = Append(@, row)]
  BY DEF PaySuccess, NewRecord
<1> HIDE DEF row
<1>6. ASSUME NEW u \in Users, record'[u] # record[u]
      PROVE  Last(record'[u]).hash = h
  <2>1. record \in [Users -> Seq(Record)]
    BY DEF TablesOK
  <2>2. u = model.user_id /\ record'[u] = Append(record[u], row)
    BY <1>5, <1>6, <2>1
  <2>3. /\ Len(Append(record[u], row)) = Len(record[u]) + 1
        /\ Append(record[u], row)[Len(record[u]) + 1] = row
    BY <1>4, <2>1
  <2> QED
    BY <1>4, <2>2, <2>3 DEF Last
<1> QED
  BY <1>2, <1>3, <1>6 DEF SettledKept

\* A step leaves the settled payments alone.
LEMMA StepKeepsSettled ==
    ASSUME Consistent, [Next]_vars
    PROVE  SettledKept
<1> USE DEF Consistent
<1>1. TablesOK
  BY DEF TypeOK, StoreTypeOK
<1>2. ASSUME UNCHANGED store
      PROVE  SettledKept
  BY <1>2 DEF store, SettledKept
<1>3. ASSUME NEW w \in Workers, Handler(w)
      PROVE  SettledKept
  <2> DEFINE h == job[w].hash
             model == Model(w)
  <2>1. w \in DOMAIN job /\ job[w] \in Job
    BY <1>3, ModelType DEF Handler
  <2>2. job[w].pc # "lock" => /\ h \in DOMAIN payment
                              /\ model.user_id \in Users
                              /\ model.lock_amount = Total(h)
                              /\ model.service_fee = ServiceFee(Amount[h])
                              /\ job[w].fee \in Nat /\ job[w].seen \in Int
    BY <2>1 DEF JobsAgree, JobAgrees, Owns, Model, Job
  <2>3. CASE Lock(w)
    <3>1. CASE LockBalanceMatches(job[w].user_id, h)
               /\ LockBalance(job[w].user_id, h)
      BY <3>1, LockBalanceRows DEF LockBalance, SettledKept
    <3> QED
      BY <1>2, <2>3, <3>1 DEF Lock
  <2>4. CASE Refund(w)
    BY <1>1, <1>2, <2>2, <2>4, RefundKeepsSettled DEF Refund
  <2>5. CASE Charge(w)
    BY <1>1, <1>2, <2>2, <2>5, ChargeKeepsSettled DEF Charge
  <2> QED
    BY <1>2, <1>3, <2>3, <2>4, <2>5
       DEF Handler, Pay, PayReturns, Lookup, ReadUser
<1>4. CASE SyncTask
  <2>1. ASSUME NEW h \in Hashes, SyncRefund(h)
        PROVE  SettledKept
    <3>1. h \in DOMAIN payment
      BY <2>1 DEF SyncRefund, SyncAgrees, Owns
    <3> QED
      BY <1>1, <1>2, <2>1, <3>1, RefundKeepsSettled DEF SyncRefund
  <2>2. CASE SyncCharge
    <3> DEFINE h == sync.hash
    <3>1. /\ h \in DOMAIN sync.rows /\ h \in DOMAIN payment
          /\ sync.rows[h].user_id \in Users
          /\ sync.rows[h].lock_amount = Total(h)
          /\ sync.rows[h].service_fee = ServiceFee(Amount[h])
          /\ sync.fee \in Nat /\ sync.seen \in Int
      BY <2>2, RowType DEF SyncCharge, SyncAgrees, Owns, TypeOK, Sync
    <3> QED
      BY <1>1, <1>2, <2>2, <3>1, ChargeKeepsSettled DEF SyncCharge
  <2> QED
    BY <1>2, <1>4, <2>1, <2>2
       DEF SyncTask, SyncRead, SyncList, SyncDone, SyncReadUser
<1>5. CASE UNCHANGED vars
  BY <1>2, <1>5 DEF vars
<1> QED
  BY <1>2, <1>3, <1>4, <1>5
     DEF Next, Begin, PayFails, Abandon, SyncFails, Node, NodeStarts,
         NodeEnds, Crash

\* No payment is deleted.
LEMMA StepKeepsRows ==
    ASSUME TypeOK, [Next]_vars
    PROVE  DOMAIN payment \subseteq DOMAIN payment'
<1>1. CASE UNCHANGED store
  BY <1>1 DEF store
<1>2. ASSUME NEW h, NEW model, PayFailed(h, model)
      PROVE  DOMAIN payment' = DOMAIN payment
  BY <1>2 DEF PayFailed
<1>3. ASSUME NEW h, NEW model, NEW fee, NEW seen, PaySuccess(h, model, fee, seen)
      PROVE  DOMAIN payment' = DOMAIN payment
  BY <1>3 DEF PaySuccess
<1>4. ASSUME NEW u, NEW h, LockBalance(u, h)
      PROVE  DOMAIN payment \subseteq DOMAIN payment'
  BY <1>4 DEF LockBalance, Insert
<1>5. ASSUME NEW w \in Workers, Handler(w)
      PROVE  DOMAIN payment \subseteq DOMAIN payment'
  BY <1>1, <1>2, <1>3, <1>4, <1>5
     DEF Handler, Lock, Pay, PayReturns, Lookup, Refund, ReadUser, Charge
<1>6. CASE SyncTask
  BY <1>1, <1>2, <1>3, <1>6
     DEF SyncTask, SyncRead, SyncList, SyncRefund, SyncReadUser, SyncCharge,
         SyncDone
<1> QED
  BY <1>1, <1>5, <1>6
     DEF Next, Begin, PayFails, Abandon, SyncFails, Node, NodeStarts,
         NodeEnds, Crash, vars

(* No step of a handler or of the task touches a settled payment, or records *)
(* a charge for it, again.                                                   *)
THEOREM SettledOnce == Spec => SettledForGood
<1>1. Consistent /\ [Next]_vars =>
        [\A h \in DOMAIN payment :
            payment[h].status # "Unpaid" =>
                /\ payment'[h] = payment[h]
                /\ \A u \in Users : record'[u] # record[u]
                                    => Last(record'[u]).hash # h]_vars
  BY StepKeepsSettled DEF SettledKept
<1> QED
  BY <1>1, AlwaysConsistent, PTL DEF Spec, SettledForGood
=============================================================================
