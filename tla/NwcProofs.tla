----------------------------- MODULE NwcProofs -----------------------------
(***************************************************************************)
(* Proofs about Nwc, for any accounts, invoices, events, tasks and faults, *)
(* for both node clients, and with handlers of the lndhub API beside.      *)
(***************************************************************************)
EXTENDS Nwc, PaymentsProofs

----------------------------------------------------------------------------
(* The payments below.                                                     *)

\* Every step is one of the payments, or leaves all of it but the count of
\* faults.
LEMMA StepBelow ==
    ASSUME NwcTypeOK, [NwcNext]_allVars
    PROVE  \/ [Next]_vars
           \/ UNCHANGED <<store, payVars>> /\ faults' \in 0..MaxFaults
<1>1. ASSUME NEW w \in Workers, EventTask(w)
      PROVE  [Next]_vars
  <2>1. CASE PayInvoice(w)
    <3>1. PICK h \in Hashes : Begin(w, Author[task[w].event], h, FALSE)
      BY <2>1 DEF PayInvoice
    <3>2. Author[task[w].event] \in Users
      BY <1>1, NwcAssumption DEF EventTask, NwcTypeOK, IsTable, Task
    <3> QED
      BY <1>1, <3>1, <3>2 DEF Next
  <2> QED
    BY <1>1, <2>1
       DEF EventTask, CreateEvent, Reject, Refuse, GetBalance, Paying,
           LogEvent, SendAnswer, Next
<1>2. ASSUME NEW w \in Workers, PayErrs(w) \/ Lndhub(w)
      PROVE  [Next]_vars
  BY <1>2 DEF PayErrs, Lndhub, Next
<1>3. ASSUME NEW w \in Workers, TaskFails(w)
      PROVE  UNCHANGED <<store, payVars>> /\ faults' \in 0..MaxFaults
  BY <1>3, StoreAssumption DEF TaskFails, NwcTypeOK, TypeOK, StoreTypeOK
<1> QED
  BY <1>1, <1>2, <1>3
     DEF NwcNext, Deliver, Background, Restart, Next, allVars

\* A fault counted elsewhere changes nothing of what the payments agree on.
LEMMA FaultBelow ==
    ASSUME Consistent, UNCHANGED <<store, payVars>>, faults' \in 0..MaxFaults
    PROVE  Consistent'
<1>1. UNCHANGED <<user, payment, invoice, donation, record, job, sync, node>>
  BY DEF store, payVars
<1>2. TypeOK'
  BY <1>1 DEF Consistent, TypeOK, StoreTypeOK, TablesOK
<1>3. Ledger' /\ NodeAgrees' /\ Settled' /\ OwnersKept /\ AnswersKept
  BY TablesAndNodeKept DEF payVars
<1>4. SyncAgrees'
  BY <1>1, <1>3, SyncKept DEF Consistent
<1>5. JobsAgree'
  BY <1>1 DEF Consistent, JobsAgree, JobAgrees, Owns
<1> QED
  BY <1>2, <1>3, <1>4, <1>5 DEF Consistent, Settled

\* The invariant of the payments holds with the tasks of wallet requests as with
\* the handlers of lndhub, and a payment that is paid stays as it is.
LEMMA PaymentsBelow ==
    ASSUME NwcConsistent, [NwcNext]_allVars
    PROVE  /\ Consistent'
           /\ \A h \in DOMAIN payment :
                payment[h].status = "Paid" =>
                    h \in DOMAIN payment' /\ payment'[h] = payment[h]
<1>1. CASE [Next]_vars
  <2>1. Consistent'
    BY <1>1, StepType, StepConsistent DEF NwcConsistent, Consistent
  <2> QED
    BY <1>1, <2>1, StepKeepsSettled, StepKeepsRows
       DEF NwcConsistent, Consistent, SettledKept
<1>2. CASE UNCHANGED <<store, payVars>> /\ faults' \in 0..MaxFaults
  BY <1>2, FaultBelow DEF NwcConsistent, store
<1> QED
  BY <1>1, <1>2, StepBelow DEF NwcConsistent

\* A handler and its task are alone with their job.
LEMMA OtherJobs ==
    ASSUME TypeOK, NEW v \in Workers,
           \/ \E u \in Users, h \in Hashes, ignore \in BOOLEAN :
                    Begin(v, u, h, ignore)
           \/ Handler(v) \/ PayFails(v) \/ Abandon(v)
    PROVE  \A w \in DOMAIN job \ {v} : w \in DOMAIN job' /\ job'[w] = job[w]
  BY DEF Begin, Insert, Handler, Lock, Pay, PayReturns, Lookup, Refund, ReadUser,
         Charge, PayFails, Abandon, Goto, Return

\* A handler that goes on is still about its payment.
LEMMA OwnJob ==
    ASSUME TypeOK, NEW v \in DOMAIN job, Handler(v) \/ PayFails(v),
           v \in DOMAIN job'
    PROVE  /\ job'[v].hash = job[v].hash /\ job'[v].user_id = job[v].user_id
           /\ job'[v].ignore_result = job[v].ignore_result
<1>1. job[v] \in Job
  BY ModelType
<1>2. \/ \E pc : job' = [job EXCEPT ![v].pc = pc]
      \/ \E fee : job' = [job EXCEPT ![v].pc = "read", ![v].fee = fee]
      \/ \E seen : job' = [job EXCEPT ![v].pc = "charge", ![v].seen = seen]
  BY DEF Handler, Lock, Pay, PayReturns, Lookup, Refund, ReadUser, Charge,
         PayFails, Goto, Return
<1>3. ASSUME NEW pc, job' = [job EXCEPT ![v].pc = pc]
      PROVE  job'[v] = [job[v] EXCEPT !.pc = pc]
  BY <1>3
<1>4. ASSUME NEW fee, job' = [job EXCEPT ![v].pc = "read", ![v].fee = fee]
      PROVE  job'[v] = [job[v] EXCEPT !.pc = "read", !.fee = fee]
  BY <1>4
<1>5. ASSUME NEW seen, job' = [job EXCEPT ![v].pc = "charge", ![v].seen = seen]
      PROVE  job'[v] = [job[v] EXCEPT !.pc = "charge", !.seen = seen]
  BY <1>5
<1>6. \/ \E pc : job'[v] = [job[v] EXCEPT !.pc = pc]
      \/ \E fee : job'[v] = [job[v] EXCEPT !.pc = "read", !.fee = fee]
      \/ \E seen : job'[v] = [job[v] EXCEPT !.pc = "charge", !.seen = seen]
  BY <1>2, <1>3, <1>4, <1>5
<1> QED
  BY <1>1, <1>6 DEF Job

\* pay returns the payment: it was pending until then, and is now paid by the
\* handler's account.
LEMMA ChargeSucceeds ==
    ASSUME Consistent, NEW w \in DOMAIN job, Handler(w), Succeeds(w)
    PROVE  LET h == job[w].hash
           IN  /\ h \in DOMAIN payment /\ payment[h].status = "Unpaid"
               /\ h \in DOMAIN payment' /\ payment'[h].status = "Paid"
               /\ payment'[h].user_id = job[w].user_id
<1> DEFINE h     == job[w].hash
           model == Model(w)
           fee   == job[w].fee
<1>1. job[w].pc = "charge" /\ PaySuccessMatches(h, model)
  BY DEF Succeeds
<1>2. Charge(w)
  BY <1>1 DEF Handler, Lock, Pay, PayReturns, Lookup, Refund, ReadUser
<1>3. PaySuccess(h, model, fee, job[w].seen)
  BY <1>1, <1>2 DEF Charge
<1>4. /\ JobAgrees(w) /\ job[w] \in Job
      /\ h \in DOMAIN payment /\ payment[h].user_id = job[w].user_id
  BY <1>1, ModelType DEF Consistent, JobsAgree, JobAgrees, Owns
<1>5. TablesOK /\ Ledger /\ h \in Hashes /\ fee \in Nat
  BY <1>4 DEF Consistent, TypeOK, StoreTypeOK, Job
<1>6. model.lock_amount = Total(h) /\ model.service_fee = ServiceFee(Amount[h])
  BY DEF Model
<1>7. payment[h].status = "Unpaid"
  BY <1>1, <1>4, <1>5, <1>6, SameLockIsPending DEF PaySuccessMatches
<1> HIDE DEF model, fee, h
<1>8. /\ DOMAIN payment' = DOMAIN payment
      /\ payment'[h].user_id = payment[h].user_id
      /\ payment'[h].status = "Paid"
  BY <1>3, <1>4, <1>5, <1>6, PaySuccessRows
<1> QED
  BY <1>4, <1>7, <1>8 DEF h

----------------------------------------------------------------------------
(* The tasks.                                                              *)

\* The parts of the type invariant.
LogType ==
    /\ asks \in [Events -> Asked]
    /\ IsTable(event, Events, EventStatus)
    /\ IsTable(task, Workers, Task)
    /\ answers \in [Events -> Seq(Answer)]

\* The type invariant is that of the payments and these parts.
LEMMA NwcTypeParts ==
    /\ NwcTypeOK <=> TypeOK /\ LogType
    /\ NwcTypeOK' <=> TypeOK' /\ LogType'
  BY DEF NwcTypeOK, LogType, IsTable

\* A task in the table has its fields.
LEMMA TaskFields ==
    ASSUME LogType, NEW w \in DOMAIN task
    PROVE  /\ task[w] \in Task /\ w \in Workers
           /\ task[w].event \in Events
           /\ task[w].result \in Answer \cup {"none"}
  BY DEF LogType, IsTable, Task

\* A task that ends leaves the others.
LEMMA FinishEffect ==
    ASSUME LogType, NEW w, Finish(w)
    PROVE  /\ IsTable(task', Workers, Task)
           /\ DOMAIN task' = DOMAIN task \ {w}
           /\ \A v \in DOMAIN task' : task'[v] = task[v]
  BY DEF Finish, LogType, IsTable

\* A task that goes on.
LEMMA TaskGoesOn ==
    ASSUME LogType, NEW w \in DOMAIN task,
           NEW pc \in {"create", "handle", "pay", "log", "answer"},
           task' = [task EXCEPT ![w].pc = pc]
    PROVE  /\ IsTable(task', Workers, Task)
           /\ DOMAIN task' = DOMAIN task
           /\ \A v \in DOMAIN task \ {w} : task'[v] = task[v]
           /\ task'[w].pc = pc /\ task'[w].event = task[w].event
           /\ task'[w].result = task[w].result
<1> DEFINE new == [task[w] EXCEPT !.pc = pc]
<1>1. /\ new \in Task /\ new.pc = pc /\ new.event = task[w].event
      /\ new.result = task[w].result
  BY TaskFields DEF Task
<1>2. task' = [task EXCEPT ![w] = new]
  OBVIOUS
<1> HIDE DEF new
<1>3. IsTable([task EXCEPT ![w] = new], Workers, Task)
  BY <1>1, UpdateTable DEF LogType
<1>4. IsTable(task', Workers, Task)
  BY <1>2, <1>3
<1>5. /\ DOMAIN task' = DOMAIN task /\ task'[w] = new
      /\ \A v \in DOMAIN task \ {w} : task'[v] = task[v]
  BY <1>2 DEF LogType, IsTable
<1> QED
  BY <1>1, <1>4, <1>5

\* A task whose request is concluded.
LEMMA ConcludeEffect ==
    ASSUME LogType, NEW w \in DOMAIN task, NEW result \in Answer,
           Conclude(w, result)
    PROVE  /\ IsTable(task', Workers, Task)
           /\ DOMAIN task' = DOMAIN task
           /\ \A v \in DOMAIN task \ {w} : task'[v] = task[v]
           /\ task'[w].pc = "log" /\ task'[w].event = task[w].event
           /\ task'[w].result = result
<1> DEFINE new == [task[w] EXCEPT !.pc = "log", !.result = result]
<1>1. /\ new \in Task /\ new.pc = "log" /\ new.event = task[w].event
      /\ new.result = result
  BY TaskFields DEF Task
<1>2. task' = [task EXCEPT ![w] = new]
  BY DEF Conclude
<1> HIDE DEF new
<1> QED
  BY <1>1, <1>2, UpdateTable DEF LogType, IsTable

\* A task that did nothing still agrees.
LEMMA TaskKept ==
    ASSUME NEW w \in DOMAIN task, TaskAgrees(w),
           w \in DOMAIN task', task'[w] = task[w], asks' = asks,
           task[w].event \in DOMAIN event',
           event'[task[w].event] = event[task[w].event],
           answers'[task[w].event] = answers[task[w].event],
           \A v \in DOMAIN task' \ {w} :
                task'[v].event = task[w].event => task'[v].pc = "create",
           task[w].pc = "pay" => w \in DOMAIN job' /\ job'[w] = job[w]
    PROVE  TaskAgrees(w)'
  BY DEF TaskAgrees

\* What is answered stays answered when neither the answer nor the log changes.
LEMMA AnswersFrame ==
    ASSUME AnsweredOnce,
           \A e \in Events : answers'[e] # <<>> =>
                /\ answers'[e] = answers[e]
                /\ e \in DOMAIN event => e \in DOMAIN event' /\ event'[e] = event[e]
    PROVE  AnsweredOnce'
  BY DEF AnsweredOnce

\* The other tasks when v handles its event: they handle other events.
LEMMA OtherTasks ==
    ASSUME NwcConsistent, NEW v \in DOMAIN task, task[v].pc # "create",
           asks' = asks, DOMAIN task' \subseteq DOMAIN task,
           \A x \in DOMAIN task' \ {v} : task'[x] = task[x],
           v \in DOMAIN task' => task'[v].event = task[v].event,
           \A e \in Events \ {task[v].event} :
                /\ e \in DOMAIN event => e \in DOMAIN event' /\ event'[e] = event[e]
                /\ answers'[e] = answers[e],
           \A x \in DOMAIN job \ {v} : x \in DOMAIN job' /\ job'[x] = job[x]
    PROVE  \A x \in DOMAIN task' \ {v} : task'[x].pc # "create" => TaskAgrees(x)'
<1> SUFFICES ASSUME NEW x \in DOMAIN task' \ {v}, task'[x].pc # "create"
             PROVE  TaskAgrees(x)'
  OBVIOUS
<1>1. /\ x \in DOMAIN task /\ x # v /\ task'[x] = task[x] /\ TaskAgrees(x)
      /\ task[x].event \in Events
  BY NwcTypeParts, TaskFields DEF NwcConsistent, TasksAgree
<1>2. task[x].event # task[v].event /\ task[x].event \in DOMAIN event
  BY <1>1 DEF TaskAgrees
<1>3. task[x].pc = "pay" => x \in DOMAIN job
  BY <1>1 DEF TaskAgrees
<1>4. \A y \in DOMAIN task' \ {x} :
            task'[y].event = task[x].event => task'[y].pc = "create"
  BY <1>1, <1>2 DEF TaskAgrees
<1> QED
  BY <1>1, <1>2, <1>3, <1>4, TaskKept

\* What the tasks, the log and the answers go through in one step.
LogStep ==
    /\ LogType' /\ TasksAgree' /\ AnsweredOnce'
    /\ \A e \in DOMAIN event :
            e \in DOMAIN event' /\ (event[e] # "Created" => event'[e] = event[e])

\* A step of other parts of the program.
LEMMA LogFrame ==
    ASSUME NwcConsistent, UNCHANGED nwcVars,
           \A x \in DOMAIN task : task[x].pc = "pay" /\ x \in DOMAIN job =>
                x \in DOMAIN job' /\ job'[x] = job[x]
    PROVE  LogStep
<1>1. LogType'
  BY NwcTypeParts DEF NwcConsistent, LogType, nwcVars
<1>2. AnsweredOnce'
  BY DEF NwcConsistent, AnsweredOnce, nwcVars
<1>3. TasksAgree'
  BY DEF NwcConsistent, TasksAgree, TaskAgrees, nwcVars
<1> QED
  BY <1>1, <1>2, <1>3 DEF LogStep, nwcVars

\* A task ends, or all do, with the log and the answers as they were.
LEMMA TasksEnd ==
    ASSUME NwcConsistent, UNCHANGED <<asks, event, answers>>,
           IsTable(task', Workers, Task), DOMAIN task' \subseteq DOMAIN task,
           \A x \in DOMAIN task' : task'[x] = task[x],
           \A x \in DOMAIN task' : task[x].pc = "pay" /\ x \in DOMAIN job =>
                x \in DOMAIN job' /\ job'[x] = job[x]
    PROVE  LogStep
<1>1. LogType'
  BY NwcTypeParts DEF NwcConsistent, LogType
<1>2. AnsweredOnce'
  BY DEF NwcConsistent, AnsweredOnce
<1>3. TasksAgree'
  BY DEF NwcConsistent, TasksAgree, TaskAgrees
<1> QED
  BY <1>1, <1>2, <1>3 DEF LogStep

\* A delivery adds a task that knows nothing.
LEMMA DeliverStep ==
    ASSUME NwcConsistent, NEW w \in Workers, NEW e \in Events, Deliver(w, e)
    PROVE  LogStep
<1> DEFINE new == [pc |-> "create", event |-> e, result |-> "none"]
<1>1. new \in Task /\ new.pc = "create"
  BY DEF Task
<1>2. w \notin DOMAIN task /\ task' = Insert(task, w, new)
  BY DEF Deliver
<1> HIDE DEF new
<1>3. IsTable(task', Workers, Task)
  BY <1>1, <1>2, InsertTable, NwcTypeParts DEF NwcConsistent, LogType
<1>4. /\ DOMAIN task' = DOMAIN task \cup {w} /\ task'[w] = new
      /\ \A x \in DOMAIN task : task'[x] = task[x]
  BY <1>2 DEF Insert
<1>5. UNCHANGED <<job, asks, event, answers>>
  BY DEF Deliver, vars, payVars
<1>6. LogType'
  BY <1>3, <1>5, NwcTypeParts DEF NwcConsistent, LogType
<1>7. AnsweredOnce'
  BY <1>5 DEF NwcConsistent, AnsweredOnce
<1>8. ASSUME NEW x \in DOMAIN task', task'[x].pc # "create"
      PROVE  TaskAgrees(x)'
  <2>1. x \in DOMAIN task /\ TaskAgrees(x) /\ task'[x] = task[x]
    BY <1>1, <1>4, <1>8 DEF NwcConsistent, TasksAgree
  <2> QED
    BY <1>1, <1>4, <1>5, <2>1 DEF TaskAgrees
<1> QED
  BY <1>5, <1>6, <1>7, <1>8 DEF LogStep, TasksAgree

\* The insertion of the event: the first delivery takes it, the others end.
LEMMA CreateEventStep ==
    ASSUME NwcConsistent, NEW w \in DOMAIN task, CreateEvent(w)
    PROVE  LogStep
<1> DEFINE e == task[w].event
<1>0. LogType /\ e \in Events /\ task[w].pc = "create"
  BY NwcTypeParts, TaskFields DEF NwcConsistent, CreateEvent
<1>1. UNCHANGED <<job, asks, answers>>
  BY DEF CreateEvent, vars, payVars
<1>2. CASE Finish(w) /\ UNCHANGED event
  BY <1>0, <1>1, <1>2, FinishEffect, TasksEnd
<1>3. CASE /\ e \notin DOMAIN event
           /\ event' = Insert(event, e, "Created")
           /\ task' = [task EXCEPT ![w].pc = "handle"]
  <2>1. /\ IsTable(task', Workers, Task) /\ DOMAIN task' = DOMAIN task
        /\ \A v \in DOMAIN task \ {w} : task'[v] = task[v]
        /\ task'[w].pc = "handle" /\ task'[w].event = e
    BY <1>0, <1>3, TaskGoesOn
  <2>2. IsTable(event', Events, EventStatus)
    BY <1>0, <1>3, InsertTable DEF LogType, EventStatus
  <2>3. /\ DOMAIN event' = DOMAIN event \cup {e} /\ event'[e] = "Created"
        /\ \A f \in DOMAIN event : event'[f] = event[f]
    BY <1>3 DEF Insert
  <2>4. LogType'
    BY <1>0, <1>1, <2>1, <2>2 DEF LogType
  <2>5. answers[e] = <<>>
    BY <1>0, <1>3 DEF NwcConsistent, AnsweredOnce
  <2>6. AnsweredOnce'
    BY <1>1, <2>3, AnswersFrame DEF NwcConsistent
  <2>7. \A x \in DOMAIN task : task[x].pc # "create" =>
            TaskAgrees(x) /\ task[x].event \in DOMAIN event
    BY DEF NwcConsistent, TasksAgree, TaskAgrees
  <2>8. TaskAgrees(w)'
    BY <1>1, <1>3, <2>1, <2>3, <2>5, <2>7 DEF TaskAgrees
  <2>9. ASSUME NEW x \in DOMAIN task \ {w}, task'[x].pc # "create"
        PROVE  TaskAgrees(x)'
    <3>1. /\ TaskAgrees(x) /\ task'[x] = task[x] /\ task[x].event # e
          /\ task[x].event \in DOMAIN event
      BY <1>3, <2>1, <2>7, <2>9
    <3>2. \A y \in DOMAIN task' \ {x} :
                task'[y].event = task[x].event => task'[y].pc = "create"
      BY <2>1, <3>1 DEF TaskAgrees
    <3>3. task[x].pc = "pay" => x \in DOMAIN job' /\ job'[x] = job[x]
      BY <1>1, <3>1 DEF TaskAgrees
    <3> QED
      BY <1>1, <2>1, <2>3, <3>1, <3>2, <3>3, TaskKept
  <2> QED
    BY <2>1, <2>3, <2>4, <2>6, <2>8, <2>9 DEF LogStep, TasksAgree
<1> QED
  BY <1>2, <1>3 DEF CreateEvent, Repeated

\* A request that cannot be read ends its task.
LEMMA RejectStep ==
    ASSUME NwcConsistent, NEW w \in DOMAIN task, Reject(w)
    PROVE  LogStep
<1> DEFINE e == task[w].event
<1>0. /\ LogType /\ e \in Events /\ task[w].pc = "handle"
      /\ TaskAgrees(w) /\ e \in DOMAIN event /\ event[e] = "Created"
      /\ answers[e] = <<>>
  BY NwcTypeParts, TaskFields DEF NwcConsistent, Reject, TasksAgree, TaskAgrees
<1>1. UNCHANGED <<job, asks, answers>>
  BY DEF Reject, vars, payVars
<1>2. /\ IsTable(task', Workers, Task) /\ DOMAIN task' = DOMAIN task \ {w}
      /\ \A v \in DOMAIN task' : task'[v] = task[v]
  BY <1>0, FinishEffect DEF Reject
<1>3. event' = [event EXCEPT ![e] = "Failed"]
  BY DEF Reject
<1>4. IsTable(event', Events, EventStatus)
  BY <1>0, <1>3, UpdateTable DEF LogType, EventStatus
<1>5. /\ DOMAIN event' = DOMAIN event
      /\ \A f \in DOMAIN event \ {e} : event'[f] = event[f]
  BY <1>0, <1>3 DEF LogType, IsTable
<1>6. LogType'
  BY <1>0, <1>1, <1>2, <1>4 DEF LogType
<1>7. AnsweredOnce'
  BY <1>0, <1>1, <1>5, AnswersFrame DEF NwcConsistent
<1>8. TasksAgree'
  BY <1>0, <1>1, <1>2, <1>5, OtherTasks DEF TasksAgree
<1> QED
  BY <1>0, <1>5, <1>6, <1>7, <1>8 DEF LogStep

\* A task goes on with its event, with the log and the answers as they were.
LEMMA TaskStep ==
    ASSUME NwcConsistent, NEW w \in DOMAIN task, task[w].pc # "create",
           UNCHANGED <<asks, event, answers>>,
           IsTable(task', Workers, Task), DOMAIN task' = DOMAIN task,
           \A v \in DOMAIN task \ {w} : task'[v] = task[v],
           task'[w].event = task[w].event,
           \A v \in DOMAIN job \ {w} : v \in DOMAIN job' /\ job'[v] = job[v],
           task'[w].pc \in {"pay", "log"}, task[w].pc \in {"handle", "pay"},
           task'[w].pc = "log" => task'[w].result \in Answer,
           task'[w].pc = "pay" =>
                LET e == task[w].event
                IN  /\ asks[e] \in Hashes /\ w \in DOMAIN job'
                    /\ job'[w].hash = asks[e] /\ job'[w].user_id = Author[e]
                    /\ ~job'[w].ignore_result
    PROVE  LogStep
<1>1. LogType'
  BY NwcTypeParts DEF NwcConsistent, LogType
<1>2. AnsweredOnce'
  BY DEF NwcConsistent, AnsweredOnce
<1>3. TaskAgrees(w)
  BY DEF NwcConsistent, TasksAgree
<1>4. TaskAgrees(w)'
  BY <1>3 DEF TaskAgrees
<1>5. \A x \in DOMAIN task' \ {w} : task'[x].pc # "create" => TaskAgrees(x)'
  BY OtherTasks
<1>6. TasksAgree'
  BY <1>4, <1>5 DEF TasksAgree
<1> QED
  BY <1>1, <1>2, <1>6 DEF LogStep

\* handle_request returns without a payment.
LEMMA ConcludeStep ==
    ASSUME NwcConsistent, NEW w \in DOMAIN task, Refuse(w) \/ GetBalance(w)
    PROVE  LogStep
<1>1. PICK result \in Answer : Conclude(w, result)
  BY DEF Refuse, GetBalance, Answer
<1>2. task[w].pc = "handle" /\ UNCHANGED <<job, asks, event, answers>>
  BY DEF Refuse, GetBalance, vars, payVars
<1>3. LogType
  BY NwcTypeParts DEF NwcConsistent
<1>4. /\ IsTable(task', Workers, Task) /\ DOMAIN task' = DOMAIN task
      /\ \A v \in DOMAIN task \ {w} : task'[v] = task[v]
      /\ task'[w].pc = "log" /\ task'[w].event = task[w].event
      /\ task'[w].result = result
  BY <1>1, <1>3, ConcludeEffect
<1> QED
  BY <1>1, <1>2, <1>4, TaskStep

\* The task begins to pay what its event asks for, for its author.
LEMMA PayInvoiceStep ==
    ASSUME NwcConsistent, NEW w \in DOMAIN task, PayInvoice(w)
    PROVE  LogStep
<1> DEFINE e == task[w].event
<1>1. /\ task[w].pc = "handle" /\ asks[e] \in Hashes
      /\ Begin(w, Author[e], asks[e], FALSE)
      /\ task' = [task EXCEPT ![w].pc = "pay"]
      /\ UNCHANGED <<asks, event, answers>>
  BY DEF PayInvoice
<1>2. LogType /\ w \in Workers /\ Author[e] \in Users
  BY NwcTypeParts, TaskFields, NwcAssumption DEF NwcConsistent
<1>3. /\ w \in DOMAIN job' /\ job'[w].hash = asks[e]
      /\ job'[w].user_id = Author[e] /\ ~job'[w].ignore_result
  BY <1>1 DEF Begin, Insert
<1>4. \A v \in DOMAIN job \ {w} : v \in DOMAIN job' /\ job'[v] = job[v]
  BY <1>1 DEF Begin, Insert
<1>5. /\ IsTable(task', Workers, Task) /\ DOMAIN task' = DOMAIN task
      /\ \A v \in DOMAIN task \ {w} : task'[v] = task[v]
      /\ task'[w].pc = "pay" /\ task'[w].event = e
  BY <1>1, <1>2, TaskGoesOn
<1> QED
  BY <1>1, <1>3, <1>4, <1>5, TaskStep

\* The task is in `pay`, which goes on, returns or fails.
LEMMA PayingStep ==
    ASSUME NwcConsistent, NEW w \in DOMAIN task, Paying(w) \/ PayErrs(w)
    PROVE  LogStep
<1> DEFINE e == task[w].event
<1>1. /\ task[w].pc = "pay" /\ UNCHANGED <<asks, event, answers>>
      /\ Handler(w) \/ PayFails(w) \/ Abandon(w)
  BY DEF Paying, PayErrs
<1>2. /\ LogType /\ w \in Workers /\ TypeOK /\ TaskAgrees(w)
  BY <1>1, NwcTypeParts, TaskFields DEF NwcConsistent, TasksAgree
<1>3. /\ asks[e] \in Hashes /\ w \in DOMAIN job /\ job[w].hash = asks[e]
      /\ job[w].user_id = Author[e] /\ ~job[w].ignore_result
  BY <1>1, <1>2 DEF TaskAgrees
<1>4. \A v \in DOMAIN job \ {w} : v \in DOMAIN job' /\ job'[v] = job[v]
  BY <1>1, <1>2, OtherJobs
<1>5. ASSUME NEW result \in Answer, Conclude(w, result)
      PROVE  LogStep
  <2>1. /\ IsTable(task', Workers, Task) /\ DOMAIN task' = DOMAIN task
        /\ \A v \in DOMAIN task \ {w} : task'[v] = task[v]
        /\ task'[w].pc = "log" /\ task'[w].event = e
        /\ task'[w].result = result
    BY <1>2, <1>5, ConcludeEffect
  <2> QED
    BY <1>1, <1>4, <1>5, <2>1, TaskStep
<1>6. ASSUME UNCHANGED task, w \in DOMAIN job', Handler(w) \/ PayFails(w)
      PROVE  LogStep
  <2>1. /\ job'[w].hash = asks[e] /\ job'[w].user_id = Author[e]
        /\ ~job'[w].ignore_result
    BY <1>2, <1>3, <1>6, OwnJob
  <2>2. IsTable(task', Workers, Task)
    BY <1>2, <1>6 DEF LogType
  <2> QED
    BY <1>1, <1>3, <1>4, <1>6, <2>1, <2>2, TaskStep
<1>7. PayFails(w) => w \in DOMAIN job'
  BY <1>3 DEF PayFails, Goto
<1> QED
  BY <1>5, <1>6, <1>7 DEF Paying, PayErrs, Answer

\* The outcome is logged before it is answered.
LEMMA LogEventStep ==
    ASSUME NwcConsistent, NEW w \in DOMAIN task, LogEvent(w)
    PROVE  LogStep
<1> DEFINE e == task[w].event
           status == IF task[w].result = "ok" THEN "Succeeded" ELSE "Failed"
<1>0. /\ LogType /\ e \in Events /\ task[w].pc = "log"
      /\ TaskAgrees(w) /\ e \in DOMAIN event /\ event[e] = "Created"
      /\ answers[e] = <<>> /\ task[w].result \in Answer
  BY NwcTypeParts, TaskFields DEF NwcConsistent, LogEvent, TasksAgree, TaskAgrees
<1>1. UNCHANGED <<job, asks, answers>>
  BY DEF LogEvent, vars, payVars
<1>2. /\ IsTable(task', Workers, Task) /\ DOMAIN task' = DOMAIN task
      /\ \A v \in DOMAIN task \ {w} : task'[v] = task[v]
      /\ task'[w].pc = "answer" /\ task'[w].event = e
      /\ task'[w].result = task[w].result
  BY <1>0, TaskGoesOn DEF LogEvent
<1>3. event' = [event EXCEPT ![e] = status] /\ status \in EventStatus
  BY DEF LogEvent, EventStatus
<1> HIDE DEF status
<1>4. IsTable(event', Events, EventStatus)
  BY <1>0, <1>3, UpdateTable DEF LogType
<1>5. /\ DOMAIN event' = DOMAIN event /\ event'[e] = status
      /\ \A f \in DOMAIN event \ {e} : event'[f] = event[f]
  BY <1>0, <1>3 DEF LogType, IsTable
<1>6. LogType'
  BY <1>0, <1>1, <1>2, <1>4 DEF LogType
<1>7. AnsweredOnce'
  BY <1>0, <1>1, <1>5, AnswersFrame DEF NwcConsistent
<1>8. TaskAgrees(w)'
  BY <1>0, <1>1, <1>2, <1>5 DEF TaskAgrees, status
<1>9. \A x \in DOMAIN task' \ {w} : task'[x].pc # "create" => TaskAgrees(x)'
  BY <1>0, <1>1, <1>2, <1>5, OtherTasks
<1> QED
  BY <1>0, <1>5, <1>6, <1>7, <1>8, <1>9 DEF LogStep, TasksAgree

\* The answer, which says what the log says.
LEMMA SendAnswerStep ==
    ASSUME NwcConsistent, NEW w \in DOMAIN task, SendAnswer(w)
    PROVE  LogStep
<1> DEFINE e == task[w].event
           r == task[w].result
<1>0. /\ LogType /\ e \in Events /\ task[w].pc = "answer"
      /\ TaskAgrees(w) /\ e \in DOMAIN event /\ r \in Answer
      /\ event[e] = IF r = "ok" THEN "Succeeded" ELSE "Failed"
      /\ answers[e] = <<>>
  BY NwcTypeParts, TaskFields DEF NwcConsistent, SendAnswer, TasksAgree, TaskAgrees
<1>1. UNCHANGED <<job, asks, event>>
  BY DEF SendAnswer, vars, payVars
<1>2. /\ IsTable(task', Workers, Task) /\ DOMAIN task' = DOMAIN task \ {w}
      /\ \A v \in DOMAIN task' : task'[v] = task[v]
  BY <1>0, FinishEffect DEF SendAnswer
<1>3. answers' = [answers EXCEPT ![e] = Append(answers[e], r)]
  BY DEF SendAnswer
<1>4. /\ answers'[e] = <<r>> /\ answers' \in [Events -> Seq(Answer)]
      /\ \A f \in Events \ {e} : answers'[f] = answers[f]
  BY <1>0, <1>3 DEF LogType
<1>5. LogType'
  BY <1>0, <1>1, <1>2, <1>4 DEF LogType
<1>6. /\ Len(<<r>>) = 1
      /\ event[e] = IF <<r>> = <<"ok">> THEN "Succeeded" ELSE "Failed"
  BY <1>0
<1>7. AnsweredOnce'
  BY <1>0, <1>1, <1>4, <1>6 DEF NwcConsistent, AnsweredOnce
<1>8. TasksAgree'
  BY <1>0, <1>1, <1>2, <1>4, OtherTasks DEF TasksAgree
<1> QED
  BY <1>1, <1>5, <1>7, <1>8 DEF LogStep

\* Every step keeps what the tasks, the log and the answers agree on.
LEMMA NextLogStep ==
    ASSUME NwcConsistent, [NwcNext]_allVars
    PROVE  LogStep
<1>1. ASSUME NEW w \in Workers, EventTask(w) \/ PayErrs(w)
      PROVE  LogStep
  <2>1. w \in DOMAIN task
    BY <1>1 DEF EventTask, PayErrs
  <2> QED
    BY <1>1, <2>1, CreateEventStep, RejectStep, ConcludeStep, PayInvoiceStep,
       PayingStep, LogEventStep, SendAnswerStep DEF EventTask
<1>2. ASSUME NEW w \in Workers, TaskFails(w)
      PROVE  LogStep
  BY <1>2, FinishEffect, TasksEnd, NwcTypeParts
     DEF NwcConsistent, TaskFails, payVars
<1>3. ASSUME NEW w \in Workers, Lndhub(w)
      PROVE  LogStep
  <2>1. \A v \in DOMAIN job \ {w} : v \in DOMAIN job' /\ job'[v] = job[v]
    <3>1. TypeOK
      BY DEF NwcConsistent, Consistent
    <3> QED
      BY <1>3, <3>1, OtherJobs DEF Lndhub
  <2> QED
    BY <1>3, <2>1, LogFrame DEF Lndhub
<1>4. CASE Background
  <2>1. UNCHANGED job
    BY <1>4 DEF Background, SyncTask, SyncRead, SyncList, SyncRefund,
                SyncReadUser, SyncCharge, SyncDone, SyncFails, Node,
                NodeStarts, NodeEnds
  <2> QED
    BY <1>4, <2>1, LogFrame DEF Background
<1>5. CASE Restart
  <2>1. task' = <<>> /\ UNCHANGED <<asks, event, answers>>
    BY <1>5 DEF Restart
  <2> QED
    BY <2>1, EmptyTable, TasksEnd
<1>6. CASE UNCHANGED allVars
  BY <1>6, LogFrame DEF allVars, vars, payVars
<1> QED
  BY <1>1, <1>2, <1>3, <1>4, <1>5, <1>6, DeliverStep DEF NwcNext

----------------------------------------------------------------------------
(* Success.                                                                *)

\* No new success: what is paid stays paid.
LEMMA SuccessKept ==
    ASSUME SuccessAgrees, asks' = asks,
           \A e \in Events : Success(e)' => Success(e),
           \A h \in DOMAIN payment :
                payment[h].status = "Paid" =>
                    h \in DOMAIN payment' /\ payment'[h] = payment[h]
    PROVE  SuccessAgrees'
  BY DEF SuccessAgrees

\* One new success, of a payment that was pending: no earlier one was for it.
LEMMA SuccessNew ==
    ASSUME SuccessAgrees, asks' = asks, NEW new \in Events,
           \A e \in Events : Success(e)' => Success(e) \/ e = new,
           \A h \in DOMAIN payment :
                payment[h].status = "Paid" =>
                    h \in DOMAIN payment' /\ payment'[h] = payment[h],
           asks[new] \in Hashes =>
                /\ asks[new] \in DOMAIN payment
                /\ payment[asks[new]].status # "Paid"
                /\ asks[new] \in DOMAIN payment'
                /\ payment'[asks[new]].status = "Paid"
                /\ payment'[asks[new]].user_id = Author[new]
    PROVE  SuccessAgrees'
<1>1. ASSUME NEW e \in Events, Success(e), asks[e] \in Hashes
      PROVE  asks[e] # asks[new]
  BY <1>1 DEF SuccessAgrees
<1> SUFFICES ASSUME NEW e \in Events, Success(e)', asks[e] \in Hashes
             PROVE  /\ asks[e] \in DOMAIN payment'
                    /\ payment'[asks[e]].status = "Paid"
                    /\ payment'[asks[e]].user_id = Author[e]
                    /\ \A f \in Events \ {e} : Success(f)' => asks[f] # asks[e]
  BY DEF SuccessAgrees
<1>2. CASE e = new
  BY <1>1, <1>2
<1>3. CASE Success(e) /\ e # new
  BY <1>1, <1>3 DEF SuccessAgrees
<1> QED
  BY <1>2, <1>3

\* Steps after which no task is newly concluded with "ok" and no event is newly
\* logged as succeeded bring no success.
LEMMA NoSuccess ==
    ASSUME \A e \in DOMAIN event' :
                event'[e] = "Succeeded" => e \in DOMAIN event /\ event[e] = "Succeeded",
           \A w \in DOMAIN task' :
                task'[w].pc = "log" /\ task'[w].result = "ok" =>
                    w \in DOMAIN task /\ task'[w] = task[w]
    PROVE  \A e \in Events : Success(e)' => Success(e)
  BY DEF Success

\* A request concluded with an error, or for something else than a payment, or
\* with a payment just made.
LEMMA ConcludeSuccess ==
    ASSUME NwcConsistent, NEW w \in DOMAIN task, NEW result \in Answer,
           Conclude(w, result), UNCHANGED event
    PROVE  \A e \in Events : Success(e)' =>
                Success(e) \/ (result = "ok" /\ e = task[w].event)
<1>1. LogType
  BY NwcTypeParts DEF NwcConsistent
<1> QED
  BY <1>1, ConcludeEffect DEF Success

\* Every step keeps the successes true.
LEMMA StepSuccess ==
    ASSUME NwcConsistent, [NwcNext]_allVars
    PROVE  SuccessAgrees'
<1> DEFINE PaidKept == \A h \in DOMAIN payment :
                payment[h].status = "Paid" =>
                    h \in DOMAIN payment' /\ payment'[h] = payment[h]
<1>1. PaidKept /\ SuccessAgrees /\ LogType
  BY PaymentsBelow, NwcTypeParts DEF NwcConsistent
<1>2. asks' = asks
  BY DEF NwcNext, Deliver, EventTask, CreateEvent, Reject, Refuse, GetBalance,
         PayInvoice, Paying, LogEvent, SendAnswer, PayErrs, TaskFails, Lndhub,
         Background, Restart, allVars, nwcVars
<1>3. ASSUME UNCHANGED <<event, task>>
      PROVE  SuccessAgrees'
  BY <1>1, <1>2, <1>3, SuccessKept DEF Success
<1>4. ASSUME UNCHANGED event, NEW w, Finish(w)
      PROVE  SuccessAgrees'
  BY <1>1, <1>2, <1>4, FinishEffect, NoSuccess, SuccessKept
<1>5. ASSUME UNCHANGED event, NEW w \in DOMAIN task, Conclude(w, "error")
      PROVE  SuccessAgrees'
  <2>1. \A e \in Events : Success(e)' => Success(e)
    BY <1>5, ConcludeSuccess DEF Answer
  <2> QED
    BY <1>1, <1>2, <2>1, SuccessKept
<1>6. ASSUME UNCHANGED event, NEW w \in DOMAIN task, NEW pc \in {"handle", "pay"},
             task' = [task EXCEPT ![w].pc = pc]
      PROVE  SuccessAgrees'
  BY <1>1, <1>2, <1>6, TaskGoesOn, NoSuccess, SuccessKept
<1>7. ASSUME NEW w \in DOMAIN task, EventTask(w)
      PROVE  SuccessAgrees'
  <2> DEFINE e == task[w].event
  <2>0. e \in Events /\ w \in Workers
    BY <1>1, TaskFields
  <2>1. CASE CreateEvent(w)
    <3>1. CASE Finish(w) /\ UNCHANGED event
      BY <1>4, <3>1
    <3>2. CASE /\ e \notin DOMAIN event
               /\ event' = Insert(event, e, "Created")
               /\ task' = [task EXCEPT ![w].pc = "handle"]
      <4>1. \A f \in DOMAIN event' : event'[f] = "Succeeded" =>
                f \in DOMAIN event /\ event[f] = "Succeeded"
        BY <3>2 DEF Insert
      <4> QED
        BY <1>1, <1>2, <3>2, <4>1, TaskGoesOn, NoSuccess, SuccessKept
    <3> QED
      BY <2>1, <3>1, <3>2 DEF CreateEvent, Repeated
  <2>2. CASE Reject(w)
    <3>1. \A f \in DOMAIN event' : event'[f] = "Succeeded" =>
                f \in DOMAIN event /\ event[f] = "Succeeded"
      BY <1>1, <2>2 DEF Reject, LogType, IsTable
    <3> QED
      BY <1>1, <1>2, <2>2, <3>1, FinishEffect, NoSuccess, SuccessKept DEF Reject
  <2>3. CASE Refuse(w)
    BY <1>5, <2>3 DEF Refuse
  <2>4. CASE GetBalance(w)
    <3>1. asks[e] = "balance" /\ Conclude(w, "ok") /\ UNCHANGED event
      BY <2>4 DEF GetBalance
    <3>2. \A f \in Events : Success(f)' => Success(f) \/ f = e
      BY <1>7, <3>1, ConcludeSuccess DEF Answer
    <3>3. asks[e] \notin Hashes
      BY <3>1, NwcAssumption
    <3> QED
      BY <1>1, <1>2, <2>0, <3>2, <3>3, SuccessNew
  <2>5. CASE PayInvoice(w)
    BY <1>6, <1>7, <2>5 DEF PayInvoice
  <2>6. CASE Paying(w)
    <3>1. CASE UNCHANGED task
      BY <1>3, <2>6, <3>1 DEF Paying
    <3>2. CASE Conclude(w, "error")
      BY <1>5, <1>7, <2>6, <3>2 DEF Paying
    <3>3. CASE Succeeds(w) /\ Conclude(w, "ok")
      <4>1. \A f \in Events : Success(f)' => Success(f) \/ f = e
        BY <1>7, <2>6, <3>3, ConcludeSuccess DEF Answer, Paying
      <4>2. /\ w \in DOMAIN job /\ job[w].hash = asks[e]
            /\ job[w].user_id = Author[e]
        BY <1>7, <2>6 DEF Paying, NwcConsistent, TasksAgree, TaskAgrees
      <4>3. /\ asks[e] \in DOMAIN payment /\ payment[asks[e]].status = "Unpaid"
            /\ asks[e] \in DOMAIN payment' /\ payment'[asks[e]].status = "Paid"
            /\ payment'[asks[e]].user_id = Author[e]
        BY <2>6, <3>3, <4>2, ChargeSucceeds DEF Paying, NwcConsistent
      <4> QED
        BY <1>1, <1>2, <2>0, <4>1, <4>3, SuccessNew
    <3> QED
      BY <2>6, <3>1, <3>2, <3>3 DEF Paying
  <2>7. CASE LogEvent(w)
    <3>1. /\ task[w].pc = "log" /\ task' = [task EXCEPT ![w].pc = "answer"]
          /\ event' = [event EXCEPT ![e] =
                    IF task[w].result = "ok" THEN "Succeeded" ELSE "Failed"]
      BY <2>7 DEF LogEvent
    <3>2. /\ DOMAIN task' = DOMAIN task /\ task'[w].pc = "answer"
          /\ \A v \in DOMAIN task \ {w} : task'[v] = task[v]
      BY <1>1, <1>7, <3>1, TaskGoesOn
    <3>3. \A f \in DOMAIN event' : f \in DOMAIN event /\
                (event'[f] = "Succeeded" =>
                    event[f] = "Succeeded" \/ (f = e /\ task[w].result = "ok"))
      BY <1>1, <3>1 DEF LogType, IsTable
    <3>4. \A f \in Events : Success(f)' => Success(f)
      BY <1>7, <3>1, <3>2, <3>3 DEF Success
    <3> QED
      BY <1>1, <1>2, <3>4, SuccessKept
  <2>8. CASE SendAnswer(w)
    BY <1>4, <2>8 DEF SendAnswer
  <2> QED
    BY <1>7, <2>1, <2>2, <2>3, <2>4, <2>5, <2>6, <2>7, <2>8 DEF EventTask
<1>8. ASSUME NEW w \in DOMAIN task, PayErrs(w)
      PROVE  SuccessAgrees'
  BY <1>3, <1>5, <1>8 DEF PayErrs
<1>9. ASSUME NEW w \in Workers, TaskFails(w)
      PROVE  SuccessAgrees'
  BY <1>4, <1>9 DEF TaskFails
<1>10. ASSUME NEW w \in Workers, NEW e \in Events, Deliver(w, e)
       PROVE  SuccessAgrees'
  <2> DEFINE new == [pc |-> "create", event |-> e, result |-> "none"]
  <2>1. new.pc = "create"
    OBVIOUS
  <2>2. task' = Insert(task, w, new) /\ w \notin DOMAIN task /\ UNCHANGED event
    BY <1>10 DEF Deliver
  <2> HIDE DEF new
  <2>3. \A f \in Events : Success(f)' => Success(f)
    BY <2>1, <2>2, NoSuccess DEF Insert
  <2> QED
    BY <1>1, <1>2, <2>3, SuccessKept
<1>11. CASE Restart
  BY <1>1, <1>2, <1>11, EmptyTable, NoSuccess, SuccessKept DEF Restart
<1> QED
  BY <1>3, <1>7, <1>8, <1>9, <1>10, <1>11
     DEF NwcNext, EventTask, PayErrs, Lndhub, Background, nwcVars, allVars

----------------------------------------------------------------------------
(* The theorems.                                                           *)

\* The initial states are consistent.
LEMMA NwcInitConsistent == NwcInit => NwcConsistent
<1> SUFFICES ASSUME NwcInit PROVE NwcConsistent
  OBVIOUS
<1>1. Consistent /\ TypeOK
  BY InitConsistent, InitType DEF NwcInit
<1>2. LogType
  BY EmptyTable DEF NwcInit, LogType
<1>3. TasksAgree /\ SuccessAgrees /\ AnsweredOnce
  BY EmptyTable DEF NwcInit, TasksAgree, SuccessAgrees, Success, AnsweredOnce
<1> QED
  BY <1>1, <1>2, <1>3, NwcTypeParts DEF NwcConsistent

\* The inductive invariant, of the payments, the tasks, the log and the answers
\* together.
THEOREM NwcAlwaysConsistent == NwcSpec => []NwcConsistent
<1>1. ASSUME NwcConsistent, [NwcNext]_allVars
      PROVE  NwcConsistent'
  <2>1. Consistent' /\ TypeOK'
    BY <1>1, PaymentsBelow DEF Consistent
  <2>2. LogType' /\ TasksAgree' /\ AnsweredOnce'
    BY <1>1, NextLogStep DEF LogStep
  <2>3. SuccessAgrees'
    BY <1>1, StepSuccess
  <2> QED
    BY <2>1, <2>2, <2>3, NwcTypeParts DEF NwcConsistent
<1> QED
  BY <1>1, NwcInitConsistent, PTL DEF NwcSpec

\* However often an event is delivered, and whatever crashes in between, it is
\* answered once at most, with what the log says of it (handle_event).
THEOREM EventsAnsweredOnce == NwcSpec => []AnsweredOnce
<1>1. NwcConsistent => AnsweredOnce
  BY DEF NwcConsistent
<1> QED
  BY <1>1, NwcAlwaysConsistent, PTL

\* An event logged as succeeded has paid: its payment is charged to its author,
\* and no other event succeeded by the same payment (pay_invoice).
THEOREM SuccessesArePaid == NwcSpec => []SuccessIsPaid
<1>1. NwcConsistent => SuccessIsPaid
  <2> SUFFICES ASSUME NwcConsistent PROVE SuccessIsPaid
    OBVIOUS
  <2>1. \A e \in DOMAIN event : e \in Events
    BY NwcTypeParts DEF NwcConsistent, LogType, IsTable
  <2> QED
    BY <2>1 DEF NwcConsistent, SuccessAgrees, Success, SuccessIsPaid
<1> QED
  BY <1>1, NwcAlwaysConsistent, PTL

\* No handling of an event starts again, and its outcome stays what it is
\* (the unique index of `events`).
THEOREM EventsHandledOnce == NwcSpec => HandledOnce
<1>1. NwcConsistent /\ [NwcNext]_allVars =>
        [\A e \in DOMAIN event :
            /\ e \in DOMAIN event'
            /\ event[e] # "Created" => event'[e] = event[e]]_allVars
  BY NextLogStep DEF LogStep
<1> QED
  BY <1>1, NwcAlwaysConsistent, PTL DEF NwcSpec, HandledOnce

\* What is proved of the payments holds with wallet requests as well: locks are
\* accounted for, and no account is overdrawn.
THEOREM NwcKeepsLedger == NwcSpec => [](LockedFunds /\ NoOverdraft)
<1>1. NwcConsistent => LockedFunds /\ NoOverdraft
  BY DEF NwcConsistent, Consistent, Ledger
<1> QED
  BY <1>1, NwcAlwaysConsistent, PTL
=============================================================================
