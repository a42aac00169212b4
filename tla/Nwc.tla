-------------------------------- MODULE Nwc --------------------------------
(***************************************************************************)
(* Nostr Wallet Connect (nwc.rs): relays deliver request events, each one  *)
(* any number of times, and a task of its own handles every delivery.  The *)
(* unique index of the table `events` makes all but the first return.  The *)
(* first pays an invoice or reads a balance, logs the outcome and answers. *)
(*                                                                         *)
(* The payments are those of Payments: a task runs the handler of `pay`    *)
(* under its own name, next to handlers of the lndhub API.  Only external  *)
(* payments are asked for here.  Events of keys without permission change  *)
(* nothing and are left out, and so is the text of the answers.            *)
(***************************************************************************)
EXTENDS Payments

CONSTANTS
    Events,     \* request events, by their id
    Author      \* [Events -> Users]: the account of the key that signed it

ASSUME NwcAssumption ==
    /\ Author \in [Events -> Users]
    /\ "balance" \notin Hashes /\ "garbage" \notin Hashes

VARIABLES
    asks,       \* [Events -> Asked]: what the events say; never changes
    event,      \* rows of `events`, a function from a set of events
    task,       \* the running tasks: a function from a set of workers
    answers     \* [Events -> Seq(Answer)]: what the relays got (external)

nwcVars == <<asks, event, task, answers>>
allVars == <<vars, nwcVars>>

\* A payment, the balance, or nothing that parse_request accepts.
Asked == Hashes \cup {"balance", "garbage"}

EventStatus == {"Created", "Succeeded", "Failed"}

Answer == {"ok", "error"}

Task == [pc: {"create", "handle", "pay", "log", "answer"}, event: Events,
         result: Answer \cup {"none"}]

NwcInit ==
    /\ Init
    /\ asks \in [Events -> Asked]
    /\ event = <<>>
    /\ task = <<>>
    /\ answers = [e \in Events |-> <<>>]

----------------------------------------------------------------------------
(* The task of one delivery, handle_event.                                 *)

Finish(w) == task' = [v \in DOMAIN task \ {w} |-> task[v]]

\* handle_request has returned, with a result or an error.
Conclude(w, result) ==
    task' = [task EXCEPT ![w].pc = "log", ![w].result = result]

\* handle_notifications spawns a task and does not wait for it.
Deliver(w, e) ==
    /\ w \notin DOMAIN task \cup DOMAIN job
    /\ task' = Insert(task, w, [pc |-> "create", event |-> e, result |-> "none"])
    /\ UNCHANGED <<vars, asks, event, answers>>

\* Mutant: the table has no unique index.
RepeatedNever(e) == FALSE

\* The insertion violates the unique index of the event's id.
Repeated(e) == e \in DOMAIN event

CreateEvent(w) ==
    LET e == task[w].event
    IN  /\ task[w].pc = "create"
        /\ \/ /\ ~Repeated(e)
              /\ event' = Insert(event, e, "Created")
              /\ task' = [task EXCEPT ![w].pc = "handle"]
           \/ Repeated(e) /\ Finish(w) /\ UNCHANGED event
        /\ UNCHANGED <<vars, asks, answers>>

\* Mutant: an event that cannot be read is dropped.
RejectSilent(w) ==
    /\ task[w].pc = "handle" /\ asks[task[w].event] = "garbage"
    /\ Finish(w)
    /\ UNCHANGED <<vars, asks, event, answers>>

\* parse_request fails: the event is logged as failed and not answered.
Reject(w) ==
    /\ task[w].pc = "handle" /\ asks[task[w].event] = "garbage"
    /\ event' = [event EXCEPT ![task[w].event] = "Failed"]
    /\ Finish(w)
    /\ UNCHANGED <<vars, asks, answers>>

\* The request fails before it does anything: the event is too old, the rate
\* limit is reached, the author has no account, the invoice has expired, the
\* balance does not suffice, or a query fails.
Refuse(w) ==
    /\ task[w].pc = "handle" /\ asks[task[w].event] # "garbage"
    /\ Conclude(w, "error")
    /\ UNCHANGED <<vars, asks, event, answers>>

GetBalance(w) ==
    /\ task[w].pc = "handle" /\ asks[task[w].event] = "balance"
    /\ Conclude(w, "ok")
    /\ UNCHANGED <<vars, asks, event, answers>>

PayInvoice(w) ==
    LET e == task[w].event
    IN  /\ task[w].pc = "handle" /\ asks[e] \in Hashes
        /\ Begin(w, Author[e], asks[e], FALSE)
        /\ task' = [task EXCEPT ![w].pc = "pay"]
        /\ UNCHANGED <<asks, event, answers>>

\* Mutant: a payment in progress is a success.
SucceedsInProgress(w) ==
    \/ job[w].pc = "charge" /\ PaySuccessMatches(job[w].hash, Model(w))
    \/ job[w].pc = "lookup" /\ node[job[w].hash].state = "inflight"

\* `pay` returns the payment only when pay_success commits; a payment that is
\* still in progress, or that the task has charged meanwhile, is an error.
Succeeds(w) ==
    job[w].pc = "charge" /\ PaySuccessMatches(job[w].hash, Model(w))

\* One step of `pay`.  After the commit the row is read again, which may fail.
Paying(w) ==
    /\ task[w].pc = "pay"
    /\ Handler(w)
    /\ IF w \in DOMAIN job' THEN UNCHANGED task
       ELSE \/ Conclude(w, "error")
            \/ Succeeds(w) /\ Conclude(w, "ok")
    /\ UNCHANGED <<asks, event, answers>>

\* update_event_success or update_event_error, ...
LogEvent(w) ==
    /\ task[w].pc = "log"
    /\ event' = [event EXCEPT ![task[w].event] =
                    IF task[w].result = "ok" THEN "Succeeded" ELSE "Failed"]
    /\ task' = [task EXCEPT ![w].pc = "answer"]
    /\ UNCHANGED <<vars, asks, answers>>

\* ... and then send_event.
SendAnswer(w) ==
    /\ task[w].pc = "answer"
    /\ answers' = [answers EXCEPT ![task[w].event]
                                    = Append(@, task[w].result)]
    /\ Finish(w)
    /\ UNCHANGED <<vars, asks, event>>

EventTask(w) ==
    /\ w \in DOMAIN task
    /\ \/ CreateEvent(w) \/ Reject(w) \/ Refuse(w) \/ GetBalance(w)
       \/ PayInvoice(w) \/ Paying(w) \/ LogEvent(w) \/ SendAnswer(w)

\* A call or a query of `pay` fails: its error is logged and answered.
PayErrs(w) ==
    /\ w \in DOMAIN task /\ task[w].pc = "pay"
    /\ \/ PayFails(w) /\ UNCHANGED task
       \/ Abandon(w) /\ Conclude(w, "error")
    /\ UNCHANGED <<asks, event, answers>>

\* A query of the log or the sending fails: the task ends at once.
TaskFails(w) ==
    /\ w \in DOMAIN task
    /\ \/ task[w].pc \in {"create", "log", "answer"}
       \/ task[w].pc = "handle" /\ asks[task[w].event] = "garbage"
    /\ faults < MaxFaults
    /\ faults' = faults + 1
    /\ Finish(w)
    /\ UNCHANGED <<store, payVars, asks, event, answers>>

----------------------------------------------------------------------------
(* What runs next to it.                                                   *)

Lndhub(w) ==
    /\ w \notin DOMAIN task
    /\ \/ \E u \in Users, h \in Hashes : Begin(w, u, h, FALSE)
       \/ Handler(w) \/ PayFails(w) \/ Abandon(w)
    /\ UNCHANGED nwcVars

Background ==
    /\ SyncTask \/ SyncFails \/ \E h \in Hashes : Node(h)
    /\ UNCHANGED nwcVars

\* The process dies and starts again; relays repeat what is recent.
Restart ==
    /\ Crash
    /\ task' = <<>>
    /\ UNCHANGED <<asks, event, answers>>

NwcNext ==
    \/ \E w \in Workers, e \in Events : Deliver(w, e)
    \/ \E w \in Workers :
            EventTask(w) \/ PayErrs(w) \/ TaskFails(w) \/ Lndhub(w)
    \/ Background
    \/ Restart

\* A spawned task is polled whenever it can go on; no request drops it.
NwcSpec ==
    /\ NwcInit /\ [][NwcNext]_allVars
    /\ \A w \in Workers : WF_allVars(EventTask(w))
    /\ \A h \in Hashes : WF_allVars(Node(h) /\ UNCHANGED nwcVars)

----------------------------------------------------------------------------
(* Properties.                                                             *)

NwcTypeOK ==
    /\ TypeOK
    /\ asks \in [Events -> Asked]
    /\ DOMAIN event \subseteq Events /\ event \in [DOMAIN event -> EventStatus]
    /\ IsTable(task, Workers, Task)
    /\ answers \in [Events -> Seq(Answer)]

\* A task past the insertion is alone with its event, which is not answered.
TaskAgrees(w) ==
    LET e == task[w].event
    IN  /\ e \in DOMAIN event /\ answers[e] = <<>>
        /\ \A v \in DOMAIN task \ {w} :
                task[v].event = e => task[v].pc = "create"
        /\ task[w].pc \in {"handle", "pay", "log"} => event[e] = "Created"
        /\ task[w].pc \in {"log", "answer"} => task[w].result \in Answer
        /\ task[w].pc = "answer" =>
                event[e] = IF task[w].result = "ok" THEN "Succeeded" ELSE "Failed"
        /\ task[w].pc = "pay" =>
                /\ asks[e] \in Hashes /\ w \in DOMAIN job
                /\ job[w].hash = asks[e] /\ job[w].user_id = Author[e]
                /\ ~job[w].ignore_result

TasksAgree == \A w \in DOMAIN task : task[w].pc # "create" => TaskAgrees(w)

\* The event has succeeded, as far as its task or the log knows.
Success(e) ==
    \/ e \in DOMAIN event /\ event[e] = "Succeeded"
    \/ \E w \in DOMAIN task :
            task[w].pc = "log" /\ task[w].result = "ok" /\ task[w].event = e

SuccessAgrees ==
    \A e \in Events :
        Success(e) /\ asks[e] \in Hashes =>
            /\ asks[e] \in DOMAIN payment
            /\ payment[asks[e]].status = "Paid"
            /\ payment[asks[e]].user_id = Author[e]
            /\ \A f \in Events \ {e} : Success(f) => asks[f] # asks[e]

\* However often and to however many tasks an event is delivered, before and
\* after a restart, it is answered once at most, and with what the log says.
AnsweredOnce ==
    \A e \in Events :
        answers[e] # <<>> =>
            /\ Len(answers[e]) = 1
            /\ e \in DOMAIN event
            /\ event[e] = IF answers[e] = <<"ok">> THEN "Succeeded" ELSE "Failed"

\* An event logged as succeeded has paid: the payment it asked for is charged
\* to its author, and no other event is given the same payment's preimage.
SuccessIsPaid ==
    \A e \in DOMAIN event :
        event[e] = "Succeeded" /\ asks[e] \in Hashes =>
            /\ asks[e] \in DOMAIN payment
            /\ payment[asks[e]].status = "Paid"
            /\ payment[asks[e]].user_id = Author[e]
            /\ \A f \in DOMAIN event \ {e} :
                    event[f] = "Succeeded" => asks[f] # asks[e]

\* The inductive invariant: that of the payments, what the tasks know of the log
\* and of their payments, and what they have answered.
NwcConsistent ==
    NwcTypeOK /\ Consistent /\ TasksAgree /\ SuccessAgrees /\ AnsweredOnce

\* No handling starts again: an event of which anything is known stays known,
\* and its outcome stays what it is.
HandledOnce ==
    [][\A e \in DOMAIN event :
            /\ e \in DOMAIN event'
            /\ event[e] # "Created" => event'[e] = event[e]]_allVars

\* Unless a fault hits, whoever else pays the same invoice, every event that
\* is logged is concluded: it is answered, or logged as unreadable.
EventuallyAnswered ==
    \A e \in Events :
        e \in DOMAIN event ~>
            \/ answers[e] # <<>>
            \/ asks[e] = "garbage" /\ e \in DOMAIN event /\ event[e] = "Failed"
            \/ faults > 0
============================================================================
