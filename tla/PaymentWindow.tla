--------------------------- MODULE PaymentWindow ---------------------------
(***************************************************************************)
(* The payment window of one DIRECT order: payments.service.ts (the        *)
(* gateway webhook), payment-timeout-queue.service.ts,                     *)
(* payment-timeout.processor.ts, and the three callers that open or close  *)
(* a window (routing, redispatch, cancellation).                           *)
(*                                                                         *)
(* OrderLifecycle takes a payment and a timeout as single steps.  Here     *)
(* they are what they are in the code: a webhook handler that records an   *)
(* event, runs a transaction and then removes a queue job, and a worker    *)
(* that is handed the job, loads the order and runs a transaction.  Either *)
(* may die between any two of its steps, and BullMQ redelivers.            *)
(***************************************************************************)
EXTENDS Naturals, OrderState

CONSTANTS
    Payments,           \* gateway transaction ids
    Workers,            \* payment-timeout workers, one per process
    None,
    MaxWindows,         \* bound on the windows opened
    MaxStalledCount,    \* BullMQ: stalls a job survives (its default is 1)
    MaxFaults,          \* bound on deaths and stalls
    MaxErrors           \* bound on transactions the database fails

Outcome == {"CONFIRMED", "OUT_OF_SEQUENCE", "AMOUNT_MISMATCH", "INVALID_SIGNATURE"}
Answer == {"accepted", "refused", "duplicate", "unauthorized"}

ASSUME WindowNoneAssumption == None \notin Payments \cup Workers \cup Outcome \cup Answer

ASSUME WindowBoundsAssumption ==
    /\ MaxWindows \in Nat \ {0}
    /\ MaxStalledCount \in Nat
    /\ MaxFaults \in Nat
    /\ MaxErrors \in Nat

VARIABLES
    status,                 \* of the order
    paymentTimeoutCount,    \* of the order
    confirmation,           \* the order's paymentConfirmationId
    windows,                \* how often PENDING_PAYMENT was entered
    scheduling,             \* handlers that opened a window, not yet at schedule()
    cancelling,             \* handlers that cancelled the order, not yet at cancel()
    job,                    \* the BullMQ job whose id is the order's
    worker,                 \* what each worker is doing with the job
    event,                  \* outcome of the recorded PaymentEvent
    hook,                   \* webhook handler of each payment
    answer,                 \* last answer given to the gateway
    told,                   \* administrators told to reconcile the payment
    faults, errors,         \* faults and failed transactions so far
    died,                   \* payments whose handler died
    dropped                 \* 1 once BullMQ has dropped a job that stalled too often

order == <<status, paymentTimeoutCount, confirmation, windows>>
queue == <<scheduling, cancelling, job, worker>>
payment == <<event, hook, answer, told>>
fault == <<faults, errors, died, dropped>>
vars == <<order, queue, payment, fault>>

WindowStatus == {"APPROVED", "PENDING_PAYMENT", "ROUTED_TO_TRANSPORT", "CANCELLED"}

\* A job is locked by the worker it was handed to, until that worker finishes
\* or BullMQ finds it stalled.
NoJob == [state |-> "none", lock |-> None, stalls |-> 0]
Free == [pc |-> "free", count |-> 0]

Init ==
    /\ status = "PENDING_PAYMENT"
    /\ paymentTimeoutCount = 0
    /\ confirmation = None
    /\ windows = 1
    /\ scheduling = 1
    /\ cancelling = 0
    /\ job = NoJob
    /\ worker = [w \in Workers |-> Free]
    /\ event = [p \in Payments |-> None]
    /\ hook = [p \in Payments |-> "idle"]
    /\ answer = [p \in Payments |-> None]
    /\ told = [p \in Payments |-> FALSE]
    /\ faults = 0
    /\ errors = 0
    /\ died = {}
    /\ dropped = 0

(***************************************************************************)
(* As in OrderLifecycle, a definition named Bug... is a faulty variant of  *)
(* the one that follows it; nothing uses it.                               *)
(***************************************************************************)

(***************************************************************************)
(* Opening and cancelling: the queue is called after the commit.           *)
(***************************************************************************)

\* redispatch -> reopenPaymentWindow(), up to its transition.
Reopen ==
    /\ windows < MaxWindows
    /\ Permitted("APPROVED", "PENDING_PAYMENT", FALSE)
    /\ status = "APPROVED"
    /\ status' = "PENDING_PAYMENT"
    /\ windows' = windows + 1
    /\ scheduling' = scheduling + 1
    /\ UNCHANGED <<paymentTimeoutCount, confirmation, cancelling, job, worker,
                   payment, fault>>

\* Adding a job whose id exists puts that job back into the queue.
BugScheduleRequeues ==
    /\ scheduling > 0
    /\ scheduling' = scheduling - 1
    /\ job' = [job EXCEPT !.state = "delayed"]
    /\ UNCHANGED <<order, cancelling, worker, payment, fault>>

\* queue.add() with jobId = orderId: a no-op while a job of that id exists.
Schedule ==
    /\ scheduling > 0
    /\ scheduling' = scheduling - 1
    /\ job' = IF job.state = "none" THEN [NoJob EXCEPT !.state = "delayed"] ELSE job
    /\ UNCHANGED <<order, cancelling, worker, payment, fault>>

\* job.remove(): refused while a worker holds the lock.
Removable == job.state # "active"

Cancel ==
    /\ status # "CANCELLED"
    /\ Permitted(status, "CANCELLED", FALSE)
    /\ status' = "CANCELLED"
    /\ cancelling' = cancelling + (IF status = "PENDING_PAYMENT" THEN 1 ELSE 0)
    /\ UNCHANGED <<paymentTimeoutCount, confirmation, windows, scheduling, job,
                   worker, payment, fault>>

CancelRemovesJob ==
    /\ cancelling > 0
    /\ cancelling' = cancelling - 1
    /\ job' = IF Removable THEN NoJob ELSE job
    /\ UNCHANGED <<order, scheduling, worker, payment, fault>>

(***************************************************************************)
(* The timeout job.                                                        *)
(***************************************************************************)

\* BullMQ: the delay is over and a worker claims the job.
Fire(w) ==
    /\ job.state = "delayed"
    /\ worker[w].pc = "free"
    /\ job' = [job EXCEPT !.state = "active", !.lock = w]
    /\ worker' = [worker EXCEPT ![w].pc = "load"]
    /\ UNCHANGED <<order, scheduling, cancelling, payment, fault>>

\* BullMQ finds that the lock was not renewed: the job is handed out again,
\* or fails when it has stalled too often; removeOnFail then deletes it.
Stalled ==
    \/ /\ job.stalls < MaxStalledCount
       /\ job' = [state |-> "delayed", lock |-> None, stalls |-> job.stalls + 1]
       /\ UNCHANGED dropped
    \/ /\ job.stalls = MaxStalledCount
       /\ job' = NoJob
       /\ dropped' = 1

\* The worker that held the lock is dead.
StallAbandoned ==
    /\ job.state = "active"
    /\ worker[job.lock].pc = "free"
    /\ Stalled
    /\ UNCHANGED <<order, scheduling, cancelling, worker, payment, faults, errors, died>>

\* It is merely paused, and will go on with what it was doing.
StallPaused ==
    /\ job.state = "active"
    /\ worker[job.lock].pc # "free"
    /\ faults < MaxFaults
    /\ faults' = faults + 1
    /\ Stalled
    /\ UNCHANGED <<order, scheduling, cancelling, worker, payment, errors, died>>

\* A job is taken to fire once per order: a second window is left alone.
BugLoadOncePerOrder(w) ==
    /\ worker[w].pc = "load"
    /\ worker' = [worker EXCEPT ![w] =
                    [pc |-> IF status = "PENDING_PAYMENT" /\ paymentTimeoutCount = 0
                            THEN "commit" ELSE "done",
                     count |-> paymentTimeoutCount]]
    /\ UNCHANGED <<order, scheduling, cancelling, job, payment, fault>>

\* timeOut(): an order that is no longer PENDING_PAYMENT is left alone.
LoadOrder(w) ==
    /\ worker[w].pc = "load"
    /\ worker' = [worker EXCEPT ![w] =
                    [pc |-> IF status = "PENDING_PAYMENT" THEN "commit" ELSE "done",
                     count |-> paymentTimeoutCount]]
    /\ UNCHANGED <<order, scheduling, cancelling, job, payment, fault>>

\* The transaction writes without asking for the status it read.
BugRevertUnconditional(w) ==
    /\ worker[w].pc = "commit"
    /\ worker' = [worker EXCEPT ![w].pc = "done"]
    /\ status' = "APPROVED"
    /\ paymentTimeoutCount' = worker[w].count + 1
    /\ UNCHANGED <<confirmation, windows, scheduling, cancelling, job, payment, fault>>

\* The transaction: lost to whoever moved the order on first, otherwise the
\* order reverts and its timeout count is one more than the one loaded.
RevertOrder(w) ==
    /\ worker[w].pc = "commit"
    /\ worker' = [worker EXCEPT ![w].pc = "done"]
    /\ Permitted("PENDING_PAYMENT", "APPROVED", FALSE)
    /\ \/ /\ status = "PENDING_PAYMENT"
          /\ status' = "APPROVED"
          /\ paymentTimeoutCount' = worker[w].count + 1
       \/ /\ status # "PENDING_PAYMENT"
          /\ UNCHANGED <<status, paymentTimeoutCount>>
    /\ UNCHANGED <<confirmation, windows, scheduling, cancelling, job, payment, fault>>

\* The processor has notified and returned; removeOnComplete deletes the job
\* if the lock is still this worker's.
FinishJob(w) ==
    /\ worker[w].pc = "done"
    /\ worker' = [worker EXCEPT ![w] = Free]
    /\ job' = IF job.lock = w THEN NoJob ELSE job
    /\ UNCHANGED <<order, scheduling, cancelling, payment, fault>>

(***************************************************************************)
(* The webhook.                                                            *)
(***************************************************************************)

\* The first signed delivery of a transaction creates its event, tentatively
\* CONFIRMED.
RecordEvent(p) ==
    /\ event[p] = None
    /\ event' = [event EXCEPT ![p] = "CONFIRMED"]
    /\ hook' = [hook EXCEPT ![p] = "recorded"]
    /\ UNCHANGED <<order, queue, answer, told, fault>>

\* Any later one meets the unique index.
AnswerDuplicate(p) ==
    /\ event[p] # None
    /\ answer' = [answer EXCEPT ![p] = "duplicate"]
    /\ UNCHANGED <<order, queue, event, hook, told, fault>>

\* A delivery whose signature the configured secret does not confirm.
RefuseSignature(p) ==
    /\ event' = [event EXCEPT ![p] = IF @ = None THEN "INVALID_SIGNATURE" ELSE @]
    /\ answer' = [answer EXCEPT ![p] = "unauthorized"]
    /\ UNCHANGED <<order, queue, hook, told, fault>>

Answered(p, outcome, flagged) ==
    /\ event' = [event EXCEPT ![p] = outcome]
    /\ told' = [told EXCEPT ![p] = @ \/ flagged]
    /\ answer' = [answer EXCEPT ![p] = "refused"]
    /\ hook' = [hook EXCEPT ![p] = "idle"]

\* dto.status is not PAID, or the amount or currency is not the order's.
RefuseContent(p) ==
    /\ hook[p] = "recorded"
    /\ \/ Answered(p, "OUT_OF_SEQUENCE", FALSE)
       \/ Answered(p, "AMOUNT_MISMATCH", TRUE)
    /\ UNCHANGED <<order, queue, fault>>

\* A transaction that misses the order and still reports success.
BugMissIsSuccess(p) ==
    /\ hook[p] = "recorded"
    /\ hook' = [hook EXCEPT ![p] = "applied"]
    /\ IF status = "PENDING_PAYMENT"
       THEN status' = "ROUTED_TO_TRANSPORT" /\ confirmation' = p
       ELSE UNCHANGED <<status, confirmation>>
    /\ UNCHANGED <<paymentTimeoutCount, windows, queue, event, answer, told, fault>>

\* The transaction: invoice settled, order moved on and linked to the event.
ApplyPayment(p) ==
    /\ hook[p] = "recorded"
    /\ Permitted("PENDING_PAYMENT", "ROUTED_TO_TRANSPORT", FALSE)
    /\ \/ /\ status = "PENDING_PAYMENT"
          /\ status' = "ROUTED_TO_TRANSPORT"
          /\ confirmation' = p
          /\ hook' = [hook EXCEPT ![p] = "applied"]
       \/ /\ status # "PENDING_PAYMENT"
          /\ hook' = [hook EXCEPT ![p] = "failed"]
          /\ UNCHANGED <<status, confirmation>>
    /\ UNCHANGED <<paymentTimeoutCount, windows, queue, event, answer, told, fault>>

\* paymentTimeoutQueue.cancel() after the commit, inside the same try block:
\* a job that cannot be removed makes the handler treat the payment as failed.
PaymentRemovesJob(p) ==
    /\ hook[p] = "applied"
    /\ \/ /\ Removable
          /\ job' = NoJob
          /\ hook' = [hook EXCEPT ![p] = "idle"]
          /\ answer' = [answer EXCEPT ![p] = "accepted"]
       \/ /\ ~Removable
          /\ hook' = [hook EXCEPT ![p] = "failed"]
          /\ UNCHANGED <<job, answer>>
    /\ UNCHANGED <<order, scheduling, cancelling, worker, event, told, fault>>

\* The catch block without markOutcome().
BugOutcomeNotMarked(p) ==
    /\ hook[p] = "failed"
    /\ Answered(p, event[p], TRUE)
    /\ UNCHANGED <<order, queue, fault>>

\* The catch block.
RefuseOutOfSequence(p) ==
    /\ hook[p] = "failed"
    /\ Answered(p, "OUT_OF_SEQUENCE", TRUE)
    /\ UNCHANGED <<order, queue, fault>>

(***************************************************************************)
(* Faults: a process dies between two steps, or a transaction fails.       *)
(***************************************************************************)
SchedulerDies ==
    /\ scheduling > 0
    /\ faults < MaxFaults
    /\ scheduling' = scheduling - 1
    /\ faults' = faults + 1
    /\ UNCHANGED <<order, cancelling, job, worker, payment, errors, died, dropped>>

\* The processor's catch block takes every failure for a lost race.
RevertFails(w) ==
    /\ worker[w].pc = "commit"
    /\ errors < MaxErrors
    /\ worker' = [worker EXCEPT ![w].pc = "done"]
    /\ errors' = errors + 1
    /\ UNCHANGED <<order, scheduling, cancelling, job, payment, faults, died, dropped>>

\* So does the webhook's.
PaymentFails(p) ==
    /\ hook[p] = "recorded"
    /\ errors < MaxErrors
    /\ hook' = [hook EXCEPT ![p] = "failed"]
    /\ errors' = errors + 1
    /\ UNCHANGED <<order, queue, event, answer, told, faults, died, dropped>>

WorkerDies(w) ==
    /\ worker[w].pc # "free"
    /\ faults < MaxFaults
    /\ worker' = [worker EXCEPT ![w] = Free]
    /\ faults' = faults + 1
    /\ UNCHANGED <<order, scheduling, cancelling, job, payment, errors, died, dropped>>

HookDies(p) ==
    /\ hook[p] # "idle"
    /\ faults < MaxFaults
    /\ hook' = [hook EXCEPT ![p] = "idle"]
    /\ faults' = faults + 1
    /\ died' = died \cup {p}
    /\ UNCHANGED <<order, queue, event, answer, told, errors, dropped>>

WorkerStep(w) == LoadOrder(w) \/ RevertOrder(w) \/ FinishJob(w)

HookStep(p) ==
    RefuseContent(p) \/ ApplyPayment(p) \/ PaymentRemovesJob(p) \/ RefuseOutOfSequence(p)

Next ==
    \/ Reopen \/ Schedule \/ Cancel \/ CancelRemovesJob
    \/ StallAbandoned \/ StallPaused \/ SchedulerDies
    \/ \E w \in Workers : Fire(w) \/ WorkerStep(w) \/ RevertFails(w) \/ WorkerDies(w)
    \/ \E p \in Payments :
        \/ RecordEvent(p) \/ AnswerDuplicate(p) \/ RefuseSignature(p)
        \/ HookStep(p) \/ PaymentFails(p) \/ HookDies(p)

Spec == Init /\ [][Next]_vars

\* A running process takes its next step; BullMQ hands out a due job and
\* finds an abandoned one.  Nobody has to pay, cancel or reopen.
Fairness ==
    /\ WF_vars(Schedule) /\ WF_vars(CancelRemovesJob) /\ WF_vars(StallAbandoned)
    /\ WF_vars(\E w \in Workers : Fire(w))
    /\ \A w \in Workers : WF_vars(WorkerStep(w))
    /\ \A p \in Payments : WF_vars(HookStep(p))

FairSpec == Spec /\ Fairness
-----------------------------------------------------------------------------
\* Every field holds a value its schema or BullMQ admits, and an active job is
\* locked by a worker.
TypeOK ==
    /\ status \in WindowStatus
    /\ paymentTimeoutCount \in 0..MaxWindows
    /\ confirmation \in Payments \cup {None}
    /\ windows \in 1..MaxWindows
    /\ scheduling \in 0..MaxWindows
    /\ cancelling \in 0..1
    /\ job \in [state: {"none", "delayed", "active"}, lock: Workers \cup {None},
                stalls: 0..MaxStalledCount]
    /\ job.state = "active" <=> job.lock \in Workers
    /\ worker \in [Workers -> [pc: {"free", "load", "commit", "done"}, count: 0..MaxWindows]]
    /\ event \in [Payments -> Outcome \cup {None}]
    /\ hook \in [Payments -> {"idle", "recorded", "applied", "failed"}]
    /\ answer \in [Payments -> Answer \cup {None}]
    /\ told \in [Payments -> BOOLEAN]
    /\ faults \in 0..MaxFaults
    /\ errors \in 0..MaxErrors
    /\ died \in SUBSET Payments
    /\ dropped \in 0..1

\* Once a payment has been linked to the order, no redelivered or paused
\* timeout worker, late second payment or redispatch asks for the money
\* again, and the order stays linked to that payment.
PaymentIsNeverUndone ==
    [][confirmation # None =>
          confirmation' = confirmation /\ status' \in {"ROUTED_TO_TRANSPORT", "CANCELLED"}]_vars

\* A gateway that was told `accepted` paid the payment the order is linked
\* to: of two payments for one order at most one is ever accepted.
AcceptedPaymentIsLinked ==
    \A p \in Payments : answer[p] = "accepted" => confirmation = p

\* A payment whose webhook ran to its end is not lost: while its event still
\* reads CONFIRMED the order is linked to it.  Only a process that dies in
\* the middle leaves a confirmed event behind that nothing points to.
ConfirmedEventIsLinked ==
    \A p \in Payments :
        event[p] = "CONFIRMED" /\ hook[p] = "idle" /\ p \notin died => confirmation = p

\* A window whose timeout job is waiting in the queue does close, by payment,
\* cancellation or timeout, even if a worker dies or stalls holding the job.
\* Two things the code does not recover from can leave it open: a transaction
\* the database fails, which the worker takes for a lost race, and a job that
\* stalls more than maxStalledCount times, which BullMQ drops.
TimerClosesWindow ==
    (job.state = "delayed" /\ status = "PENDING_PAYMENT")
        ~> (status # "PENDING_PAYMENT" \/ errors > 0 \/ dropped > 0)
=============================================================================
