------------------------ MODULE AssignmentEscalation ------------------------
(***************************************************************************)
(* The text message to a driver who does not acknowledge an assignment.    *)
(* DispatchService queues a delayed job after its transaction; the worker  *)
(* reads the order, reads the driver's phone, sends and records.  Two      *)
(* deliveries of one job may overlap, and a worker may die between any two *)
(* of its steps.                                                           *)
(***************************************************************************)
EXTENDS Naturals

CONSTANTS
    SmsWorkers,     \* BullMQ workers
    MaxSmsCrashes,  \* how many of them may die
    MaxSmsDeliveries

VARIABLES
    assignment,     \* ASSIGNED, IN_PROGRESS (loading and on), CANCELLED or DELIVERED
    acknowledged,   \* assignmentAcknowledgedAt is set
    phone,          \* the driver has a phone in E.164 form right now
    smsJob,         \* the job: none, delayed, waiting, active
    smsDelivered,   \* how often it was handed to a worker
    smsWorker,      \* where each worker is
    smsAt,          \* assignmentEscalationSmsAt is set
    skipReason,     \* assignmentEscalationSkippedReason
    sent,           \* messages the provider accepted
    smsCrashes

smsVars == <<assignment, acknowledged, phone, smsJob, smsDelivered, smsWorker, smsAt, skipReason, sent, smsCrashes>>

EscalationSkipReason == {"NO_PHONE", "SEND_FAILED"}

SmsTypeOK ==
    /\ assignment \in {"PENDING", "BOOKED", "ASSIGNED", "IN_PROGRESS", "CANCELLED", "DELIVERED"}
    /\ acknowledged \in BOOLEAN /\ phone \in BOOLEAN /\ smsAt \in BOOLEAN
    /\ smsJob \in {"none", "delayed", "waiting", "active"}
    /\ smsDelivered \in 0..MaxSmsDeliveries
    /\ smsWorker \in [SmsWorkers -> {"idle", "loading", "looking", "sending", "recording", "skipping", "failing"}]
    /\ skipReason \in EscalationSkipReason \cup {"none"}
    /\ sent \in 0..MaxSmsDeliveries
    /\ smsCrashes \in 0..MaxSmsCrashes

SmsInit ==
    /\ assignment = "PENDING" /\ acknowledged = FALSE /\ phone = TRUE
    /\ smsJob = "none" /\ smsDelivered = 0 /\ smsWorker = [k \in SmsWorkers |-> "idle"]
    /\ smsAt = FALSE /\ skipReason = "none" /\ sent = 0 /\ smsCrashes = 0

\* assign commits, notifies the driver, and then queues the job.
CommitAssignment ==
    /\ assignment = "PENDING"
    /\ assignment' = "BOOKED"
    /\ UNCHANGED <<acknowledged, phone, smsJob, smsDelivered, smsWorker, smsAt, skipReason, sent, smsCrashes>>

ScheduleSms ==
    /\ assignment = "BOOKED"
    /\ assignment' = "ASSIGNED"
    /\ smsJob' = "delayed"
    /\ UNCHANGED <<acknowledged, phone, smsDelivered, smsWorker, smsAt, skipReason, sent, smsCrashes>>

\* The queue's remove, as in StopDetection.
RemoveSmsJob == smsJob' = IF smsJob = "active" THEN smsJob ELSE "none"

Assigned == assignment \in {"ASSIGNED", "IN_PROGRESS"}

\* acknowledgeAssignment: a second acknowledgment changes nothing.
AcknowledgeAssignment ==
    /\ Assigned /\ ~acknowledged
    /\ acknowledged' = TRUE
    /\ RemoveSmsJob
    /\ UNCHANGED <<assignment, phone, smsDelivered, smsWorker, smsAt, skipReason, sent, smsCrashes>>

\* Cancelling removes the job; loading, completing and force-completing leave it.
MoveOn(to) ==
    /\ Assigned /\ assignment # to
    /\ assignment' = to
    /\ IF to = "CANCELLED" THEN RemoveSmsJob ELSE UNCHANGED smsJob
    /\ UNCHANGED <<acknowledged, phone, smsDelivered, smsWorker, smsAt, skipReason, sent, smsCrashes>>

ChangePhone ==
    /\ phone' = ~phone
    /\ UNCHANGED <<assignment, acknowledged, smsJob, smsDelivered, smsWorker, smsAt, skipReason, sent, smsCrashes>>

SmsDelayElapses ==
    /\ smsJob = "delayed"
    /\ smsJob' = "waiting"
    /\ UNCHANGED <<assignment, acknowledged, phone, smsDelivered, smsWorker, smsAt, skipReason, sent, smsCrashes>>

TakeSmsJob(k) ==
    /\ smsWorker[k] = "idle" /\ smsJob = "waiting"
    /\ smsJob' = "active"
    /\ smsDelivered' = smsDelivered + 1
    /\ smsWorker' = [smsWorker EXCEPT ![k] = "loading"]
    /\ UNCHANGED <<assignment, acknowledged, phone, smsAt, skipReason, sent, smsCrashes>>

RedeliverSms ==
    /\ smsJob = "active" /\ smsDelivered < MaxSmsDeliveries
    /\ smsJob' = "waiting"
    /\ UNCHANGED <<assignment, acknowledged, phone, smsDelivered, smsWorker, smsAt, skipReason, sent, smsCrashes>>

EndSmsJob(k) ==
    /\ smsWorker' = [smsWorker EXCEPT ![k] = "idle"]
    /\ smsJob' = IF smsJob = "active" /\ \A j \in SmsWorkers \ {k} : smsWorker[j] = "idle"
                 THEN "none" ELSE smsJob

\* escalate reads the order: acknowledged or cancelled ends the job.
SmsLoad(k) ==
    /\ smsWorker[k] = "loading"
    /\ IF acknowledged \/ assignment = "CANCELLED"
       THEN EndSmsJob(k)
       ELSE smsWorker' = [smsWorker EXCEPT ![k] = "looking"] /\ UNCHANGED smsJob
    /\ UNCHANGED <<assignment, acknowledged, phone, smsDelivered, smsAt, skipReason, sent, smsCrashes>>

\* The phone on file at this moment decides between sending and NO_PHONE.
SmsLookUp(k) ==
    /\ smsWorker[k] = "looking"
    /\ smsWorker' = [smsWorker EXCEPT ![k] = IF phone THEN "sending" ELSE "skipping"]
    /\ UNCHANGED <<assignment, acknowledged, phone, smsJob, smsDelivered, smsAt, skipReason, sent, smsCrashes>>

\* The provider takes the message, or send throws.
SmsSend(k) ==
    /\ smsWorker[k] = "sending"
    /\ \/ sent' = sent + 1 /\ smsWorker' = [smsWorker EXCEPT ![k] = "recording"]
       \/ sent' = sent /\ smsWorker' = [smsWorker EXCEPT ![k] = "failing"]
    /\ UNCHANGED <<assignment, acknowledged, phone, smsJob, smsDelivered, smsAt, skipReason, smsCrashes>>

\* A failed attempt leaves no trace.
BugForgetFailure(k) ==
    /\ smsWorker[k] \in {"recording", "skipping", "failing"}
    /\ smsAt' = (smsAt \/ smsWorker[k] = "recording")
    /\ skipReason' = IF smsWorker[k] = "skipping" THEN "NO_PHONE" ELSE skipReason
    /\ EndSmsJob(k)
    /\ UNCHANGED <<assignment, acknowledged, phone, smsDelivered, sent, smsCrashes>>

\* What happened is written to the order, whichever way it went.
SmsRecord(k) ==
    /\ smsWorker[k] \in {"recording", "skipping", "failing"}
    /\ smsAt' = (smsAt \/ smsWorker[k] = "recording")
    /\ skipReason' = CASE smsWorker[k] = "skipping" -> "NO_PHONE"
                       [] smsWorker[k] = "failing" -> "SEND_FAILED"
                       [] OTHER -> skipReason
    /\ EndSmsJob(k)
    /\ UNCHANGED <<assignment, acknowledged, phone, smsDelivered, sent, smsCrashes>>

SmsWorkerCrash(k) ==
    /\ smsWorker[k] # "idle" /\ smsCrashes < MaxSmsCrashes /\ smsDelivered < MaxSmsDeliveries
    /\ smsWorker' = [smsWorker EXCEPT ![k] = "idle"]
    /\ smsCrashes' = smsCrashes + 1
    /\ UNCHANGED <<assignment, acknowledged, phone, smsJob, smsDelivered, smsAt, skipReason, sent>>

SmsStep(k) == SmsLoad(k) \/ SmsLookUp(k) \/ SmsSend(k) \/ SmsRecord(k)

SmsNext ==
    \/ CommitAssignment \/ ScheduleSms \/ AcknowledgeAssignment \/ ChangePhone
    \/ SmsDelayElapses \/ RedeliverSms
    \/ \E to \in {"IN_PROGRESS", "CANCELLED", "DELIVERED"} : MoveOn(to)
    \/ \E k \in SmsWorkers : TakeSmsJob(k) \/ SmsStep(k) \/ SmsWorkerCrash(k)

-----------------------------------------------------------------------------

\* A driver who stays silent is not forgotten: once the job is queued, the assignment is
\* acknowledged or cancelled, or the order says what became of the attempt, even when the
\* worker that held the job dies.
UnreachedDriverIsRecorded ==
    (smsJob # "none") ~> (acknowledged \/ assignment = "CANCELLED" \/ smsAt \/ skipReason # "none")
=============================================================================
