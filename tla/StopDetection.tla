--------------------------- MODULE StopDetection ---------------------------
(***************************************************************************)
(* Stops on one delivery: the leased sweep that raises them, the driver    *)
(* and the administrator who close them, and the BullMQ job that tells the *)
(* transporter when nobody answers.  Every write is one conditional        *)
(* updateOne on the order; between two writes anything else may happen and *)
(* an instance may die (at most MaxCrashes times).                         *)
(***************************************************************************)
EXTENDS SchedulerLease, Integers

CONSTANTS
    Stops,          \* ids the order's stopEvents array may receive, in any order
    Workers,        \* BullMQ workers of the fleet
    MaxCrashes,     \* how many instances or workers may die
    MaxDeliveries   \* how often one escalation job may be handed to a worker

VARIABLES
    status,     \* the order: IN_TRANSIT, then UNLOADING, then DELIVERED
    stops,      \* stopEvents, by id
    sweepPc,    \* where each run of the sweep is
    raising,    \* the stop a run has just pushed
    jobs,       \* the escalation job of each stop
    delivered,  \* how often each job was handed to a worker
    worker,     \* what each worker is doing
    telling,    \* blocked reports written whose administrators are not told yet
    alerts,     \* how often the transporter was told that a stop is unanswered
    crashes

stopVars == <<leaseVars, status, stops, sweepPc, raising, jobs, delivered, worker,
              telling, alerts, crashes>>

StopOrigin == {"DETECTED", "DECLARED", "BLOCKED"}

\* One element of stopEvents; each Boolean says whether the time it is named after is set,
\* suppressed whether suppressedUntil is still ahead.
StopEvent == [origin : StopOrigin, reasonGiven : BOOLEAN, escalated : BOOLEAN,
              resolved : BOOLEAN, suppressed : BOOLEAN]

NoStop == [origin |-> "none", reasonGiven |-> FALSE, escalated |-> FALSE,
           resolved |-> FALSE, suppressed |-> FALSE]
Idle == [pc |-> "idle"]

StopTypeOK ==
    /\ LeaseTypeOK
    /\ status \in {"IN_TRANSIT", "UNLOADING", "DELIVERED"}
    /\ stops \in [Stops -> StopEvent \cup {NoStop}]
    /\ sweepPc \in [Runs -> {"idle", "reading", "raising", "notifying", "scheduling", "releasing"}]
    /\ raising \in [Runs -> Stops \cup {NoToken}]
    /\ jobs \in [Stops -> {"none", "delayed", "waiting", "active"}]
    /\ delivered \in [Stops -> Nat]
    /\ worker \in [Workers -> [pc : {"loading", "claiming", "notifying"}, stop : Stops] \cup {Idle}]
    /\ telling \subseteq Stops
    /\ alerts \in [Stops -> Nat]
    /\ crashes \in Nat

StopInit ==
    /\ LeaseInit
    /\ status = "IN_TRANSIT"
    /\ stops = [s \in Stops |-> NoStop]
    /\ sweepPc = [w \in Runs |-> "idle"] /\ raising = [w \in Runs |-> NoToken]
    /\ jobs = [s \in Stops |-> "none"] /\ delivered = [s \in Stops |-> 0]
    /\ worker = [k \in Workers |-> Idle]
    /\ telling = {} /\ alerts = [s \in Stops |-> 0] /\ crashes = 0

Present(s) == stops[s] # NoStop
Open(s) == Present(s) /\ ~stops[s].resolved

\* unblockedStopFilter: an open stop blocks, and a declared one until its estimate lapses.
Blocks(s) == Present(s) /\ (~stops[s].resolved \/ stops[s].suppressed)

\* Only an open stop blocks: the filter forgets the suppression.
BugCanPush(s) == status = "IN_TRANSIT" /\ ~Present(s) /\ ~\E t \in Stops : Open(t)

\* The filter of the three pushes: IN_TRANSIT and no element that blocks.
CanPush(s) ==
    /\ status = "IN_TRANSIT"
    /\ ~Present(s)
    /\ ~\E t \in Stops : Blocks(t)

Push(s, origin, answered, escalated, resolved, suppressed) ==
    stops' = [stops EXCEPT ![s] =
        [origin |-> origin, reasonGiven |-> answered, escalated |-> escalated,
         resolved |-> resolved, suppressed |-> suppressed]]

\* The queue's remove: nothing to do when the job is gone, refused while a worker holds it.
CancelJob(js, s) == [js EXCEPT ![s] = IF @ = "active" THEN @ ELSE "none"]

\* A declaration's suppressedUntil passes.
Lapse(s) ==
    /\ Present(s) /\ stops[s].suppressed
    /\ stops' = [stops EXCEPT ![s].suppressed = FALSE]
    /\ UNCHANGED <<leaseVars, status, sweepPc, raising, jobs, delivered, worker, telling, alerts, crashes>>

\* The interval fires on some instance and that instance wins the lease.
SweepBegin(w) ==
    /\ sweepPc[w] = "idle"
    /\ Acquire(w)
    /\ sweepPc' = [sweepPc EXCEPT ![w] = "reading"]
    /\ UNCHANGED <<status, stops, raising, jobs, delivered, worker, telling, alerts, crashes>>

\* detectStalledDeliveries reads the drivers whose lastMovedAt is before the cutoff: this
\* delivery's driver may or may not be one of them.
SweepRead(w) ==
    /\ sweepPc[w] = "reading"
    /\ \E next \in {"raising", "releasing"} : sweepPc' = [sweepPc EXCEPT ![w] = next]
    /\ UNCHANGED <<leaseVars, status, stops, raising, jobs, delivered, worker, telling, alerts, crashes>>

\* raiseStopFor's conditional push; what was read may no longer hold.
RaiseStopFor(w) ==
    /\ sweepPc[w] = "raising"
    /\ \/ \E s \in Stops :
             /\ CanPush(s)
             /\ Push(s, "DETECTED", FALSE, FALSE, FALSE, FALSE)
             /\ raising' = [raising EXCEPT ![w] = s]
             /\ sweepPc' = [sweepPc EXCEPT ![w] = "notifying"]
       \/ /\ ~\E s \in Stops : CanPush(s)
          /\ sweepPc' = [sweepPc EXCEPT ![w] = "releasing"]
          /\ UNCHANGED <<stops, raising>>
    /\ UNCHANGED <<leaseVars, status, jobs, delivered, worker, telling, alerts, crashes>>

\* The driver's prompt goes out.
PromptDriver(w) ==
    /\ sweepPc[w] = "notifying"
    /\ sweepPc' = [sweepPc EXCEPT ![w] = "scheduling"]
    /\ UNCHANGED <<leaseVars, status, stops, raising, jobs, delivered, worker, telling, alerts, crashes>>

\* The response window's job is never queued.
BugForgetJob(w) ==
    /\ sweepPc[w] = "scheduling"
    /\ sweepPc' = [sweepPc EXCEPT ![w] = "releasing"]
    /\ raising' = [raising EXCEPT ![w] = NoToken]
    /\ UNCHANGED <<leaseVars, status, stops, jobs, delivered, worker, telling, alerts, crashes>>

\* schedule: one delayed job per stop, whatever became of the stop meanwhile.
ScheduleEscalation(w) ==
    /\ sweepPc[w] = "scheduling"
    /\ jobs' = [jobs EXCEPT ![raising[w]] = IF @ = "none" THEN "delayed" ELSE @]
    /\ sweepPc' = [sweepPc EXCEPT ![w] = "releasing"]
    /\ raising' = [raising EXCEPT ![w] = NoToken]
    /\ UNCHANGED <<leaseVars, status, stops, delivered, worker, telling, alerts, crashes>>

SweepEnd(w) ==
    /\ sweepPc[w] = "releasing"
    /\ Release(w)
    /\ sweepPc' = [sweepPc EXCEPT ![w] = "idle"]
    /\ UNCHANGED <<status, stops, raising, jobs, delivered, worker, telling, alerts, crashes>>

LeaseExpires ==
    /\ Expire
    /\ UNCHANGED <<status, stops, sweepPc, raising, jobs, delivered, worker, telling, alerts, crashes>>

\* An instance dies in the middle of its sweep.
SweepCrash(w) ==
    /\ crashes < MaxCrashes
    /\ Die(w)
    /\ sweepPc' = [sweepPc EXCEPT ![w] = "idle"]
    /\ raising' = [raising EXCEPT ![w] = NoToken]
    /\ crashes' = crashes + 1
    /\ UNCHANGED <<status, stops, jobs, delivered, worker, telling, alerts>>

\* The driver announces a stop: created answered, resolved and suppressing.
DeclareStop(s) ==
    /\ CanPush(s)
    /\ Push(s, "DECLARED", TRUE, FALSE, TRUE, TRUE)
    /\ UNCHANGED <<leaseVars, status, sweepPc, raising, jobs, delivered, worker, telling, alerts, crashes>>

\* The driver asks for help: created open, escalated, without a job.
ReportBlocked(s) ==
    /\ CanPush(s)
    /\ Push(s, "BLOCKED", TRUE, TRUE, FALSE, FALSE)
    /\ telling' = telling \cup {s}
    /\ UNCHANGED <<leaseVars, status, sweepPc, raising, jobs, delivered, worker, alerts, crashes>>

\* The administrators of the transporter are told, or the instance dies first.
TellBlocked(s) ==
    /\ s \in telling
    /\ telling' = telling \ {s}
    /\ \/ crashes' = crashes
       \/ crashes < MaxCrashes /\ crashes' = crashes + 1
    /\ UNCHANGED <<leaseVars, status, stops, sweepPc, raising, jobs, delivered, worker, alerts>>

\* submitReason: the first answer of a stop, late or not, resolves it; then the job goes.
SubmitReason(s) ==
    /\ Present(s) /\ ~stops[s].reasonGiven
    /\ stops' = [stops EXCEPT ![s].reasonGiven = TRUE, ![s].resolved = TRUE]
    /\ jobs' = CancelJob(jobs, s)
    /\ UNCHANGED <<leaseVars, status, sweepPc, raising, delivered, worker, telling, alerts, crashes>>

ResolveByAdmin(s) ==
    /\ Open(s)
    /\ stops' = [stops EXCEPT ![s].resolved = TRUE]
    /\ jobs' = CancelJob(jobs, s)
    /\ UNCHANGED <<leaseVars, status, sweepPc, raising, delivered, worker, telling, alerts, crashes>>

\* The order goes on; once delivered, cancelPendingStopEscalations removes the open stops' jobs.
Progress ==
    /\ \/ status = "IN_TRANSIT" /\ status' = "UNLOADING" /\ UNCHANGED jobs
       \/ /\ status = "UNLOADING" /\ status' = "DELIVERED"
          /\ jobs' = [s \in Stops |-> IF Open(s) THEN CancelJob(jobs, s)[s] ELSE jobs[s]]
    /\ UNCHANGED <<leaseVars, stops, sweepPc, raising, delivered, worker, telling, alerts, crashes>>

\* BullMQ: the delay elapses; a worker takes the job; a job whose worker lost its lock is
\* handed out again, while the first worker may still be at it.
DelayElapses(s) ==
    /\ jobs[s] = "delayed"
    /\ jobs' = [jobs EXCEPT ![s] = "waiting"]
    /\ UNCHANGED <<leaseVars, status, stops, sweepPc, raising, delivered, worker, telling, alerts, crashes>>

TakeJob(k, s) ==
    /\ worker[k] = Idle
    /\ jobs[s] = "waiting" /\ delivered[s] < MaxDeliveries
    /\ jobs' = [jobs EXCEPT ![s] = "active"]
    /\ delivered' = [delivered EXCEPT ![s] = @ + 1]
    /\ worker' = [worker EXCEPT ![k] = [pc |-> "loading", stop |-> s]]
    /\ UNCHANGED <<leaseVars, status, stops, sweepPc, raising, telling, alerts, crashes>>

Redeliver(s) ==
    /\ jobs[s] = "active" /\ delivered[s] < MaxDeliveries
    /\ jobs' = [jobs EXCEPT ![s] = "waiting"]
    /\ UNCHANGED <<leaseVars, status, stops, sweepPc, raising, delivered, worker, telling, alerts, crashes>>

Holds(k, pc) == worker[k] # Idle /\ worker[k].pc = pc

\* The worker is done with its job; a job redelivered meanwhile stays in the queue.
Finish(k) ==
    /\ worker' = [worker EXCEPT ![k] = Idle]
    /\ jobs' = [jobs EXCEPT ![worker[k].stop] =
                   IF @ = "active" /\ ~\E j \in Workers \ {k} : worker[j] # Idle /\ worker[j].stop = worker[k].stop
                   THEN "none" ELSE @]

\* escalate reads the order and gives up on a final one.
EscalateLoad(k) ==
    /\ Holds(k, "loading")
    /\ IF status = "DELIVERED"
       THEN Finish(k)
       ELSE worker' = [worker EXCEPT ![k].pc = "claiming"] /\ UNCHANGED jobs
    /\ UNCHANGED <<leaseVars, status, stops, sweepPc, raising, delivered, telling, alerts, crashes>>

\* The stop looked unanswered when the order was read, so the alert goes out.
BugClaimUnconditionally(k) ==
    /\ Holds(k, "claiming")
    /\ stops' = [stops EXCEPT ![worker[k].stop].escalated = TRUE]
    /\ worker' = [worker EXCEPT ![k].pc = "notifying"]
    /\ UNCHANGED <<leaseVars, jobs, status, sweepPc, raising, delivered, telling, alerts, crashes>>

\* The conditional stamp decides which delivery of the job alerts anybody.
EscalateClaim(k) ==
    /\ Holds(k, "claiming")
    /\ LET s == worker[k].stop
       IN IF ~stops[s].escalated /\ ~stops[s].reasonGiven /\ ~stops[s].resolved
          THEN /\ stops' = [stops EXCEPT ![s].escalated = TRUE]
               /\ worker' = [worker EXCEPT ![k].pc = "notifying"]
               /\ UNCHANGED jobs
          ELSE Finish(k) /\ UNCHANGED stops
    /\ UNCHANGED <<leaseVars, status, sweepPc, raising, delivered, telling, alerts, crashes>>

EscalateNotify(k) ==
    /\ Holds(k, "notifying")
    /\ alerts' = [alerts EXCEPT ![worker[k].stop] = @ + 1]
    /\ Finish(k)
    /\ UNCHANGED <<leaseVars, status, stops, sweepPc, raising, delivered, telling, crashes>>

\* A worker dies mid-job; BullMQ will hand the job out again.
WorkerCrash(k) ==
    /\ worker[k] # Idle
    /\ crashes < MaxCrashes
    /\ worker' = [worker EXCEPT ![k] = Idle]
    /\ crashes' = crashes + 1
    /\ UNCHANGED <<leaseVars, status, stops, sweepPc, raising, jobs, delivered, telling, alerts>>

\* What a sweep does once it holds the lease.
SweepGoes(w) == SweepRead(w) \/ RaiseStopFor(w) \/ PromptDriver(w) \/ ScheduleEscalation(w) \/ SweepEnd(w)

SweepNext(w) == SweepBegin(w) \/ SweepGoes(w)

WorkerNext(k) == EscalateLoad(k) \/ EscalateClaim(k) \/ EscalateNotify(k)

DriverNext == \E s \in Stops : Lapse(s) \/ DeclareStop(s) \/ ReportBlocked(s) \/ TellBlocked(s)

AnswerNext == Progress \/ \E s \in Stops : SubmitReason(s) \/ ResolveByAdmin(s)

QueueNext ==
    \/ \E s \in Stops : DelayElapses(s) \/ Redeliver(s)
    \/ \E k \in Workers : WorkerNext(k) \/ WorkerCrash(k) \/ \E s \in Stops : TakeJob(k, s)

StopNext ==
    \/ DriverNext \/ AnswerNext \/ QueueNext \/ LeaseExpires
    \/ \E w \in Runs : SweepNext(w) \/ SweepCrash(w)

StopSpec == StopInit /\ [][StopNext]_stopVars

-----------------------------------------------------------------------------

\* A delivery never has two stops that block: racing sweeps, a declaration and a report
\* each push under the same filter, and a lapsed declaration makes room for a new one.
OneOpenStop ==
    \A s, t \in Stops : Blocks(s) /\ Blocks(t) => s = t

\* The transporter hears once of one silence, however often the job is delivered and
\* whichever worker dies.
OneAlertPerSilence == \A s \in Stops : alerts[s] <= 1

\* Some instance reads the stalled drivers.
Sweeping == \E w \in Runs : sweepPc[w] = "reading"

\* The sweep asked the driver about this stop, and what ends the wait for an answer.
Asked(s) == stops[s].origin = "DETECTED"
Heard(s) ==
    \/ stops[s].reasonGiven \/ stops[s].resolved \/ alerts[s] > 0
    \/ status = "DELIVERED" \/ crashes > 0
=============================================================================
