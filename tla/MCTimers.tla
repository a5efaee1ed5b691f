------------------------------ MODULE MCTimers ------------------------------
(***************************************************************************)
(* Small instances of StopDetection, DriverTracking and                    *)
(* AssignmentEscalation.  They share no document and no job, so a          *)
(* behaviour steps one of them: timer says which.                          *)
(***************************************************************************)
EXTENDS StopDetection, DriverTracking, AssignmentEscalation

CONSTANTS w1, s1

VARIABLE timer

timersVars == <<stopVars, trackVars, smsVars, timer>>

Timers == {"sweeps", "escalation", "tracking", "assignment"}

OnlyFirst == \A s \in Stops \ {s1} : stops'[s] = NoStop

TimersInit == StopInit /\ TrackInit /\ SmsInit /\ timer \in Timers

\* Racing sweeps, with jobs left queued; or one sweep at a time, its first stop and the
\* queue's workers.
TimersNext ==
    \/ /\ timer = "sweeps"
       /\ DriverNext \/ AnswerNext \/ LeaseExpires \/ \E w \in Runs : SweepNext(w) \/ SweepCrash(w)
       /\ UNCHANGED <<trackVars, smsVars, timer>>
    \/ /\ timer = "escalation"
       /\ AnswerNext \/ QueueNext \/ SweepNext(w1) \/ SweepCrash(w1)
       /\ OnlyFirst
       /\ UNCHANGED <<trackVars, smsVars, timer>>
    \/ timer = "tracking" /\ TrackNext /\ UNCHANGED <<stopVars, smsVars, timer>>
    \/ timer = "assignment" /\ SmsNext /\ UNCHANGED <<stopVars, trackVars, timer>>

\* A sweep that has started goes on, the interval fires and Redis expires keys.
SweepFairness ==
    /\ WF_timersVars(timer = "sweeps" /\ LeaseExpires /\ UNCHANGED <<trackVars, smsVars, timer>>)
    /\ WF_timersVars(timer = "sweeps" /\ (\E w \in Runs : SweepBegin(w)) /\ UNCHANGED <<trackVars, smsVars, timer>>)
    /\ \A w \in Runs : WF_timersVars(timer = "sweeps" /\ SweepGoes(w) /\ UNCHANGED <<trackVars, smsVars, timer>>)

\* A delay elapses, a free worker takes a waiting job, a living worker goes on.
QueueFairness ==
    /\ WF_timersVars(timer = "escalation" /\ SweepNext(w1) /\ OnlyFirst /\ UNCHANGED <<trackVars, smsVars, timer>>)
    /\ \A s \in Stops :
          /\ WF_timersVars(timer = "escalation" /\ DelayElapses(s) /\ UNCHANGED <<trackVars, smsVars, timer>>)
          /\ WF_timersVars(timer = "escalation" /\ (\E k \in Workers : TakeJob(k, s)) /\ UNCHANGED <<trackVars, smsVars, timer>>)
    /\ \A k \in Workers : WF_timersVars(timer = "escalation" /\ WorkerNext(k) /\ UNCHANGED <<trackVars, smsVars, timer>>)

\* Clocks run, a frame in flight is finished, and some instance wins the presence sweep's lease.
TrackFairness ==
    /\ WF_timersVars(timer = "tracking" /\ (MarkSilentDriversOffline \/ ClockSeen) /\ UNCHANGED <<stopVars, smsVars, timer>>)
    /\ \A d \in Devices : WF_timersVars(timer = "tracking" /\ (Touch(d) \/ WritePosition(d)) /\ UNCHANGED <<stopVars, smsVars, timer>>)

\* As for the other queue; a job whose worker died is handed out again.
SmsFairness ==
    /\ WF_timersVars(timer = "assignment" /\ SmsDelayElapses /\ UNCHANGED <<stopVars, trackVars, timer>>)
    /\ WF_timersVars(timer = "assignment" /\ (\E k \in SmsWorkers : TakeSmsJob(k)) /\ UNCHANGED <<stopVars, trackVars, timer>>)
    /\ WF_timersVars(timer = "assignment" /\ (\A k \in SmsWorkers : smsWorker[k] = "idle") /\ RedeliverSms /\ UNCHANGED <<stopVars, trackVars, timer>>)
    /\ \A k \in SmsWorkers : WF_timersVars(timer = "assignment" /\ SmsStep(k) /\ UNCHANGED <<stopVars, trackVars, timer>>)

TimersSpec ==
    /\ TimersInit /\ [][TimersNext]_timersVars
    /\ SweepFairness /\ QueueFairness /\ TrackFairness /\ SmsFairness

\* No death of an instance ends detection: the lease it leaves behind expires and some
\* instance sweeps again, for ever (the part with racing sweeps).
SweepGoesOn == (timer = "sweeps") => []<>Sweeping

\* A driver's silence is heard of: a stop the sweep raised is answered, resolved or told to
\* the transporter, or the delivery ends, unless an instance dies on the way (the part in
\* which the queue runs). The death also stands for a call that throws after the push and
\* before the job is queued, which leaves the same stop without a job.
SilenceIsHeard == \A s \in Stops : (timer = "escalation" /\ Asked(s)) ~> Heard(s)
=============================================================================
