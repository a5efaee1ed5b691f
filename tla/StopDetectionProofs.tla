------------------------ MODULE StopDetectionProofs ------------------------
(***************************************************************************)
(* Theorems about StopDetection, for any number of instances, workers and  *)
(* stops and any bound on deaths and redeliveries.                         *)
(***************************************************************************)
EXTENDS StopDetection, FiniteSetTheorems, TLAPS

(***************************************************************************)
(* A worker writes to the stop its job names.  That this is a stop of the  *)
(* order, and not an element it would make up, is part of the typing.      *)
(***************************************************************************)
JobNamesStop == \A s \in Stops : jobs[s] # "none" => Present(s)
WorkerNamesStop == \A k \in Workers : worker[k] # Idle => Present(worker[k].stop)
SweepNamesStop ==
    \A w \in Runs : sweepPc[w] \in {"notifying", "scheduling"} =>
        raising[w] \in Stops /\ Present(raising[w])

StopInv == StopTypeOK /\ JobNamesStop /\ WorkerNamesStop /\ SweepNamesStop

Job == [pc : {"loading", "claiming", "notifying"}, stop : Stops]

\* What a stop is set to by an answer and by an escalation is a stop again.
LEMMA EditedStop ==
    ASSUME StopTypeOK, NEW s \in Stops, Present(s), NEW e,
           \/ e = [stops[s] EXCEPT !.reasonGiven = TRUE, !.resolved = TRUE]
           \/ e = [stops[s] EXCEPT !.escalated = TRUE],
           stops' = [stops EXCEPT ![s] = e]
    PROVE  /\ stops' \in [Stops -> StopEvent \cup {NoStop}]
           /\ \A t \in Stops : Present(t) => Present(t)'
<1>1. stops[s] \in StopEvent
  BY DEF StopTypeOK, Present
<1>2. e \in StopEvent
  BY <1>1 DEF StopEvent
<1>3. e # NoStop
  BY <1>2 DEF StopEvent, StopOrigin, NoStop
<1> QED
  BY <1>2, <1>3 DEF StopTypeOK, Present

\* A worker that is done frees itself, and may remove its job but adds none.
LEMMA FinishStep ==
    ASSUME StopTypeOK, NEW k \in Workers, worker[k] # Idle, Finish(k)
    PROVE  /\ worker' \in [Workers -> Job \cup {Idle}]
           /\ \A j \in Workers : worker'[j] = IF j = k THEN Idle ELSE worker[j]
           /\ jobs' \in [Stops -> {"none", "delayed", "waiting", "active"}]
           /\ \A t \in Stops : jobs'[t] # "none" => jobs[t] # "none"
  BY DEF StopTypeOK, Finish, Idle, Job

\* Every action keeps the types, and names only stops of the order.
LEMMA StopInvStep ==
    ASSUME StopInv, [StopNext]_stopVars
    PROVE  StopInv'
<1> USE DEF StopInv, JobNamesStop, WorkerNamesStop, SweepNamesStop, LeaseTypeOK,
           Job, StopTypeOK, StopEvent, StopOrigin, NoStop, Idle, Present, Open
<1>1. CASE UNCHANGED stopVars
  BY <1>1 DEF stopVars, leaseVars
<1>2. ASSUME NEW s \in Stops, Lapse(s)
      PROVE  StopInv'
  BY <1>2 DEF Lapse, leaseVars
<1>3. ASSUME NEW s \in Stops, DeclareStop(s)
      PROVE  StopInv'
  BY <1>3 DEF DeclareStop, leaseVars, CanPush, Push
<1>4. ASSUME NEW s \in Stops, ReportBlocked(s)
      PROVE  StopInv'
  BY <1>4 DEF ReportBlocked, leaseVars, CanPush, Push
<1>5. ASSUME NEW s \in Stops, TellBlocked(s)
      PROVE  StopInv'
  BY <1>5 DEF TellBlocked, leaseVars
<1>6. CASE Progress
  BY <1>6 DEF Progress, leaseVars, CancelJob
<1>7. ASSUME NEW s \in Stops, SubmitReason(s)
      PROVE  StopInv'
  <2>1. stops' \in [Stops -> StopEvent \cup {NoStop}] /\ \A t \in Stops : Present(t) => Present(t)'
    <3> DEFINE e == [stops[s] EXCEPT !.reasonGiven = TRUE, !.resolved = TRUE]
    <3>1. Present(s) /\ stops' = [stops EXCEPT ![s] = e]
      BY <1>7 DEF SubmitReason
    <3> HIDE DEF Present
    <3> QED BY <3>1, EditedStop
  <2>2. /\ jobs' \in [Stops -> {"none", "delayed", "waiting", "active"}]
        /\ \A t \in Stops : jobs'[t] # "none" => jobs[t] # "none"
    BY <1>7 DEF SubmitReason, CancelJob
  <2> QED
    BY <1>7, <2>1, <2>2 DEF SubmitReason, leaseVars
<1>8. ASSUME NEW s \in Stops, ResolveByAdmin(s)
      PROVE  StopInv'
  BY <1>8 DEF ResolveByAdmin, leaseVars, CancelJob
<1>9. ASSUME NEW s \in Stops, DelayElapses(s)
      PROVE  StopInv'
  BY <1>9 DEF DelayElapses, leaseVars
<1>10. ASSUME NEW s \in Stops, Redeliver(s)
       PROVE  StopInv'
  BY <1>10 DEF Redeliver, leaseVars
<1>11. ASSUME NEW k \in Workers, EscalateLoad(k)
       PROVE  StopInv'
  <2>1. CASE status = "DELIVERED"
    BY <1>11, <2>1, FinishStep DEF EscalateLoad, leaseVars, Holds
  <2>2. CASE status # "DELIVERED"
    <3>1. /\ worker' \in [Workers -> Job \cup {Idle}]
          /\ \A j \in Workers : worker'[j] # Idle => worker[j] # Idle /\ worker'[j].stop = worker[j].stop
      BY <1>11, <2>2 DEF EscalateLoad, Holds
    <3> QED
      BY <1>11, <2>2, <3>1 DEF EscalateLoad, leaseVars
  <2> QED BY <2>1, <2>2
<1>12. ASSUME NEW k \in Workers, EscalateClaim(k)
       PROVE  StopInv'
  <2> DEFINE s == worker[k].stop
  <2>1. s \in Stops /\ Present(s)
    BY <1>12 DEF EscalateClaim, Holds
  <2>2. CASE ~stops[s].escalated /\ ~stops[s].reasonGiven /\ ~stops[s].resolved
    <3>1. stops' \in [Stops -> StopEvent \cup {NoStop}] /\ \A t \in Stops : Present(t) => Present(t)'
      BY <1>12, <2>1, <2>2, EditedStop DEF EscalateClaim
    <3>2. /\ worker' \in [Workers -> Job \cup {Idle}]
          /\ \A j \in Workers : worker'[j] # Idle => worker[j] # Idle /\ worker'[j].stop = worker[j].stop
      <4>1. worker[k] \in Job /\ worker' = [worker EXCEPT ![k] = [worker[k] EXCEPT !.pc = "notifying"]]
        BY <1>12, <2>2 DEF EscalateClaim, Holds
      <4> QED BY <4>1
    <3> QED
      BY <1>12, <2>2, <3>1, <3>2 DEF EscalateClaim, leaseVars
  <2>3. CASE ~(~stops[s].escalated /\ ~stops[s].reasonGiven /\ ~stops[s].resolved)
    BY <1>12, <2>3, FinishStep DEF EscalateClaim, leaseVars, Holds
  <2> QED BY <2>2, <2>3
<1>13. ASSUME NEW k \in Workers, EscalateNotify(k)
       PROVE  StopInv'
  BY <1>13, FinishStep DEF EscalateNotify, leaseVars, Holds
<1>14. ASSUME NEW k \in Workers, WorkerCrash(k)
       PROVE  StopInv'
  BY <1>14 DEF WorkerCrash, leaseVars
<1>15. ASSUME NEW k \in Workers, NEW s \in Stops, TakeJob(k, s)
       PROVE  StopInv'
  BY <1>15 DEF TakeJob, leaseVars
<1>16. CASE LeaseExpires
  BY <1>16 DEF LeaseExpires, leaseVars, Expire
<1>17. ASSUME NEW w \in Runs, SweepBegin(w)
       PROVE  StopInv'
  BY <1>17 DEF SweepBegin, leaseVars, Acquire
<1>18. ASSUME NEW w \in Runs, SweepRead(w)
       PROVE  StopInv'
  BY <1>18 DEF SweepRead, leaseVars
<1>19. ASSUME NEW w \in Runs, RaiseStopFor(w)
       PROVE  StopInv'
  <2>1. CASE \E s \in Stops : /\ CanPush(s)
                           /\ Push(s, "DETECTED", FALSE, FALSE, FALSE, FALSE)
                           /\ raising' = [raising EXCEPT ![w] = s]
                           /\ sweepPc' = [sweepPc EXCEPT ![w] = "notifying"]
    BY <1>19, <2>1 DEF RaiseStopFor, leaseVars, CanPush, Push
  <2>2. CASE /\ sweepPc' = [sweepPc EXCEPT ![w] = "releasing"]
             /\ UNCHANGED <<stops, raising>>
    BY <1>19, <2>2 DEF RaiseStopFor, leaseVars
  <2> QED BY <1>19, <2>1, <2>2 DEF RaiseStopFor
<1>20. ASSUME NEW w \in Runs, PromptDriver(w)
       PROVE  StopInv'
  BY <1>20 DEF PromptDriver, leaseVars
<1>21. ASSUME NEW w \in Runs, ScheduleEscalation(w)
       PROVE  StopInv'
  BY <1>21 DEF ScheduleEscalation, leaseVars
<1>22. ASSUME NEW w \in Runs, SweepEnd(w)
       PROVE  StopInv'
  BY <1>22 DEF SweepEnd, leaseVars, Release
<1>23. ASSUME NEW w \in Runs, SweepCrash(w)
       PROVE  StopInv'
  BY <1>23 DEF SweepCrash, leaseVars, Die
<1> QED
  BY <1>1, <1>2, <1>3, <1>4, <1>5, <1>6, <1>7, <1>8, <1>9, <1>10, <1>11,
     <1>12, <1>13, <1>14, <1>15, <1>16, <1>17, <1>18, <1>19, <1>20, <1>21, <1>22, <1>23
     DEF StopNext, DriverNext, AnswerNext, QueueNext, WorkerNext, SweepNext, SweepGoes

\* Every field keeps its type; in particular no write of an escalation worker makes up a
\* stop the order does not have.
THEOREM StopTypeCorrect == StopSpec => []StopTypeOK
<1>1. StopInit => StopInv
  BY DEF StopInit, LeaseInit, StopInv, StopTypeOK, LeaseTypeOK, JobNamesStop, WorkerNamesStop,
         SweepNamesStop
<1>2. StopSpec => []StopInv
  BY <1>1, StopInvStep, PTL DEF StopSpec
<1> QED BY <1>2, PTL DEF StopInv
-----------------------------------------------------------------------------
(***************************************************************************)
(* The lease.  A run that has not outlived its key still owns it.          *)
(***************************************************************************)
UnlapsedOwnsKey == LeaseTypeOK /\ \A w \in working \ lapsed : lease = w

\* Only the lease operations touch the lease, and each keeps it with its owner.
LEMMA LeaseStep ==
    ASSUME UnlapsedOwnsKey, [StopNext]_stopVars
    PROVE  UnlapsedOwnsKey'
<1> USE LeaseAssumption DEF UnlapsedOwnsKey, LeaseTypeOK
<1>1. ASSUME UNCHANGED leaseVars PROVE UnlapsedOwnsKey'
  BY <1>1 DEF leaseVars
<1>2. ASSUME NEW w \in Runs, Acquire(w) PROVE UnlapsedOwnsKey'
  BY <1>2 DEF Acquire
<1>3. ASSUME NEW w \in Runs, Release(w) PROVE UnlapsedOwnsKey'
  BY <1>3 DEF Release
<1>4. ASSUME NEW w \in Runs, Die(w) PROVE UnlapsedOwnsKey'
  BY <1>4 DEF Die
<1>5. CASE Expire
  BY <1>5 DEF Expire
<1>6. CASE UNCHANGED stopVars
  BY <1>1, <1>6 DEF stopVars
<1>7. CASE DriverNext
  BY <1>1, <1>7 DEF DriverNext, Lapse, DeclareStop, ReportBlocked, TellBlocked
<1>8. CASE AnswerNext
  BY <1>1, <1>8 DEF AnswerNext, Progress, SubmitReason, ResolveByAdmin
<1>9. CASE QueueNext
  BY <1>1, <1>9 DEF QueueNext, WorkerNext, DelayElapses, Redeliver, TakeJob, EscalateLoad,
                    EscalateClaim, EscalateNotify, WorkerCrash
<1>10. CASE LeaseExpires
  BY <1>5, <1>10 DEF LeaseExpires
<1>11. ASSUME NEW w \in Runs, SweepNext(w) \/ SweepCrash(w)
       PROVE  UnlapsedOwnsKey'
  BY <1>1, <1>2, <1>3, <1>4, <1>11
     DEF SweepNext, SweepGoes, SweepBegin, SweepRead, RaiseStopFor, PromptDriver,
         ScheduleEscalation, SweepEnd, SweepCrash
<1> QED
  BY <1>6, <1>7, <1>8, <1>9, <1>10, <1>11 DEF StopNext

\* Of the runs that sweep at any one time, at most one has not outlived its lease.
THEOREM UnlapsedSweepsAlone == StopSpec => []UnlapsedSweepIsAlone
<1>1. StopInit => UnlapsedOwnsKey
  BY DEF StopInit, LeaseInit, UnlapsedOwnsKey, LeaseTypeOK
<1>2. ASSUME UnlapsedOwnsKey
      PROVE  UnlapsedSweepIsAlone
  <2>1. working \ lapsed \in SUBSET {lease}
    BY <1>2 DEF UnlapsedOwnsKey
  <2>2. IsFiniteSet({lease}) /\ Cardinality({lease}) = 1
    BY FS_Singleton
  <2> QED
    BY <2>1, <2>2, FS_Subset DEF UnlapsedSweepIsAlone
<1> QED
  BY <1>1, <1>2, LeaseStep, PTL DEF StopSpec
-----------------------------------------------------------------------------
(***************************************************************************)
(* Open stops.  Every push is conditional on no stop blocking, and nothing *)
(* makes a stop that does not block block again.                           *)
(***************************************************************************)

\* No action makes a second stop block.
LEMMA OpenStep ==
    ASSUME StopInv, OneOpenStop, [StopNext]_stopVars
    PROVE  OneOpenStop'
<1>1. ASSUME \A t \in Stops : Blocks(t)' => Blocks(t)
      PROVE  OneOpenStop'
  BY <1>1 DEF OneOpenStop
<1>2. ASSUME UNCHANGED stops
      PROVE  OneOpenStop'
  BY <1>1, <1>2 DEF Blocks, Present
<1>3. ASSUME NEW s \in Stops, CanPush(s), NEW e, stops' = [stops EXCEPT ![s] = e]
      PROVE  OneOpenStop'
  BY <1>3 DEF OneOpenStop, CanPush, Blocks, Present, StopInv, StopTypeOK
<1>4. CASE UNCHANGED stopVars
  BY <1>2, <1>4 DEF stopVars
<1>5. ASSUME NEW s \in Stops, Lapse(s)
      PROVE  OneOpenStop'
  <2>1. \A t \in Stops : Blocks(t)' => Blocks(t)
    BY <1>5 DEF Lapse, Blocks, Present, StopInv, StopTypeOK, StopEvent, NoStop
  <2> QED BY <1>1, <2>1
<1>6. ASSUME NEW s \in Stops, DeclareStop(s) \/ ReportBlocked(s)
      PROVE  OneOpenStop'
  BY <1>3, <1>6 DEF DeclareStop, ReportBlocked, Push
<1>7. ASSUME NEW s \in Stops, TellBlocked(s)
      PROVE  OneOpenStop'
  BY <1>2, <1>7 DEF TellBlocked
<1>8. CASE Progress
  BY <1>2, <1>8 DEF Progress
<1>9. ASSUME NEW s \in Stops, SubmitReason(s)
      PROVE  OneOpenStop'
  <2> DEFINE e == [stops[s] EXCEPT !.reasonGiven = TRUE, !.resolved = TRUE]
  <2>1. stops' = [stops EXCEPT ![s] = e] /\ Present(s)
    BY <1>9 DEF SubmitReason, StopInv, StopTypeOK
  <2>2. e.resolved /\ e.suppressed = stops[s].suppressed
    BY <2>1 DEF StopInv, StopTypeOK, StopEvent, NoStop
  <2>3. \A t \in Stops : Blocks(t)' => Blocks(t)
    <3> HIDE DEF e
    <3> QED BY <2>1, <2>2 DEF Blocks, Present, StopInv, StopTypeOK
  <2> QED BY <1>1, <2>3
<1>10. ASSUME NEW s \in Stops, ResolveByAdmin(s)
       PROVE  OneOpenStop'
  <2>1. \A t \in Stops : Blocks(t)' => Blocks(t)
    BY <1>10 DEF ResolveByAdmin, Open, Blocks, Present, StopInv, StopTypeOK, StopEvent, NoStop
  <2> QED BY <1>1, <2>1
<1>11. ASSUME NEW s \in Stops, DelayElapses(s) \/ Redeliver(s)
       PROVE  OneOpenStop'
  BY <1>2, <1>11 DEF DelayElapses, Redeliver
<1>12. ASSUME NEW k \in Workers, EscalateLoad(k) \/ EscalateNotify(k) \/ WorkerCrash(k)
       PROVE  OneOpenStop'
  BY <1>2, <1>12 DEF EscalateLoad, EscalateNotify, WorkerCrash
<1>13. ASSUME NEW k \in Workers, EscalateClaim(k)
       PROVE  OneOpenStop'
  <2> DEFINE s == worker[k].stop
             e == [stops[s] EXCEPT !.escalated = TRUE]
  <2>1. s \in Stops /\ Present(s)
    BY <1>13 DEF EscalateClaim, Holds, StopInv, StopTypeOK, WorkerNamesStop, Idle
  <2>2. UNCHANGED stops \/ stops' = [stops EXCEPT ![s] = e]
    BY <1>13 DEF EscalateClaim
  <2>3. e.resolved = stops[s].resolved /\ e.suppressed = stops[s].suppressed
    BY <2>1 DEF StopInv, StopTypeOK, StopEvent, NoStop
  <2>4. \A t \in Stops : Blocks(t)' => Blocks(t)
    <3> HIDE DEF s, e
    <3> QED BY <2>1, <2>2, <2>3 DEF Blocks, Present, StopInv, StopTypeOK
  <2> QED BY <1>1, <2>4
<1>14. ASSUME NEW k \in Workers, NEW s \in Stops, TakeJob(k, s)
       PROVE  OneOpenStop'
  BY <1>2, <1>14 DEF TakeJob
<1>15. ASSUME NEW w \in Runs, RaiseStopFor(w)
       PROVE  OneOpenStop'
  BY <1>2, <1>3, <1>15 DEF RaiseStopFor, Push
<1>16. ASSUME NEW w \in Runs, \/ SweepBegin(w) \/ SweepRead(w) \/ PromptDriver(w)
                              \/ ScheduleEscalation(w) \/ SweepEnd(w) \/ SweepCrash(w)
       PROVE  OneOpenStop'
  BY <1>2, <1>16 DEF SweepBegin, SweepRead, PromptDriver, ScheduleEscalation, SweepEnd, SweepCrash
<1>17. CASE LeaseExpires
  BY <1>2, <1>17 DEF LeaseExpires
<1> QED
  BY <1>4, <1>5, <1>6, <1>7, <1>8, <1>9, <1>10, <1>11, <1>12, <1>13, <1>14, <1>15, <1>16, <1>17
     DEF StopNext, DriverNext, AnswerNext, QueueNext, WorkerNext, SweepNext, SweepGoes

\* A delivery never has two stops that block, whichever sweeps, declarations and reports race.
THEOREM StopsOpenOneAtATime == StopSpec => []OneOpenStop
<1>1. StopInit => StopInv /\ OneOpenStop
  BY DEF StopInit, LeaseInit, StopInv, StopTypeOK, LeaseTypeOK, JobNamesStop, WorkerNamesStop,
         SweepNamesStop, OneOpenStop, Blocks, Present
<1> QED
  BY <1>1, StopInvStep, OpenStep, PTL DEF StopSpec
-----------------------------------------------------------------------------
(***************************************************************************)
(* Alerts.  The stamp escalatedAt is never taken off a stop, so one claim  *)
(* is ever made on it; the worker that made it is the only one to alert.   *)
(***************************************************************************)
AlertIsStamped == \A s \in Stops : alerts[s] > 0 => stops[s].escalated
ClaimIsFresh ==
    \A k \in Workers : Holds(k, "notifying") =>
        stops[worker[k].stop].escalated /\ alerts[worker[k].stop] = 0
OneClaim ==
    \A j, k \in Workers :
        Holds(j, "notifying") /\ Holds(k, "notifying") /\ worker[j].stop = worker[k].stop => j = k

AlertInv == AlertIsStamped /\ ClaimIsFresh /\ OneClaim /\ OneAlertPerSilence

StampsStay == \A s \in Stops : stops[s].escalated => stops'[s].escalated
NoNewClaim ==
    \A k \in Workers : Holds(k, "notifying")' => worker'[k] = worker[k]

\* No action but a claim starts an alert, and no stop is claimed twice.
LEMMA AlertStep ==
    ASSUME StopInv, AlertInv, [StopNext]_stopVars
    PROVE  AlertInv'
<1> USE DEF AlertInv, AlertIsStamped, ClaimIsFresh, OneClaim, OneAlertPerSilence
<1>1. ASSUME UNCHANGED alerts, StampsStay, NoNewClaim
      PROVE  AlertInv'
  <2>1. \A k \in Workers : Holds(k, "notifying")' =>
            Holds(k, "notifying") /\ worker'[k].stop = worker[k].stop /\ worker[k].stop \in Stops
    BY <1>1 DEF NoNewClaim, Holds, StopInv, StopTypeOK, Idle
  <2> QED BY <1>1, <2>1 DEF StampsStay
<1>2. ASSUME UNCHANGED <<alerts, stops, worker>>
      PROVE  AlertInv'
  BY <1>1, <1>2 DEF StampsStay, NoNewClaim, Holds
<1>3. ASSUME UNCHANGED <<alerts, stops>>, NEW k \in Workers, Finish(k), worker[k] # Idle
      PROVE  AlertInv'
  <2>1. NoNewClaim
    BY <1>3, FinishStep DEF NoNewClaim, Holds, StopInv
  <2> QED BY <1>1, <1>3, <2>1 DEF StampsStay
<1>4. ASSUME UNCHANGED <<alerts, worker>>, NEW s \in Stops, NEW e, stops' = [stops EXCEPT ![s] = e],
             stops[s].escalated => e.escalated
      PROVE  AlertInv'
  <2>1. StampsStay
    BY <1>4 DEF StampsStay, StopInv, StopTypeOK
  <2> QED BY <1>1, <1>4, <2>1 DEF NoNewClaim, Holds
<1>5. ASSUME UNCHANGED <<alerts, worker>>, NEW s \in Stops, CanPush(s), NEW e, stops' = [stops EXCEPT ![s] = e]
      PROVE  AlertInv'
  <2>1. ~stops[s].escalated
    BY <1>5 DEF CanPush, Present, NoStop
  <2> QED BY ONLY <1>4, <1>5, <2>1
<1>6. CASE UNCHANGED stopVars
  BY <1>2, <1>6 DEF stopVars
<1>7. ASSUME NEW s \in Stops, Lapse(s)
      PROVE  AlertInv'
  <2> DEFINE e == [stops[s] EXCEPT !.suppressed = FALSE]
  <2>1. stops' = [stops EXCEPT ![s] = e]
    BY <1>7 DEF Lapse
  <2>2. e.escalated = stops[s].escalated
    BY DEF StopInv, StopTypeOK, StopEvent, NoStop
  <2> HIDE DEF e
  <2> QED BY <1>4, <1>7, <2>1, <2>2 DEF Lapse
<1>8. ASSUME NEW s \in Stops, DeclareStop(s) \/ ReportBlocked(s)
      PROVE  AlertInv'
  BY <1>5, <1>8 DEF DeclareStop, ReportBlocked, Push
<1>9. ASSUME NEW s \in Stops, TellBlocked(s)
      PROVE  AlertInv'
  BY <1>2, <1>9 DEF TellBlocked
<1>10. CASE Progress
  BY <1>2, <1>10 DEF Progress
<1>11. ASSUME NEW s \in Stops, SubmitReason(s)
       PROVE  AlertInv'
  <2> DEFINE e == [stops[s] EXCEPT !.reasonGiven = TRUE, !.resolved = TRUE]
  <2>1. stops' = [stops EXCEPT ![s] = e]
    BY <1>11 DEF SubmitReason, StopInv, StopTypeOK
  <2>2. e.escalated = stops[s].escalated
    BY DEF StopInv, StopTypeOK, StopEvent, NoStop
  <2> HIDE DEF e
  <2> QED BY <1>4, <1>11, <2>1, <2>2 DEF SubmitReason
<1>12. ASSUME NEW s \in Stops, ResolveByAdmin(s)
       PROVE  AlertInv'
  <2> DEFINE e == [stops[s] EXCEPT !.resolved = TRUE]
  <2>1. stops' = [stops EXCEPT ![s] = e]
    BY <1>12 DEF ResolveByAdmin
  <2>2. e.escalated = stops[s].escalated
    BY DEF StopInv, StopTypeOK, StopEvent, NoStop
  <2> HIDE DEF e
  <2> QED BY <1>4, <1>12, <2>1, <2>2 DEF ResolveByAdmin
<1>13. ASSUME NEW s \in Stops, DelayElapses(s) \/ Redeliver(s)
       PROVE  AlertInv'
  BY <1>2, <1>13 DEF DelayElapses, Redeliver
<1>14. ASSUME NEW k \in Workers, NEW s \in Stops, TakeJob(k, s)
       PROVE  AlertInv'
  <2>1. NoNewClaim
    BY <1>14 DEF TakeJob, NoNewClaim, Holds, StopInv, StopTypeOK
  <2> QED BY <1>1, <1>14, <2>1 DEF TakeJob, StampsStay
<1>15. ASSUME NEW k \in Workers, EscalateLoad(k)
       PROVE  AlertInv'
  <2>1. CASE status = "DELIVERED"
    BY <1>3, <1>15, <2>1 DEF EscalateLoad, Holds
  <2>2. CASE status # "DELIVERED"
    <3>1. NoNewClaim
      BY <1>15, <2>2 DEF EscalateLoad, NoNewClaim, Holds, StopInv, StopTypeOK, Idle
    <3> QED BY <1>1, <1>15, <3>1 DEF EscalateLoad, StampsStay
  <2> QED BY <2>1, <2>2
<1>16. ASSUME NEW k \in Workers, EscalateClaim(k)
       PROVE  AlertInv'
  <2> DEFINE s == worker[k].stop
             e == [stops[s] EXCEPT !.escalated = TRUE]
             c == [worker[k] EXCEPT !.pc = "notifying"]
  <2>1. s \in Stops /\ Present(s) /\ worker[k] \in Job /\ worker[k].pc = "claiming"
    BY <1>16 DEF EscalateClaim, Holds, StopInv, StopTypeOK, WorkerNamesStop, Idle, Job
  <2>2. CASE ~stops[s].escalated /\ ~stops[s].reasonGiven /\ ~stops[s].resolved
    <3>1. /\ stops' = [stops EXCEPT ![s] = e] /\ worker' = [worker EXCEPT ![k] = c]
          /\ UNCHANGED alerts
      BY <1>16, <2>2 DEF EscalateClaim
    <3>2. e.escalated /\ c.stop = s
      BY <2>1 DEF Job, StopInv, StopTypeOK, StopEvent, NoStop
    <3>3. \A j \in Workers : Holds(j, "notifying") => worker[j].stop # s
      BY <2>2
    <3>4. \A j \in Workers : Holds(j, "notifying") => worker[j].stop \in Stops
      BY DEF Holds, StopInv, StopTypeOK, Idle
    <3>5. stops'[s].escalated /\ \A t \in Stops : t # s => stops'[t] = stops[t]
      <4> HIDE DEF e, s
      <4> QED BY <2>1, <3>1, <3>2 DEF StopInv, StopTypeOK
    <3>6. worker'[k].stop = s /\ \A j \in Workers : j # k => worker'[j] = worker[j]
      <4> HIDE DEF c, s
      <4> QED BY <3>1, <3>2 DEF StopInv, StopTypeOK
    <3>7. alerts[s] = 0 /\ UNCHANGED alerts
      BY <2>1, <2>2, <3>1 DEF StopInv, StopTypeOK
    <3>8. \A j \in Workers : Holds(j, "notifying")' /\ j # k => Holds(j, "notifying")
      BY <3>6 DEF Holds
    <3> HIDE DEF s
    <3>9. AlertIsStamped' /\ OneAlertPerSilence'
      BY <2>1, <3>5, <3>7
    <3>10. ClaimIsFresh'
      BY <2>1, <3>3, <3>4, <3>5, <3>6, <3>7, <3>8
    <3>11. OneClaim'
      BY <3>3, <3>6, <3>8
    <3> QED BY <3>9, <3>10, <3>11
  <2>3. CASE ~(~stops[s].escalated /\ ~stops[s].reasonGiven /\ ~stops[s].resolved)
    BY <1>3, <1>16, <2>3 DEF EscalateClaim, Holds
  <2> QED BY <2>2, <2>3
<1>17. ASSUME NEW k \in Workers, EscalateNotify(k)
       PROVE  AlertInv'
  <2> DEFINE s == worker[k].stop
  <2>0. s \in Stops /\ Holds(k, "notifying")
    BY <1>17 DEF EscalateNotify, Holds, StopInv, StopTypeOK, Idle
  <2>1. /\ s \in Stops /\ alerts[s] = 0 /\ stops[s].escalated /\ UNCHANGED stops
        /\ alerts' = [alerts EXCEPT ![s] = 1]
    <3>1. alerts[s] = 0 /\ stops[s].escalated
      BY <2>0
    <3>2. alerts' = [alerts EXCEPT ![s] = alerts[s] + 1] /\ UNCHANGED stops
      BY <1>17 DEF EscalateNotify
    <3> QED BY <2>0, <3>1, <3>2
  <2>2. \A j \in Workers : worker'[j] = IF j = k THEN Idle ELSE worker[j]
    BY <1>17, FinishStep DEF EscalateNotify, Holds, StopInv
  <2>3. \A j \in Workers : Holds(j, "notifying")' => j # k /\ Holds(j, "notifying") /\ worker[j].stop \in Stops
    BY <2>2 DEF Holds, StopInv, StopTypeOK, Idle
  <2>4. \A j \in Workers : Holds(j, "notifying")' => worker[j].stop # s
    BY <1>17, <2>3 DEF EscalateNotify
  <2> HIDE DEF s
  <2> QED BY <2>1, <2>2, <2>3, <2>4 DEF StopInv, StopTypeOK
<1>18. ASSUME NEW k \in Workers, WorkerCrash(k)
       PROVE  AlertInv'
  <2>1. NoNewClaim
    BY <1>18 DEF WorkerCrash, NoNewClaim, Holds, StopInv, StopTypeOK
  <2> QED BY <1>1, <1>18, <2>1 DEF WorkerCrash, StampsStay
<1>19. ASSUME NEW w \in Runs, RaiseStopFor(w)
       PROVE  AlertInv'
  BY <1>2, <1>5, <1>19 DEF RaiseStopFor, Push
<1>20. ASSUME NEW w \in Runs, \/ SweepBegin(w) \/ SweepRead(w) \/ PromptDriver(w)
                              \/ ScheduleEscalation(w) \/ SweepEnd(w) \/ SweepCrash(w)
       PROVE  AlertInv'
  BY <1>2, <1>20 DEF SweepBegin, SweepRead, PromptDriver, ScheduleEscalation, SweepEnd, SweepCrash
<1>21. CASE LeaseExpires
  BY <1>2, <1>21 DEF LeaseExpires
<1> HIDE DEF AlertInv
<1> QED
  BY <1>6, <1>7, <1>8, <1>9, <1>10, <1>11, <1>12, <1>13, <1>14, <1>15, <1>16, <1>17, <1>18,
     <1>19, <1>20, <1>21
     DEF StopNext, DriverNext, AnswerNext, QueueNext, WorkerNext, SweepNext, SweepGoes

\* The transporter hears of one stop at most once, however often its job is delivered and
\* whichever workers overlap or die.
THEOREM SilenceIsToldOnce == StopSpec => []OneAlertPerSilence
<1>1. StopInit => StopInv /\ AlertInv
  BY DEF StopInit, LeaseInit, StopInv, StopTypeOK, LeaseTypeOK, JobNamesStop, WorkerNamesStop,
         SweepNamesStop, AlertInv, AlertIsStamped, ClaimIsFresh, OneClaim, OneAlertPerSilence, Holds
<1>2. StopSpec => [](StopInv /\ AlertInv)
  BY <1>1, StopInvStep, AlertStep, PTL DEF StopSpec
<1> QED BY <1>2, PTL DEF AlertInv
=============================================================================
