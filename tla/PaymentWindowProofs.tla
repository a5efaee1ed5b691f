------------------------ MODULE PaymentWindowProofs ------------------------
(***************************************************************************)
(* Theorems about PaymentWindow, for any number of payments and workers    *)
(* and any bounds on windows, stalls, deaths and failed transactions.      *)
(***************************************************************************)
EXTENDS PaymentWindow, TLAPS

(***************************************************************************)
(* The timeout counter stays within its type because each window lapses at *)
(* most once: a worker about to revert the order loaded a count below the  *)
(* number of windows opened, however old its snapshot is.                  *)
(***************************************************************************)
WindowsBoundCounts ==
    /\ paymentTimeoutCount <= windows
    /\ status = "PENDING_PAYMENT" => paymentTimeoutCount < windows
    /\ \A w \in Workers : worker[w].pc = "commit" => worker[w].count < windows
    /\ scheduling <= windows
    /\ cancelling > 0 => status = "CANCELLED"

TypeInv == TypeOK /\ WindowsBoundCounts

\* Every action keeps the typing invariant.
LEMMA TypeStep ==
    ASSUME TypeInv, [Next]_vars
    PROVE  TypeInv'
<1> USE WindowNoneAssumption, WindowBoundsAssumption
<1> USE DEF TypeInv, TypeOK, WindowsBoundCounts, WindowStatus, Answer, order, queue, payment, fault
<1>1. CASE UNCHANGED vars
  BY <1>1 DEF vars
<1>2. CASE Reopen
  BY <1>2 DEF Reopen
<1>3. CASE Schedule
  BY <1>3 DEF Schedule, NoJob
<1>4. CASE Cancel
  BY <1>4 DEF Cancel
<1>5. CASE CancelRemovesJob
  BY <1>5 DEF CancelRemovesJob, NoJob
<1>6. CASE StallAbandoned
  BY <1>6 DEF StallAbandoned, Stalled, NoJob
<1>7. CASE StallPaused
  BY <1>7 DEF StallPaused, Stalled, NoJob
<1>8. CASE SchedulerDies
  BY <1>8 DEF SchedulerDies
<1>9. ASSUME NEW w \in Workers, Fire(w)
      PROVE  TypeInv'
  BY <1>9 DEF Fire
<1>10. ASSUME NEW w \in Workers, LoadOrder(w)
       PROVE  TypeInv'
  BY <1>10 DEF LoadOrder
<1>11. ASSUME NEW w \in Workers, RevertOrder(w)
       PROVE  TypeInv'
  BY <1>11 DEF RevertOrder
<1>12. ASSUME NEW w \in Workers, FinishJob(w)
       PROVE  TypeInv'
  BY <1>12 DEF FinishJob, NoJob, Free
<1>13. ASSUME NEW w \in Workers, RevertFails(w)
       PROVE  TypeInv'
  BY <1>13 DEF RevertFails
<1>14. ASSUME NEW w \in Workers, WorkerDies(w)
       PROVE  TypeInv'
  BY <1>14 DEF WorkerDies, Free
<1>15. ASSUME NEW p \in Payments, RecordEvent(p) \/ AnswerDuplicate(p) \/ RefuseSignature(p)
       PROVE  TypeInv'
  BY <1>15 DEF RecordEvent, AnswerDuplicate, RefuseSignature, Outcome
<1>16. ASSUME NEW p \in Payments, RefuseContent(p)
       PROVE  TypeInv'
  <2>1. CASE Answered(p, "OUT_OF_SEQUENCE", FALSE)
    BY <1>16, <2>1 DEF RefuseContent, Answered, Outcome
  <2>2. CASE Answered(p, "AMOUNT_MISMATCH", TRUE)
    BY <1>16, <2>2 DEF RefuseContent, Answered, Outcome
  <2> QED BY <1>16, <2>1, <2>2 DEF RefuseContent
<1>17. ASSUME NEW p \in Payments, ApplyPayment(p)
       PROVE  TypeInv'
  BY <1>17 DEF ApplyPayment
<1>18. ASSUME NEW p \in Payments, PaymentRemovesJob(p)
       PROVE  TypeInv'
  BY <1>18 DEF PaymentRemovesJob, NoJob
<1>19. ASSUME NEW p \in Payments, RefuseOutOfSequence(p)
       PROVE  TypeInv'
  BY <1>19 DEF RefuseOutOfSequence, Answered, Outcome
<1>20. ASSUME NEW p \in Payments, PaymentFails(p) \/ HookDies(p)
       PROVE  TypeInv'
  BY <1>20 DEF PaymentFails, HookDies
<1> QED
  BY <1>1, <1>2, <1>3, <1>4, <1>5, <1>6, <1>7, <1>8, <1>9, <1>10, <1>11, <1>12, <1>13, <1>14,
     <1>15, <1>16, <1>17, <1>18, <1>19, <1>20 DEF Next, WorkerStep, HookStep

\* Every field keeps its type; in particular a stale worker never counts more
\* timeouts than there were windows, and a job is locked exactly while active.
THEOREM WindowTypeCorrect == Spec => []TypeOK
<1>1. Init => TypeInv
  BY WindowNoneAssumption, WindowBoundsAssumption
     DEF Init, TypeInv, TypeOK, WindowsBoundCounts, WindowStatus, NoJob, Free
<1>2. Spec => []TypeInv
  BY <1>1, TypeStep, PTL DEF Spec
<1> QED BY <1>2, PTL DEF TypeInv
-----------------------------------------------------------------------------
(***************************************************************************)
(* Payments.  Every promise to the gateway rests on two facts: a linked    *)
(* order has left PENDING_PAYMENT for good, and a handler that got past    *)
(* its transaction holds the payment the order is linked to.               *)
(***************************************************************************)
LinkedHasLeft == confirmation # None => status \in {"ROUTED_TO_TRANSPORT", "CANCELLED"}
AppliedIsLinked == \A p \in Payments : hook[p] = "applied" => confirmation = p
RunningIsRecorded == \A p \in Payments : hook[p] # "idle" => event[p] # None

PaymentInv ==
    /\ LinkedHasLeft
    /\ AppliedIsLinked
    /\ RunningIsRecorded
    /\ AcceptedPaymentIsLinked
    /\ ConfirmedEventIsLinked

\* What a step may do to a linked order.
StaysPaid ==
    confirmation # None =>
        confirmation' = confirmation /\ status' \in {"ROUTED_TO_TRANSPORT", "CANCELLED"}

\* Every action keeps the payment invariant and undoes no payment.
LEMMA PaymentStep ==
    ASSUME TypeOK, PaymentInv, [Next]_vars
    PROVE  PaymentInv' /\ StaysPaid
<1> USE WindowNoneAssumption
<1> USE DEF TypeOK, PaymentInv, LinkedHasLeft, AppliedIsLinked, RunningIsRecorded,
            AcceptedPaymentIsLinked, ConfirmedEventIsLinked, StaysPaid, Outcome, Answer,
            order, queue, payment, fault
<1>1. CASE UNCHANGED vars
  BY <1>1 DEF vars
<1>2. CASE Reopen \/ Cancel
  BY <1>2 DEF Reopen, Cancel
<1>3. CASE Schedule \/ CancelRemovesJob \/ StallAbandoned \/ StallPaused \/ SchedulerDies
  BY <1>3 DEF Schedule, CancelRemovesJob, StallAbandoned, StallPaused, SchedulerDies
<1>4. ASSUME NEW w \in Workers,
             Fire(w) \/ LoadOrder(w) \/ FinishJob(w) \/ RevertFails(w) \/ WorkerDies(w)
      PROVE  PaymentInv' /\ StaysPaid
  BY <1>4 DEF Fire, LoadOrder, FinishJob, RevertFails, WorkerDies
<1>5. ASSUME NEW w \in Workers, RevertOrder(w)
      PROVE  PaymentInv' /\ StaysPaid
  BY <1>5 DEF RevertOrder
<1>6. ASSUME NEW p \in Payments, RecordEvent(p)
      PROVE  PaymentInv' /\ StaysPaid
  BY <1>6 DEF RecordEvent
<1>7. ASSUME NEW p \in Payments, AnswerDuplicate(p) \/ RefuseSignature(p)
      PROVE  PaymentInv' /\ StaysPaid
  BY <1>7 DEF AnswerDuplicate, RefuseSignature
<1>8. ASSUME NEW p \in Payments, RefuseContent(p) \/ RefuseOutOfSequence(p)
      PROVE  PaymentInv' /\ StaysPaid
  BY <1>8 DEF RefuseContent, RefuseOutOfSequence, Answered
<1>9. ASSUME NEW p \in Payments, ApplyPayment(p)
      PROVE  PaymentInv' /\ StaysPaid
  BY <1>9 DEF ApplyPayment
<1>10. ASSUME NEW p \in Payments, PaymentRemovesJob(p)
       PROVE  PaymentInv' /\ StaysPaid
  BY <1>10 DEF PaymentRemovesJob
<1>11. ASSUME NEW p \in Payments, PaymentFails(p)
       PROVE  PaymentInv' /\ StaysPaid
  BY <1>11 DEF PaymentFails
<1>12. ASSUME NEW p \in Payments, HookDies(p)
       PROVE  PaymentInv' /\ StaysPaid
  BY <1>12 DEF HookDies
<1> QED
  BY <1>1, <1>2, <1>3, <1>4, <1>5, <1>6, <1>7, <1>8, <1>9, <1>10, <1>11, <1>12
     DEF Next, WorkerStep, HookStep

\* The payment invariant holds throughout.
LEMMA PaymentInvariant == Spec => []PaymentInv
<1>1. Init => PaymentInv
  BY WindowNoneAssumption
     DEF Init, PaymentInv, LinkedHasLeft, AppliedIsLinked, RunningIsRecorded,
         AcceptedPaymentIsLinked, ConfirmedEventIsLinked, Outcome, Answer
<1> QED BY <1>1, PaymentStep, WindowTypeCorrect, PTL DEF Spec

\* Of any number of payments for one order, only the linked one is accepted.
THEOREM AcceptedIsLinked == Spec => []AcceptedPaymentIsLinked
BY PaymentInvariant, PTL DEF PaymentInv

\* A payment whose webhook ran to its end is linked, or its event says why not.
THEOREM ConfirmedIsLinked == Spec => []ConfirmedEventIsLinked
BY PaymentInvariant, PTL DEF PaymentInv

\* No timeout worker, redelivered or resumed, and no second payment undoes a
\* payment once the order is linked to it.
THEOREM PaymentsAreKept == Spec => PaymentIsNeverUndone
<1>1. TypeOK /\ PaymentInv /\ [Next]_vars => [StaysPaid]_vars
  BY PaymentStep
<1>2. Spec => [][StaysPaid]_vars
  BY <1>1, PaymentInvariant, WindowTypeCorrect, PTL DEF Spec
<1> QED BY <1>2 DEF PaymentIsNeverUndone, StaysPaid
=============================================================================
