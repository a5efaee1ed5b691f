-------------------------- MODULE MCPaymentWindow --------------------------
(***************************************************************************)
(* One run of PaymentWindow in two parts, chosen at the start: "races" has *)
(* every payment and one death, stall or failed transaction, "queue"       *)
(* leaves Second unpaid and has faults enough for BullMQ to drop the job.  *)
(***************************************************************************)
EXTENDS PaymentWindow

CONSTANT Second     \* a payment

VARIABLE part

MCInit == Init /\ part \in {"races", "queue"}

MCNext ==
    /\ Next
    /\ part = "races" => faults' + errors' <= 1
    /\ part = "queue" => event'[Second] = None
    /\ UNCHANGED part

\* Neither bound stops an action of Fairness: these inject no failure, and no
\* handler of Second ever runs in "queue".
MCSpec == MCInit /\ [][MCNext]_<<vars, part>> /\ Fairness
=============================================================================
