--------------------------- MODULE CreditBilling ---------------------------
(***************************************************************************)
(* What one fuel company, one of its clients and the platform owe each     *)
(* other: the invoice side of invoices.service.ts, billing.service.ts,     *)
(* platform-account.service.ts and credit-limit-requests.service.ts.       *)
(*                                                                         *)
(* MongoDB transactions read a snapshot and the first to commit a write    *)
(* of a document wins.  Issuing an invoice and paying cashback out read    *)
(* balances that other transactions are changing, so each is two steps: a  *)
(* snapshot and a commit.  The others read and write one document and are  *)
(* one step each.  Money is counted in the smallest currency unit.         *)
(***************************************************************************)
EXTENDS Integers, FiniteSets, FiniteSetsExt

CONSTANTS
    Bills,              \* invoices, one per order
    MethodOf,           \* paymentMethod of each
    AmountOf,           \* amount of each
    Terms,              \* commission terms and cashback rates: [basis, rate]
    CreditLimits,       \* credit limits an administrator sets or grants
    CommissionCeiling,
    Deposits,           \* payments the company records towards its commission
    DepositAmount,
    Payouts,            \* cashback payout requests of the operator
    PayoutAmount, PayoutReference,
    LimitRequests,      \* credit limit requests of the client
    MaxLimitChanges     \* bound on the administrator's own changes

CommissionBasis == {"PERCENTAGE", "PER_UNIT"}

ASSUME BillingAssumption ==
    /\ MethodOf \in [Bills -> {"DIRECT", "DEFERRED", "CREDIT"}]
    /\ AmountOf \in [Bills -> Nat]
    /\ Terms \subseteq [basis: CommissionBasis, rate: Nat]
    /\ CreditLimits \subseteq Nat
    /\ PayoutAmount \in [Payouts -> Nat]
    /\ CommissionCeiling \in Nat /\ DepositAmount \in Nat

VARIABLES
    creditLimit,        \* of the client
    limitChanges,
    bill,               \* state of each invoice
    issuing,            \* transaction issuing an invoice
    term, programme,    \* commission term and cashback programme in force
    ledger,             \* the company's AccountMovements
    payout,             \* transaction paying cashback out
    limitRequest        \* the client's credit limit requests

billVars == <<bill, issuing>>
rates == <<term, programme>>
limits == <<creditLimit, limitChanges, limitRequest>>
billingVars == <<limits, billVars, rates, ledger, payout>>

AccountMovementKind ==
    {"COMMISSION_CHARGED", "CASHBACK_CREDITED", "PAYMENT_RECORDED", "CASHBACK_PAID_OUT"}

NoRate == [basis |-> "PER_UNIT", rate |-> 0]

BillingInit ==
    /\ creditLimit = 0
    /\ limitChanges = 0
    /\ bill = [i \in Bills |-> "none"]
    /\ issuing = [i \in Bills |-> [pc |-> "idle"]]
    /\ term = NoRate
    /\ programme = NoRate
    /\ ledger = {}
    /\ payout = [p \in Payouts |-> "idle"]
    /\ limitRequest = [r \in LimitRequests |-> "none"]

(***************************************************************************)
(* The ledger.  Movements are told apart by kind, source and whether they  *)
(* reverse another; n numbers those that agree in all of these.            *)
(***************************************************************************)
AccountMovement(kind, source, amount, state, reversal) ==
    [kind |-> kind, source |-> source, amount |-> amount, state |-> state,
     reversal |-> reversal]

CreateMovement(l, m) ==
    LET same == {x \in l : x.kind = m.kind /\ x.source = m.source /\ x.reversal = m.reversal}
    IN l \cup {[kind |-> m.kind, source |-> m.source, amount |-> m.amount, state |-> m.state,
                reversal |-> m.reversal, n |-> Cardinality(same) + 1]}

\* The sum of f over a finite set.
SumOf(f, S) == MapThenSumSet(LAMBDA x : f[x], S)

\* A reversal nets out of the kind it belongs to.
ConfirmedBalance(l, kind) ==
    LET confirmed == {m \in l : m.kind = kind /\ m.state = "CONFIRMED"}
    IN SumOf([m \in confirmed |-> IF m.reversal THEN -m.amount ELSE m.amount], confirmed)

NetCommissionOwed(l) ==
    ConfirmedBalance(l, "COMMISSION_CHARGED") - ConfirmedBalance(l, "PAYMENT_RECORDED")

CashbackOwed(l) ==
    ConfirmedBalance(l, "CASHBACK_CREDITED") - ConfirmedBalance(l, "CASHBACK_PAID_OUT")

\* Percentage points of the amount, rounded half up, or a multiple of it.
ComputeAmount(rate, amount) ==
    IF rate.basis = "PERCENTAGE" THEN (amount * rate.rate + 50) \div 100
    ELSE amount * rate.rate

\* Nothing is charged without a term, or when the amount rounds to nothing.
Accrued(l, kind, rate, i) ==
    LET amount == ComputeAmount(rate, AmountOf[i]) IN
    IF amount <= 0 THEN l
    ELSE CreateMovement(l, AccountMovement(kind, i, amount, "CONFIRMED", FALSE))

SetCommissionTerm(t) ==
    /\ term' = t
    /\ UNCHANGED <<programme, limits, billVars, ledger, payout>>

\* A programme that is inactive or does not target the company is rate 0.
SetCashbackProgramme(t) ==
    /\ programme' = t
    /\ UNCHANGED <<term, limits, billVars, ledger, payout>>

(***************************************************************************)
(* Issuing, settling and voiding an invoice.                               *)
(***************************************************************************)
Outstanding == SumOf(AmountOf, {i \in Bills : MethodOf[i] = "CREDIT" /\ bill[i] = "ISSUED"})

AvailableCredit == creditLimit - Outstanding

\* issueInvoice() up to its checks, on the transaction's snapshot.
BeginIssue(i) ==
    /\ bill[i] = "none" /\ issuing[i].pc = "idle"
    /\ MethodOf[i] = "CREDIT" => AmountOf[i] <= AvailableCredit
    /\ MethodOf[i] # "DIRECT" => NetCommissionOwed(ledger) <= CommissionCeiling
    /\ issuing' = [issuing EXCEPT ![i] = [pc |-> "open", term |-> term]]
    /\ UNCHANGED <<bill, limits, rates, ledger, payout>>

\* A committed write of the client's document makes every open transaction
\* that wrote it too start over, except the winner's own.
Doomed(open, winners) ==
    [i \in Bills |-> IF i \notin winners /\ MethodOf[i] = "CREDIT" /\ open[i].pc = "open"
                     THEN [pc |-> "idle"] ELSE open[i]]

\* The credit check only reads the client.
BugCommitIssueNoConflict(i) ==
    /\ issuing[i].pc = "open"
    /\ bill' = [bill EXCEPT ![i] = "ISSUED"]
    /\ ledger' = Accrued(ledger, "COMMISSION_CHARGED", issuing[i].term, i)
    /\ issuing' = [issuing EXCEPT ![i] = [pc |-> "idle"]]
    /\ UNCHANGED <<limits, rates, payout>>

\* getAvailableCredit() writes creditLimit back to itself; the schema's
\* timestamps make that a real write, so one credit order at a time commits.
CommitIssue(i) ==
    /\ issuing[i].pc = "open"
    /\ bill' = [bill EXCEPT ![i] = "ISSUED"]
    /\ ledger' = Accrued(ledger, "COMMISSION_CHARGED", issuing[i].term, i)
    /\ issuing' = LET closed == [issuing EXCEPT ![i] = [pc |-> "idle"]] IN
                  IF MethodOf[i] = "CREDIT" THEN Doomed(closed, {i}) ELSE closed
    /\ UNCHANGED <<limits, rates, payout>>

\* Only an ISSUED invoice is settled, and only then cashback accrues.
ApplySettlement(i) ==
    /\ bill[i] = "ISSUED"
    /\ bill' = [bill EXCEPT ![i] = "SETTLED"]
    /\ ledger' = Accrued(ledger, "CASHBACK_CREDITED", programme, i)
    /\ UNCHANGED <<issuing, limits, rates, payout>>

\* The reversal is computed from the term now in force.
BugReverseAtCurrentRate(l, i) ==
    LET amount == ComputeAmount(term, AmountOf[i]) IN
    IF amount <= 0 THEN l
    ELSE CreateMovement(l, AccountMovement("COMMISSION_CHARGED", i, amount, "CONFIRMED", TRUE))

\* Every confirmed movement of the invoice not reversed yet gets a reversal of
\* its own amount.
ReverseMovementsForInvoice(l, i) ==
    LET originals == {m \in l : m.source = i /\ m.state = "CONFIRMED" /\ ~m.reversal}
        reversed == {m \in originals : \E x \in l : x.reversal /\ x.source = i
                                                    /\ x.kind = m.kind /\ x.n = m.n}
    IN l \cup {[m EXCEPT !.reversal = TRUE] : m \in originals \ reversed}

VoidInvoice(i) ==
    /\ bill[i] = "ISSUED"
    /\ bill' = [bill EXCEPT ![i] = "VOID"]
    /\ ledger' = ReverseMovementsForInvoice(ledger, i)
    /\ UNCHANGED <<issuing, limits, rates, payout>>

(***************************************************************************)
(* Payments towards commission, cashback paid out.                         *)
(***************************************************************************)
RecordPayment(d) ==
    /\ ~\E m \in ledger : m.source = d
    /\ ledger' = CreateMovement(ledger,
                     AccountMovement("PAYMENT_RECORDED", d, DepositAmount, "RECORDED", FALSE))
    /\ UNCHANGED <<limits, billVars, rates, payout>>

\* confirmPayment(): conditional on RECORDED.
ConfirmDeposit(d) ==
    \E m \in ledger :
        /\ m.source = d /\ m.state = "RECORDED"
        /\ ledger' = (ledger \ {m}) \cup {[m EXCEPT !.state = "CONFIRMED"]}
        /\ UNCHANGED <<limits, billVars, rates, payout>>

\* recordCashbackPayout(): the owed balance is read inside the transaction.
BeginPayout(p) ==
    /\ payout[p] = "idle"
    /\ payout' = [payout EXCEPT ![p] = IF PayoutAmount[p] > CashbackOwed(ledger)
                                       THEN "idle" ELSE "open"]
    /\ UNCHANGED <<limits, billVars, rates, ledger>>

\* A reference is looked up with the balance, before the insert.
BugCommitPayoutNoIndex(p) ==
    /\ payout[p] = "open"
    /\ payout' = [payout EXCEPT ![p] = "paid"]
    /\ ledger' = CreateMovement(ledger,
                     AccountMovement("CASHBACK_PAID_OUT", PayoutReference[p], PayoutAmount[p],
                                     "CONFIRMED", FALSE))
    /\ UNCHANGED <<limits, billVars, rates>>

\* The insert meets the unique index on the reference.
CommitPayout(p) ==
    /\ payout[p] = "open"
    /\ \/ /\ \A m \in ledger : ~(m.kind = "CASHBACK_PAID_OUT" /\ m.source = PayoutReference[p])
          /\ payout' = [payout EXCEPT ![p] = "paid"]
          /\ ledger' = CreateMovement(ledger,
                           AccountMovement("CASHBACK_PAID_OUT", PayoutReference[p],
                                           PayoutAmount[p], "CONFIRMED", FALSE))
       \/ /\ \E m \in ledger : m.kind = "CASHBACK_PAID_OUT" /\ m.source = PayoutReference[p]
          /\ payout' = [payout EXCEPT ![p] = "duplicate"]
          /\ UNCHANGED ledger
    /\ UNCHANGED <<limits, billVars, rates>>

(***************************************************************************)
(* The credit limit.                                                       *)
(***************************************************************************)
SetCreditLimit(l) ==
    /\ limitChanges < MaxLimitChanges
    /\ limitChanges' = limitChanges + 1
    /\ creditLimit' = l
    /\ issuing' = Doomed(issuing, {})
    /\ UNCHANGED <<bill, limitRequest, rates, ledger, payout>>

\* create(): looks for a pending request, then inserts.
CheckLimitRequest(r) ==
    /\ limitRequest[r] = "none"
    /\ \A x \in LimitRequests : limitRequest[x] # "PENDING"
    /\ limitRequest' = [limitRequest EXCEPT ![r] = "checked"]
    /\ UNCHANGED <<creditLimit, limitChanges, billVars, rates, ledger, payout>>

InsertLimitRequest(r) ==
    /\ limitRequest[r] = "checked"
    /\ limitRequest' = [limitRequest EXCEPT ![r] = "PENDING"]
    /\ UNCHANGED <<creditLimit, limitChanges, billVars, rates, ledger, payout>>

\* resolve(): conditional on PENDING; the grant in the same transaction.
ResolveLimitRequest(r, granted) ==
    /\ limitRequest[r] = "PENDING"
    /\ \/ /\ limitRequest' = [limitRequest EXCEPT ![r] = "ACCEPTED"]
          /\ creditLimit' = granted
          /\ issuing' = Doomed(issuing, {})
       \/ /\ limitRequest' = [limitRequest EXCEPT ![r] = "REJECTED"]
          /\ UNCHANGED <<creditLimit, issuing>>
    /\ UNCHANGED <<limitChanges, bill, rates, ledger, payout>>

IssueNext ==
    \/ \E i \in Bills : BeginIssue(i) \/ CommitIssue(i) \/ ApplySettlement(i) \/ VoidInvoice(i)
    \/ \E l \in CreditLimits : SetCreditLimit(l)

LedgerNext ==
    \/ \E t \in Terms : SetCommissionTerm(t) \/ SetCashbackProgramme(t)
    \/ \E d \in Deposits : RecordPayment(d) \/ ConfirmDeposit(d)
    \/ \E p \in Payouts : BeginPayout(p) \/ CommitPayout(p)

LimitNext ==
    \E r \in LimitRequests :
        \/ CheckLimitRequest(r) \/ InsertLimitRequest(r)
        \/ \E l \in CreditLimits : ResolveLimitRequest(r, l)

BillingNext == IssueNext \/ LedgerNext \/ LimitNext

BillingSpec == BillingInit /\ [][BillingNext]_billingVars
-----------------------------------------------------------------------------
BillingTypeOK ==
    /\ creditLimit \in CreditLimits \cup {0}
    /\ bill \in [Bills -> {"none", "ISSUED", "SETTLED", "VOID"}]
    /\ \A i \in Bills : issuing[i].pc \in {"idle", "open"}
    /\ term \in Terms \cup {NoRate} /\ programme \in Terms \cup {NoRate}
    /\ \A m \in ledger : m.kind \in AccountMovementKind /\ m.amount \in Nat \ {0}
    /\ payout \in [Payouts -> {"idle", "open", "paid", "duplicate"}]
    /\ limitRequest \in [LimitRequests -> {"none", "checked", "PENDING", "ACCEPTED", "REJECTED"}]

\* However many credit orders are approved at once and while the limit is
\* being changed, no approval takes the client past the limit in force when
\* it commits (FR-024a, SC-004).
CreditIsCovered ==
    [][\A i \in Bills :
          MethodOf[i] = "CREDIT" /\ bill[i] = "none" /\ bill'[i] = "ISSUED" =>
              Outstanding' <= creditLimit]_billingVars

\* The platform account follows the invoices although rates change under
\* them: a voided invoice nets to nothing, cashback is credited only for a
\* settled one, and nothing of an invoice is booked twice.
LedgerFollowsInvoices ==
    \A i \in Bills :
        LET own(kind) == {m \in ledger : m.source = i /\ m.kind = kind} IN
        /\ bill[i] \in {"none", "VOID"} =>
              ConfirmedBalance({m \in ledger : m.source = i}, "COMMISSION_CHARGED") = 0
        /\ bill[i] # "SETTLED" => own("CASHBACK_CREDITED") = {}
        /\ bill[i] # "VOID" => \A kind \in AccountMovementKind : Cardinality(own(kind)) <= 1

\* One payout per reference (FR-070), however many are submitted at once.
ReferencePaidOnce ==
    \A p, q \in Payouts :
        p # q /\ payout[p] = "paid" /\ payout[q] = "paid" => PayoutReference[p] # PayoutReference[q]

\* platform-account.service.ts: re-reading the balance inside the transaction
\* is to keep out "a payout the balance no longer covers".
PayoutsAreCovered == CashbackOwed(ledger) >= 0
=============================================================================
