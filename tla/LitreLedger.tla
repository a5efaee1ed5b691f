---------------------------- MODULE LitreLedger ----------------------------
(***************************************************************************)
(* The litres a fuel company owes one station owner in one grade:          *)
(* litre-balances.service.ts, supplier-invoices.service.ts, and the two    *)
(* order operations that draw litres and give them back.                   *)
(*                                                                         *)
(* Every operation on the balance reads and writes the same document in    *)
(* one transaction, so two of them conflict and the later one is run       *)
(* again: each is one step here.  What is read outside a transaction is    *)
(* the order, by the supplier-invoice endpoints: they load it, judge it,   *)
(* and start their transaction later.  Litres are counted in thousandths   *)
(* (roundLitres), hence integers.                                          *)
(***************************************************************************)
EXTENDS Integers, FiniteSets, Sequences, SequencesExt

CONSTANTS
    LitreOrders,        \* the owner's orders in this grade
    Quantity,           \* quantityLiters of each order
    Supplied,           \* quantities a supplier invoice may state
    Corrections,        \* amounts an administrator may correct by
    InvoiceRequests,    \* concurrent supplier-invoice requests
    MaxEntries,         \* bound on the invoices recorded for an order
    MaxCorrections      \* bound on corrections

ASSUME LitreAssumption ==
    /\ Quantity \in [LitreOrders -> Nat \ {0}]
    /\ Supplied \subseteq Nat
    /\ Corrections \subseteq Int

VARIABLES
    placed,         \* status of each order; APPROVED stands for every later one
    entries,        \* supplierInvoices of each order
    balance,        \* the LitreBalance document
    invoicing       \* supplier-invoice request in flight

litreOrder == <<placed, entries>>
litreVars == <<placed, entries, balance, invoicing>>

LitreMovementKind ==
    {"SHORTFALL_CREDIT", "EXCESS_DEBIT", "ORDER_DRAWDOWN", "DRAWDOWN_RETURNED", "CORRECTION"}

\* A movement of an order, or a correction (which has none).
Movement(kind, litres, orderId) == [kind |-> kind, litres |-> litres, orderId |-> orderId]
NoOrder == "no order"

NoBalance == [exists |-> FALSE, litres |-> 0, movements |-> <<>>, reconciledOrderIds |-> {}]
NoInvoiceRequest == [pc |-> "idle"]

LitreInit ==
    /\ placed = [o \in LitreOrders |-> "none"]
    /\ entries = [o \in LitreOrders |-> <<>>]
    /\ balance = NoBalance
    /\ invoicing = [r \in InvoiceRequests |-> NoInvoiceRequest]

\* $inc and $push of one update.
Post(b, m) == [b EXCEPT !.litres = @ + m.litres, !.movements = Append(@, m)]

MovementsOf(b, o, kinds) ==
    SelectSeq(b.movements, LAMBDA m : m.orderId = o /\ m.kind \in kinds)

\* find(): the place of the first movement of the order of one of these kinds, 0 if none.
FirstMovement(b, o, kinds) ==
    SelectInSeq(b.movements, LAMBDA m : m.orderId = o /\ m.kind \in kinds)

(***************************************************************************)
(* Drawing litres into a new order and giving them back.                   *)
(***************************************************************************)
Smaller(x, y) == IF x < y THEN x ELSE y

\* What an order of this size draws: nothing from a balance that is not positive.
LitresDrawn(available, requested) ==
    IF available <= 0 THEN 0 ELSE Smaller(available, requested)

\* A quote that forgets the balance may be negative.
BugProjectNegative(available, requested) == Smaller(available, requested)

\* The quote's reading of the same rule.
ProjectDrawdown(available, requested) ==
    LET drawn == Smaller(available, requested) IN IF drawn < 0 THEN 0 ELSE drawn

\* The litres are taken and no movement is left behind.
BugDrawSilently(b, o) == [b EXCEPT !.litres = @ - LitresDrawn(@, Quantity[o])]

Drawdown(b, o) ==
    LET drawn == LitresDrawn(b.litres, Quantity[o]) IN
    IF drawn <= 0 THEN b ELSE Post(b, Movement("ORDER_DRAWDOWN", -drawn, o))

\* createWithDrawdown(): the order and its drawdown in one transaction.
PlaceWithDrawdown(o) ==
    /\ placed[o] = "none"
    /\ placed' = [placed EXCEPT ![o] = "PENDING_APPROVAL"]
    /\ balance' = Drawdown(balance, o)
    /\ UNCHANGED <<entries, invoicing>>

\* The quantity ordered is returned, not the litres drawn.
BugReturnQuantity(b, o) ==
    IF MovementsOf(b, o, {"ORDER_DRAWDOWN"}) = <<>> THEN b
    ELSE Post(b, Movement("DRAWDOWN_RETURNED", Quantity[o], o))

ReturnDrawdown(b, o) ==
    LET drawn == FirstMovement(b, o, {"ORDER_DRAWDOWN"})
        returned == FirstMovement(b, o, {"DRAWDOWN_RETURNED"})
    IN IF ~b.exists \/ returned # 0 \/ drawn = 0 THEN b
       ELSE Post(b, Movement("DRAWDOWN_RETURNED", -b.movements[drawn].litres, o))

\* cancel(): the status and the return in one transaction.
CancelReturning(o) ==
    /\ placed[o] \in {"PENDING_APPROVAL", "APPROVED"}
    /\ placed' = [placed EXCEPT ![o] = "CANCELLED"]
    /\ balance' = ReturnDrawdown(balance, o)
    /\ UNCHANGED <<entries, invoicing>>

\* reject() only moves the status.
RejectKeeping(o) ==
    /\ placed[o] = "PENDING_APPROVAL"
    /\ placed' = [placed EXCEPT ![o] = "REJECTED"]
    /\ UNCHANGED <<entries, balance, invoicing>>

ApprovePlaced(o) ==
    /\ placed[o] = "PENDING_APPROVAL"
    /\ placed' = [placed EXCEPT ![o] = "APPROVED"]
    /\ UNCHANGED <<entries, balance, invoicing>>

(***************************************************************************)
(* Reconciling an order with what the supplier delivered.                  *)
(***************************************************************************)
Shortfall(o, supplied) == Quantity[o] - supplied

\* recordReconciliation(): an exact quantity records nothing, anything else is
\* refused for an order that is already among reconciledOrderIds.
RecordReconciliation(b, o, supplied) ==
    LET short == Shortfall(o, supplied)
        kind == IF short > 0 THEN "SHORTFALL_CREDIT" ELSE "EXCESS_DEBIT"
    IN IF short = 0 THEN [ok |-> TRUE, b |-> b]
       ELSE IF o \in b.reconciledOrderIds THEN [ok |-> FALSE, b |-> b]
       ELSE [ok |-> TRUE, b |-> Post([b EXCEPT !.exists = TRUE,
                                               !.reconciledOrderIds = @ \cup {o}],
                                     Movement(kind, short, o))]

ReconciliationKinds == {"SHORTFALL_CREDIT", "EXCESS_DEBIT"}

\* The prior movement is reversed by its amount and pulled by its _id.
Unreconciled(b, o) ==
    LET prior == FirstMovement(b, o, ReconciliationKinds)
    IN IF prior = 0 THEN b
       ELSE [b EXCEPT !.litres = @ - b.movements[prior].litres,
                      !.movements = RemoveAt(@, prior),
                      !.reconciledOrderIds = @ \ {o}]

\* The new quantity is recorded on top of the old one.
BugRestateOnTop(b, o, supplied) ==
    RecordReconciliation([b EXCEPT !.reconciledOrderIds = @ \ {o}], o, supplied)

RestateReconciliation(b, o, supplied) ==
    RecordReconciliation(Unreconciled(b, o), o, supplied)

\* The first confirmed entry that is not superseded, 0 if there is none.
CurrentEntry(o) == SelectInSeq(entries[o], LAMBDA e : ~e.superseded)

Eligible(o) == placed[o] \notin {"none", "CANCELLED", "REJECTED"}

\* Both endpoints judge the order as they loaded it.
LoadForConfirm(r, o, supplied) ==
    /\ invoicing[r].pc = "idle"
    /\ Eligible(o) /\ CurrentEntry(o) = 0
    /\ invoicing' = [invoicing EXCEPT ![r] =
                        [pc |-> "confirm", order |-> o, supplied |-> supplied]]
    /\ UNCHANGED <<litreOrder, balance>>

LoadForReplace(r, o, supplied) ==
    /\ invoicing[r].pc = "idle"
    /\ Eligible(o)
    /\ invoicing' = [invoicing EXCEPT ![r] =
                        [pc |-> "replace", order |-> o, supplied |-> supplied,
                         existing |-> CurrentEntry(o)]]
    /\ UNCHANGED <<litreOrder, balance>>

Entry(supplied) == [supplied |-> supplied, superseded |-> FALSE]

\* The transaction of confirm(): refused, it leaves nothing behind.
CommitConfirm(r) ==
    /\ invoicing[r].pc = "confirm"
    /\ LET o == invoicing[r].order
           result == RecordReconciliation(balance, o, invoicing[r].supplied)
       IN /\ Len(entries[o]) < MaxEntries
          /\ balance' = result.b
          /\ entries' = IF result.ok
                        THEN [entries EXCEPT ![o] = Append(@, Entry(invoicing[r].supplied))]
                        ELSE entries
    /\ invoicing' = [invoicing EXCEPT ![r] = NoInvoiceRequest]
    /\ UNCHANGED placed

\* The transaction of replace(): the entry that was current when the order was
\* loaded is superseded, whichever is current now.
CommitReplace(r) ==
    /\ invoicing[r].pc = "replace"
    /\ LET o == invoicing[r].order
           e == invoicing[r].existing
           result == RestateReconciliation(balance, o, invoicing[r].supplied)
           kept == IF e = 0 THEN entries[o] ELSE [entries[o] EXCEPT ![e].superseded = TRUE]
       IN /\ Len(entries[o]) < MaxEntries
          /\ balance' = IF result.ok THEN result.b ELSE balance
          /\ entries' = IF result.ok
                        THEN [entries EXCEPT ![o] = Append(kept, Entry(invoicing[r].supplied))]
                        ELSE entries
    /\ invoicing' = [invoicing EXCEPT ![r] = NoInvoiceRequest]
    /\ UNCHANGED placed

\* recordCorrection(): on an existing balance only.
Correct(litres) ==
    /\ balance.exists
    /\ Len(MovementsOf(balance, NoOrder, {"CORRECTION"})) < MaxCorrections
    /\ balance' = Post(balance, Movement("CORRECTION", litres, NoOrder))
    /\ UNCHANGED <<litreOrder, invoicing>>

LitreNext ==
    \/ \E o \in LitreOrders :
        PlaceWithDrawdown(o) \/ CancelReturning(o) \/ RejectKeeping(o) \/ ApprovePlaced(o)
    \/ \E r \in InvoiceRequests :
        \/ \E o \in LitreOrders, s \in Supplied : LoadForConfirm(r, o, s) \/ LoadForReplace(r, o, s)
        \/ CommitConfirm(r) \/ CommitReplace(r)
    \/ \E l \in Corrections : Correct(l)

LitreSpec == LitreInit /\ [][LitreNext]_litreVars
-----------------------------------------------------------------------------
LitreTypeOK ==
    /\ placed \in [LitreOrders -> {"none", "PENDING_APPROVAL", "APPROVED", "CANCELLED", "REJECTED"}]
    /\ \A o \in LitreOrders : entries[o] \in Seq([supplied: Supplied, superseded: BOOLEAN])
    /\ balance.litres \in Int /\ balance.reconciledOrderIds \subseteq LitreOrders
    /\ \A i \in DOMAIN balance.movements :
        balance.movements[i] \in [kind: LitreMovementKind, litres: Int,
                                  orderId: LitreOrders \cup {NoOrder}]

\* The sum of the first n amounts.
Total(amount, n) ==
    LET sum[i \in 0..n] == IF i = 0 THEN 0 ELSE sum[i - 1] + amount[i]
    IN  sum[n]

Amounts(b) == [i \in DOMAIN b.movements |-> b.movements[i].litres]

\* The stored balance is the sum of its movements (litre-balance.schema.ts),
\* after any interleaving of drawdowns, returns, reconciliations, restatements
\* that pull a movement out of the history, and corrections.
BalanceIsSumOfMovements == balance.litres = Total(Amounts(balance), Len(balance.movements))

Reconciles(m, o) == m.orderId = o /\ m.kind \in ReconciliationKinds

\* Whatever order supplier-invoice requests commit in, the one movement an
\* order may carry is the shortfall of an invoice that still stands; an order
\* without a standing invoice of another quantity than ordered carries none.
MovementBacksStandingInvoice ==
    \A o \in LitreOrders :
        LET own == {i \in DOMAIN balance.movements : Reconciles(balance.movements[i], o)} IN
        /\ \A i, j \in own : i = j
        /\ \A i \in own : \E e \in DOMAIN entries[o] :
              /\ ~entries[o][e].superseded
              /\ Shortfall(o, entries[o][e].supplied) = balance.movements[i].litres

Holds(m, o) == m.orderId = o /\ m.kind \in {"ORDER_DRAWDOWN", "DRAWDOWN_RETURNED"}
HeldAmounts(b, o) ==
    [i \in DOMAIN b.movements |-> IF Holds(b.movements[i], o) THEN b.movements[i].litres ELSE 0]
LitresHeld(b, o) == Total(HeldAmounts(b, o), Len(b.movements))

\* A cancelled order holds no litres: what it drew was returned, once, to the
\* litre, whatever happened to the balance in between.
CancelledOrderHoldsNoLitres ==
    \A o \in LitreOrders :
        placed[o] = "CANCELLED" => LitresHeld(balance, o) = 0

\* An order draws at most its own quantity and never takes the balance below
\* zero; the quote shown before it promises exactly what it will draw.
DrawdownIsCovered ==
    [][\A o \in LitreOrders :
          placed[o] = "none" /\ placed'[o] # "none" =>
              /\ balance'.litres = balance.litres - ProjectDrawdown(balance.litres, Quantity[o])
              /\ balance'.litres < balance.litres => balance'.litres >= 0]_litreVars
=============================================================================
