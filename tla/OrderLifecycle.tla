--------------------------- MODULE OrderLifecycle ---------------------------
(***************************************************************************)
(* The life of an order, from its creation to its end, with everything     *)
(* that is booked, billed or released on the way: orders.controller.ts,    *)
(* orders.service.ts, dispatch.service.ts, routing.service.ts, the         *)
(* settlement halves of payments.service.ts and invoices.service.ts, the   *)
(* payment-timeout processor and the vehicle verification.                 *)
(*                                                                         *)
(* A handler loads the order, decides, and then runs one MongoDB           *)
(* transaction whose writes are conditional.  Between the two, any other   *)
(* handler may commit.  A handler whose transaction still uses what it     *)
(* loaded is split into Load (the snapshot is kept in req[r]) and its      *)
(* commit; a handler whose writes depend on nothing it loaded, other than  *)
(* through the condition of the write itself, is one action.               *)
(***************************************************************************)
EXTENDS Naturals, OrderState

CONSTANTS
    Orders,         \* order ids
    Drivers, Trucks, Tanks,
    Transporters,   \* transport companies that serve the orders' region
    Owner,          \* the transport company a driver, truck or tank belongs to
    Requests,       \* slots for handlers in flight between load and commit
    None,           \* an absent field
    MaxTimeouts     \* bound on paymentTimeoutCount

ASSUME NoneAssumption ==
    None \notin Orders \cup Drivers \cup Trucks \cup Tanks \cup Transporters

ASSUME OwnerAssumption == Owner \in [Drivers \cup Trucks \cup Tanks -> Transporters]

ASSUME MaxTimeoutsAssumption == MaxTimeouts \in Nat

VARIABLES
    status, paymentMethod, transportCompanyId, paymentTimeoutCount,
    timeoutJob,         \* a payment-timeout job is scheduled for the order
    driverId, truckId, tankId,      \* the order document's references
    departureTruck,     \* truck of the matched DEPARTURE verification
    loadingVerified,    \* a matched LOADING verification is on record
    invoice,            \* state of the order's invoice; the order carries
                        \* an invoiceId exactly when it is not "NONE"
    driverOrder, truckOrder, tankOrder,   \* activeOrderId of each resource
    isActive,           \* of a driver's account
    req                 \* handlers in flight, with the order they loaded

billing == <<paymentMethod, transportCompanyId, paymentTimeoutCount, timeoutJob, invoice>>
assignment == <<driverId, truckId, tankId>>
verification == <<departureTruck, loadingVerified>>
booking == <<driverOrder, truckOrder, tankOrder>>
vars == <<status, billing, assignment, verification, booking, isActive, req>>

Ops == {"cancel", "forceComplete", "reassignVehicle", "verifyVehicle", "verifyDelivery"}

Idle == [op |-> "idle", order |-> None, status |-> "ABSENT", driver |-> None,
         truck |-> None, tank |-> None, invoiced |-> FALSE]

InFlight ==
    [op: Ops, order: Orders, status: OrderStatus, driver: Drivers \cup {None},
     truck: Trucks \cup {None}, tank: Tanks \cup {None}, invoiced: BOOLEAN]

Init ==
    /\ status = [o \in Orders |-> "ABSENT"]
    /\ paymentMethod = [o \in Orders |-> "DIRECT"]
    /\ transportCompanyId = [o \in Orders |-> None]
    /\ paymentTimeoutCount = [o \in Orders |-> 0]
    /\ timeoutJob = [o \in Orders |-> FALSE]
    /\ driverId = [o \in Orders |-> None]
    /\ truckId = [o \in Orders |-> None]
    /\ tankId = [o \in Orders |-> None]
    /\ departureTruck = [o \in Orders |-> None]
    /\ loadingVerified = [o \in Orders |-> FALSE]
    /\ invoice = [o \in Orders |-> "NONE"]
    /\ driverOrder = [d \in Drivers |-> None]
    /\ truckOrder = [t \in Trucks |-> None]
    /\ tankOrder = [k \in Tanks |-> None]
    /\ isActive = [d \in Drivers |-> TRUE]
    /\ req = [r \in Requests |-> Idle]

(***************************************************************************)
(* A definition whose name starts with Bug is a variant of the one that    *)
(* follows it, with a slip the code could plausibly contain.  Nothing uses *)
(* it: put in place of the original, it shows which property notices.      *)
(***************************************************************************)

\* findOneAndUpdate filtered by _id alone.
BugTransitionUnconditional(o, from, to, manualOverride) ==
    /\ Permitted(from, to, manualOverride)
    /\ status' = [status EXCEPT ![o] = to]

(***************************************************************************)
(* OrderStateService.transition(): the table's edge, taken only if the     *)
(* order is still in `from` when the write lands.                          *)
(***************************************************************************)
Transition(o, from, to, manualOverride) ==
    /\ Permitted(from, to, manualOverride)
    /\ status[o] = from
    /\ status' = [status EXCEPT ![o] = to]

\* updateOne({_id: x, activeOrderId: o}, {$unset: activeOrderId}).
Released(activeOrder, x, o) ==
    [y \in DOMAIN activeOrder |->
        IF y = x /\ activeOrder[y] = o THEN None ELSE activeOrder[y]]

\* The filter without {$exists: false}: a booked resource is booked again.
BugBookableTwice(activeOrder, x, o) ==
    \A y \in DOMAIN activeOrder : activeOrder[y] # o

\* Without the unique index.
BugBookableNoIndex(activeOrder, x, o) == activeOrder[x] = None

\* findOneAndUpdate({_id: x, activeOrderId: {$exists: false}}) under the
\* unique partial index on activeOrderId: no two documents name one order.
Bookable(activeOrder, x, o) ==
    /\ activeOrder[x] = None
    /\ \A y \in DOMAIN activeOrder : activeOrder[y] # o

(***************************************************************************)
(* Placing, approving, routing.                                            *)
(***************************************************************************)
Create(o, method) ==
    /\ status[o] = "ABSENT"
    /\ status' = [status EXCEPT ![o] = "PENDING_APPROVAL"]
    /\ paymentMethod' = [paymentMethod EXCEPT ![o] = method]
    /\ UNCHANGED <<transportCompanyId, paymentTimeoutCount, timeoutJob, invoice,
                   assignment, verification, booking, isActive, req>>

Approve(o) ==
    /\ Transition(o, "PENDING_APPROVAL", "APPROVED", FALSE)
    /\ UNCHANGED <<billing, assignment, verification, booking, isActive, req>>

Reject(o) ==
    /\ Transition(o, "PENDING_APPROVAL", "REJECTED", FALSE)
    /\ UNCHANGED <<billing, assignment, verification, booking, isActive, req>>

\* routeOrder() that resolves no single transporter.
RouteUnresolved(o) ==
    /\ Transition(o, "APPROVED", "AWAITING_ROUTING", FALSE)
    /\ UNCHANGED <<billing, assignment, verification, booking, isActive, req>>

\* routeOrder() that resolves transporter c: one transaction takes the order
\* through ROUTED_TO_TRANSPORT to PENDING_PAYMENT and issues the invoice,
\* whose unique orderId index admits no second one.  Only a DIRECT order gets
\* a payment deadline.
RouteOrder(o, from, c) ==
    /\ from \in {"APPROVED", "AWAITING_ROUTING"}
    /\ Permitted(from, "ROUTED_TO_TRANSPORT", FALSE)
    /\ Permitted("ROUTED_TO_TRANSPORT", "PENDING_PAYMENT", FALSE)
    /\ status[o] = from
    /\ invoice[o] = "NONE"
    /\ status' = [status EXCEPT ![o] = "PENDING_PAYMENT"]
    /\ transportCompanyId' = [transportCompanyId EXCEPT ![o] = c]
    /\ invoice' = [invoice EXCEPT ![o] = "ISSUED"]
    /\ timeoutJob' = [timeoutJob EXCEPT ![o] = @ \/ paymentMethod[o] = "DIRECT"]
    /\ UNCHANGED <<paymentMethod, paymentTimeoutCount,
                   assignment, verification, booking, isActive, req>>

(***************************************************************************)
(* Settlement: the customer accepts or pays, or the window lapses.         *)
(***************************************************************************)
\* Without the refusal of DIRECT orders.
BugAcceptDirect(o) ==
    /\ Transition(o, "PENDING_PAYMENT", "ROUTED_TO_TRANSPORT", FALSE)
    /\ timeoutJob' = [timeoutJob EXCEPT ![o] = FALSE]
    /\ UNCHANGED <<paymentMethod, transportCompanyId, paymentTimeoutCount, invoice,
                   assignment, verification, booking, isActive, req>>

AcceptFinalPrice(o) ==
    /\ paymentMethod[o] # "DIRECT"
    /\ Transition(o, "PENDING_PAYMENT", "ROUTED_TO_TRANSPORT", FALSE)
    /\ timeoutJob' = [timeoutJob EXCEPT ![o] = FALSE]
    /\ UNCHANGED <<paymentMethod, transportCompanyId, paymentTimeoutCount, invoice,
                   assignment, verification, booking, isActive, req>>

\* applySettlement(): only an ISSUED invoice changes.
Settled(state) == IF state = "ISSUED" THEN "SETTLED" ELSE state

\* handleWebhook(): one transaction settles the invoice (there must be one)
\* and moves the order on.
ConfirmPayment(o) ==
    /\ invoice[o] # "NONE"
    /\ Transition(o, "PENDING_PAYMENT", "ROUTED_TO_TRANSPORT", FALSE)
    /\ invoice' = [invoice EXCEPT ![o] = Settled(@)]
    /\ timeoutJob' = [timeoutJob EXCEPT ![o] = FALSE]
    /\ UNCHANGED <<paymentMethod, transportCompanyId, paymentTimeoutCount,
                   assignment, verification, booking, isActive, req>>

\* Manual settlement of a DEFERRED or CREDIT invoice by its payee or payer.
SettleInvoice(o) ==
    /\ paymentMethod[o] # "DIRECT"
    /\ invoice[o] = "ISSUED"
    /\ invoice' = [invoice EXCEPT ![o] = Settled(@)]
    /\ UNCHANGED <<status, paymentMethod, transportCompanyId, paymentTimeoutCount, timeoutJob,
                   assignment, verification, booking, isActive, req>>

\* The payment window lasts minutes, a handler moments: a handler that loaded
\* the order before the window opened is over when it closes.
WindowOutlivesRequests(o) ==
    \A r \in Requests :
        req[r].order = o => req[r].status = "PENDING_PAYMENT"

\* The scheduled job fires.
TimeOut(o) ==
    /\ timeoutJob[o]
    /\ paymentTimeoutCount[o] < MaxTimeouts
    /\ WindowOutlivesRequests(o)
    /\ Transition(o, "PENDING_PAYMENT", "APPROVED", FALSE)
    /\ paymentTimeoutCount' = [paymentTimeoutCount EXCEPT ![o] = @ + 1]
    /\ timeoutJob' = [timeoutJob EXCEPT ![o] = FALSE]
    /\ driverOrder' = Released(driverOrder, driverId[o], o)
    /\ driverId' = [driverId EXCEPT ![o] = None]
    /\ UNCHANGED <<paymentMethod, transportCompanyId, invoice, truckId, tankId,
                   verification, truckOrder, tankOrder, isActive, req>>

\* A client may reopen the window until two timeouts have gone by, the fuel
\* company's administrator at any time.  The window it opens has a deadline
\* whatever the payment method.
Redispatch(o, byClient) ==
    /\ byClient => paymentTimeoutCount[o] < 2
    /\ Transition(o, "APPROVED", "PENDING_PAYMENT", FALSE)
    /\ timeoutJob' = [timeoutJob EXCEPT ![o] = TRUE]
    /\ UNCHANGED <<paymentMethod, transportCompanyId, paymentTimeoutCount, invoice,
                   assignment, verification, booking, isActive, req>>

(***************************************************************************)
(* Dispatch: one transaction books a driver, a truck and a tank.  The      *)
(* acting administrator sees only orders routed to his own company, and    *)
(* only that company's drivers, trucks and tanks.                          *)
(***************************************************************************)
\* The truck's and the tank's id swapped in the order update.
BugAssignSwapped(o, d, t, k) ==
    /\ transportCompanyId[o] # None
    /\ {Owner[d], Owner[t], Owner[k]} = {transportCompanyId[o]}
    /\ isActive[d]
    /\ Bookable(driverOrder, d, o) /\ Bookable(truckOrder, t, o) /\ Bookable(tankOrder, k, o)
    /\ Transition(o, "ROUTED_TO_TRANSPORT", "ASSIGNED_TO_DRIVER", FALSE)
    /\ driverOrder' = [driverOrder EXCEPT ![d] = o]
    /\ truckOrder' = [truckOrder EXCEPT ![t] = o]
    /\ tankOrder' = [tankOrder EXCEPT ![k] = o]
    /\ driverId' = [driverId EXCEPT ![o] = d]
    /\ truckId' = [truckId EXCEPT ![o] = k]
    /\ tankId' = [tankId EXCEPT ![o] = t]
    /\ UNCHANGED <<billing, verification, isActive, req>>

AssignDriver(o, d, t, k) ==
    /\ transportCompanyId[o] # None
    /\ {Owner[d], Owner[t], Owner[k]} = {transportCompanyId[o]}
    /\ isActive[d]
    /\ Bookable(driverOrder, d, o)
    /\ Bookable(truckOrder, t, o)
    /\ Bookable(tankOrder, k, o)
    /\ Transition(o, "ROUTED_TO_TRANSPORT", "ASSIGNED_TO_DRIVER", FALSE)
    /\ driverOrder' = [driverOrder EXCEPT ![d] = o]
    /\ truckOrder' = [truckOrder EXCEPT ![t] = o]
    /\ tankOrder' = [tankOrder EXCEPT ![k] = o]
    /\ driverId' = [driverId EXCEPT ![o] = d]
    /\ truckId' = [truckId EXCEPT ![o] = t]
    /\ tankId' = [tankId EXCEPT ![o] = k]
    /\ UNCHANGED <<billing, verification, isActive, req>>

\* Deactivating an account frees the driver's own booking and leaves the
\* order as it is.
Deactivate(d) ==
    /\ isActive[d]
    /\ isActive' = [isActive EXCEPT ![d] = FALSE]
    /\ driverOrder' = [driverOrder EXCEPT ![d] = None]
    /\ UNCHANGED <<status, billing, assignment, verification,
                   truckOrder, tankOrder, req>>

Activate(d) ==
    /\ ~isActive[d]
    /\ isActive' = [isActive EXCEPT ![d] = TRUE]
    /\ UNCHANGED <<status, billing, assignment, verification, booking, req>>

(***************************************************************************)
(* Steps of the delivery whose writes do not use what the handler loaded.  *)
(***************************************************************************)
ConfirmLoading(o) ==
    /\ loadingVerified[o]
    /\ Transition(o, "LOADING", "IN_TRANSIT", FALSE)
    /\ UNCHANGED <<billing, assignment, verification, booking, isActive, req>>

OverrideVerification(o) ==
    /\ \/ Transition(o, "ASSIGNED_TO_DRIVER", "LOADING", TRUE)
       \/ Transition(o, "LOADING", "IN_TRANSIT", TRUE)
    /\ UNCHANGED <<billing, assignment, verification, booking, isActive, req>>

VerifyArrival(o) ==
    /\ Transition(o, "IN_TRANSIT", "UNLOADING", FALSE)
    /\ UNCHANGED <<billing, assignment, verification, booking, isActive, req>>

(***************************************************************************)
(* Handlers that act on the order they loaded.                             *)
(***************************************************************************)

\* resolveOutstandingStage(): DEPARTURE until the truck leaves, LOADING until
\* a matched attempt is recorded.
VerificationOutstanding(o) ==
    \/ status[o] = "ASSIGNED_TO_DRIVER"
    \/ status[o] = "LOADING" /\ ~loadingVerified[o]

\* The check each handler makes on the order it has just loaded.
Admitted(op, o) ==
    CASE op = "cancel"          -> status[o] \in Cancellable
      [] op = "forceComplete"   -> status[o] \in ForceCompletable
      [] op = "reassignVehicle" -> status[o] = "ASSIGNED_TO_DRIVER"
      [] op = "verifyVehicle"   -> VerificationOutstanding(o)
      [] op = "verifyDelivery"  -> status[o] = "UNLOADING"

Load(r, op, o) ==
    /\ req[r] = Idle
    /\ Admitted(op, o)
    /\ req' = [req EXCEPT ![r] =
                 [op |-> op, order |-> o, status |-> status[o],
                  driver |-> driverId[o], truck |-> truckId[o], tank |-> tankId[o],
                  invoiced |-> invoice[o] # "NONE"]]
    /\ UNCHANGED <<status, billing, assignment, verification, booking, isActive>>

\* The handler fails: a conditional write misses, a check inside the
\* transaction refuses, the presented vehicle does not match, or the process
\* dies.  The transaction rolls back and nothing is changed.
Abort(r) ==
    /\ req[r] # Idle
    /\ req' = [req EXCEPT ![r] = Idle]
    /\ UNCHANGED <<status, billing, assignment, verification, booking, isActive>>

Finish(r, op) ==
    /\ req[r].op = op
    /\ req' = [req EXCEPT ![r] = Idle]

\* Only the vehicle is released.
BugReleaseKeepsDriver(r) ==
    /\ truckOrder' = Released(truckOrder, req[r].truck, req[r].order)
    /\ tankOrder' = Released(tankOrder, req[r].tank, req[r].order)
    /\ UNCHANGED driverOrder

\* releaseDriverIfAssigned(order): the driver, truck and tank of the order
\* as it was loaded, each only if still booked to it.
ReleaseBookings(r) ==
    /\ driverOrder' = Released(driverOrder, req[r].driver, req[r].order)
    /\ truckOrder' = Released(truckOrder, req[r].truck, req[r].order)
    /\ tankOrder' = Released(tankOrder, req[r].tank, req[r].order)

\* updateOne by _id alone.
BugVoidsAnything(state) == "VOID"

\* voidInvoice(): only an ISSUED invoice changes.
Voided(state) == IF state = "ISSUED" THEN "VOID" ELSE state

Cancel(r) ==
    LET o == req[r].order IN
    /\ Finish(r, "cancel")
    /\ ReleaseBookings(r)
    /\ Transition(o, req[r].status, "CANCELLED", FALSE)
    /\ invoice' = IF req[r].invoiced THEN [invoice EXCEPT ![o] = Voided(@)] ELSE invoice
    /\ timeoutJob' = [timeoutJob EXCEPT ![o] =
                         @ /\ req[r].status \notin {"ASSIGNED_TO_DRIVER", "PENDING_PAYMENT"}]
    /\ UNCHANGED <<paymentMethod, transportCompanyId, paymentTimeoutCount,
                   assignment, verification, isActive>>

ForceComplete(r) ==
    /\ Finish(r, "forceComplete")
    /\ ReleaseBookings(r)
    /\ Transition(req[r].order, req[r].status, "DELIVERED", TRUE)
    /\ UNCHANGED <<billing, assignment, verification, isActive>>

\* verifyDelivery -> completeDelivery(), once the one-time code has matched.
CompleteDelivery(r) ==
    /\ Finish(r, "verifyDelivery")
    /\ ReleaseBookings(r)
    /\ Transition(req[r].order, "UNLOADING", "DELIVERED", FALSE)
    /\ UNCHANGED <<billing, assignment, verification, isActive>>

\* The truck and tank of the loaded order are released, new ones booked, and
\* the order updated by its id alone: the write has no status condition.
ReassignVehicle(r, t, k) ==
    LET o == req[r].order
        freeTrucks == Released(truckOrder, req[r].truck, o)
        freeTanks == Released(tankOrder, req[r].tank, o)
    IN  /\ Finish(r, "reassignVehicle")
        /\ {Owner[t], Owner[k]} = {transportCompanyId[o]}
        /\ Bookable(freeTrucks, t, o)
        /\ Bookable(freeTanks, k, o)
        /\ truckOrder' = [freeTrucks EXCEPT ![t] = o]
        /\ tankOrder' = [freeTanks EXCEPT ![k] = o]
        /\ truckId' = [truckId EXCEPT ![o] = t]
        /\ tankId' = [tankId EXCEPT ![o] = k]
        /\ UNCHANGED <<status, billing, driverId, verification, driverOrder, isActive>>

\* The card presented resolves to the truck of the loaded order.
VerifyDeparture(r) ==
    LET o == req[r].order IN
    /\ Finish(r, "verifyVehicle")
    /\ req[r].status = "ASSIGNED_TO_DRIVER"
    /\ departureTruck' = [departureTruck EXCEPT ![o] = req[r].truck]
    /\ Transition(o, "ASSIGNED_TO_DRIVER", "LOADING", FALSE)
    /\ UNCHANGED <<billing, assignment, loadingVerified, booking, isActive>>

\* The same, inside the warehouse's geofence: recorded on the order whatever
\* its status has become.
VerifyLoading(r) ==
    /\ Finish(r, "verifyVehicle")
    /\ req[r].status = "LOADING"
    /\ loadingVerified' = [loadingVerified EXCEPT ![req[r].order] = TRUE]
    /\ UNCHANGED <<status, billing, assignment, departureTruck, booking, isActive>>

Next ==
    \/ \E o \in Orders :
        \/ \E m \in PaymentMethod : Create(o, m)
        \/ Approve(o)
        \/ Reject(o)
        \/ RouteUnresolved(o)
        \/ \E from \in {"APPROVED", "AWAITING_ROUTING"}, c \in Transporters :
               RouteOrder(o, from, c)
        \/ AcceptFinalPrice(o)
        \/ ConfirmPayment(o)
        \/ SettleInvoice(o)
        \/ TimeOut(o)
        \/ \E byClient \in BOOLEAN : Redispatch(o, byClient)
        \/ \E d \in Drivers, t \in Trucks, k \in Tanks : AssignDriver(o, d, t, k)
        \/ ConfirmLoading(o)
        \/ OverrideVerification(o)
        \/ VerifyArrival(o)
    \/ \E d \in Drivers : Deactivate(d) \/ Activate(d)
    \/ \E r \in Requests :
        \/ \E op \in Ops, o \in Orders : Load(r, op, o)
        \/ Abort(r)
        \/ Cancel(r)
        \/ ForceComplete(r)
        \/ CompleteDelivery(r)
        \/ \E t \in Trucks, k \in Tanks : ReassignVehicle(r, t, k)
        \/ VerifyDeparture(r)
        \/ VerifyLoading(r)

Spec == Init /\ [][Next]_vars
-----------------------------------------------------------------------------
(***************************************************************************)
(* Properties.                                                             *)
(***************************************************************************)

\* Every field holds a value the order, user, truck, tank and invoice schemas
\* admit, and a handler in flight holds a snapshot of one order.
TypeOK ==
    /\ status \in [Orders -> OrderStatus]
    /\ paymentMethod \in [Orders -> PaymentMethod]
    /\ transportCompanyId \in [Orders -> Transporters \cup {None}]
    /\ paymentTimeoutCount \in [Orders -> 0..MaxTimeouts]
    /\ timeoutJob \in [Orders -> BOOLEAN]
    /\ driverId \in [Orders -> Drivers \cup {None}]
    /\ truckId \in [Orders -> Trucks \cup {None}]
    /\ tankId \in [Orders -> Tanks \cup {None}]
    /\ departureTruck \in [Orders -> Trucks \cup {None}]
    /\ loadingVerified \in [Orders -> BOOLEAN]
    /\ invoice \in [Orders -> InvoiceState]
    /\ driverOrder \in [Drivers -> Orders \cup {None}]
    /\ truckOrder \in [Trucks -> Orders \cup {None}]
    /\ tankOrder \in [Tanks -> Orders \cup {None}]
    /\ isActive \in [Drivers -> BOOLEAN]
    /\ req \in [Requests -> InFlight \cup {Idle}]

\* A driver marked busy is the driver of that very order, and the order is
\* still being hauled: no cancellation, completion or deactivation, in
\* whatever order they commit, leaves a driver busy for nothing.
BusyDriverHauls ==
    \A d \in Drivers :
        driverOrder[d] # None =>
            /\ driverId[driverOrder[d]] = d
            /\ status[driverOrder[d]] \in Hauling

\* An order being hauled keeps its truck and its tank booked to itself, so
\* dispatch can give neither away: two reassignments, or a reassignment and a
\* release acting on old snapshots, never free a vehicle that is in use.
HaulKeepsVehicle ==
    \A o \in Orders :
        status[o] \in Hauling =>
            /\ truckId[o] # None /\ truckOrder[truckId[o]] = o
            /\ tankId[o] # None /\ tankOrder[tankId[o]] = o

\* A truck or tank that names an order is the one the order names: the
\* booking and the document never drift apart, and no order holds two.
BookedVehicleIsRecorded ==
    /\ \A t \in Trucks : truckOrder[t] # None => truckId[truckOrder[t]] = t
    /\ \A k \in Tanks : tankOrder[k] # None => tankId[tankOrder[k]] = k

\* No truck is committed to an order that has no live bill, and none to a
\* DIRECT order that is not paid, by whichever of routing, redispatch,
\* acceptance, payment, timeout and cancellation the order got there.
HaulIsBilled ==
    \A o \in Orders :
        status[o] \in Hauling =>
            /\ invoice[o] \in {"ISSUED", "SETTLED"}
            /\ paymentMethod[o] = "DIRECT" => invoice[o] = "SETTLED"

\* A settled or void invoice stays so: a late cancellation never voids a bill
\* that was paid, a late payment never settles one that was voided.
InvoiceIsFinal ==
    [][\A o \in Orders : invoice[o] \in {"SETTLED", "VOID"} => invoice'[o] = invoice[o]]_vars

\* The stage of the sale an order status belongs to.
StageOf(s) ==
    CASE s = "ABSENT"                            -> "absent"
      [] s = "PENDING_APPROVAL"                  -> "review"
      [] s \in {"APPROVED", "AWAITING_ROUTING"}  -> "pricing"
      [] s = "PENDING_PAYMENT"                   -> "settlement"
      [] s = "ROUTED_TO_TRANSPORT"               -> "dispatch"
      [] s \in {"ASSIGNED_TO_DRIVER", "LOADING"} -> "depot"
      [] s \in {"IN_TRANSIT", "UNLOADING"}       -> "road"
      [] s = "DELIVERED"                         -> "delivered"
      [] OTHER                                   -> "closed"

Contract ==
    INSTANCE OrderContract WITH
        stage <- [o \in Orders |-> StageOf(status[o])],
        bill <- invoice,
        method <- paymentMethod

\* The handlers together keep the promises of OrderContract.
KeepsContract == Contract!Spec

\* vehicle-verification.service.ts asks at departure "is this the assigned truck", and
\* the code does not keep to it: the run about this property finds the violation.
DepartsInVerifiedTruck ==
    \A o \in Orders :
        status[o] = "LOADING" /\ departureTruck[o] # None => departureTruck[o] = truckId[o]
=============================================================================
