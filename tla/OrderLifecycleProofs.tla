------------------------ MODULE OrderLifecycleProofs ------------------------
(***************************************************************************)
(* Theorems about OrderLifecycle, for any number of orders, drivers,       *)
(* trucks, tanks, transporters and handlers in flight.                     *)
(***************************************************************************)
EXTENDS OrderLifecycle, TLAPS

\* Releasing a booking leaves a table of bookings.
LEMMA ReleasedType ==
    ASSUME NEW S, NEW f \in [S -> Orders \cup {None}], NEW x, NEW o
    PROVE  Released(f, x, o) \in [S -> Orders \cup {None}]
BY DEF Released

\* A handler that reaches its commit holds a snapshot of an order, and leaves
\* its slot idle.
LEMMA FinishType ==
    ASSUME TypeOK, NEW r \in Requests, NEW op \in Ops, Finish(r, op)
    PROVE  /\ req[r] \in InFlight
           /\ req[r].op = op
           /\ req[r].order \in Orders
           /\ req[r].status \in OrderStatus
           /\ req[r].driver \in Drivers \cup {None}
           /\ req[r].truck \in Trucks \cup {None}
           /\ req[r].tank \in Tanks \cup {None}
           /\ req' = [req EXCEPT ![r] = Idle]
           /\ req' \in [Requests -> InFlight \cup {Idle}]
<1>1. req[r] \in InFlight
  BY DEF Finish, TypeOK, Idle, Ops
<1> QED BY <1>1 DEF Finish, InFlight, TypeOK

\* Releasing bookings leaves the three tables of bookings well typed.
LEMMA ReleaseBookingsType ==
    ASSUME TypeOK, NEW r \in Requests, ReleaseBookings(r)
    PROVE  /\ driverOrder' \in [Drivers -> Orders \cup {None}]
           /\ truckOrder' \in [Trucks -> Orders \cup {None}]
           /\ tankOrder' \in [Tanks -> Orders \cup {None}]
BY ReleasedType DEF TypeOK, ReleaseBookings

\* Every field of every document keeps its type, whatever handlers interleave.
THEOREM TypeCorrect == Spec => []TypeOK
<1>1. Init => TypeOK
  BY MaxTimeoutsAssumption DEF Init, TypeOK, OrderStatus, PaymentMethod, InvoiceState
<1>2. TypeOK /\ [Next]_vars => TypeOK'
  <2> SUFFICES ASSUME TypeOK, [Next]_vars
               PROVE  TypeOK'
    OBVIOUS
  <2> USE DEF TypeOK, billing, assignment, verification, booking
  <2>1. CASE UNCHANGED vars
    BY <2>1 DEF vars
  <2>2. ASSUME NEW o \in Orders, NEW m \in PaymentMethod, Create(o, m)
        PROVE  TypeOK'
    BY <2>2 DEF Create, OrderStatus
  <2>3. ASSUME NEW o \in Orders, Approve(o) \/ Reject(o) \/ RouteUnresolved(o)
        PROVE  TypeOK'
    BY <2>3 DEF Approve, Reject, RouteUnresolved, Transition, OrderStatus
  <2>4. ASSUME NEW o \in Orders, NEW from \in {"APPROVED", "AWAITING_ROUTING"},
               NEW c \in Transporters, RouteOrder(o, from, c)
        PROVE  TypeOK'
    BY <2>4 DEF RouteOrder, OrderStatus, InvoiceState
  <2>5. ASSUME NEW o \in Orders, AcceptFinalPrice(o)
        PROVE  TypeOK'
    BY <2>5 DEF AcceptFinalPrice, Transition, OrderStatus
  <2>6. ASSUME NEW o \in Orders, ConfirmPayment(o)
        PROVE  TypeOK'
    BY <2>6 DEF ConfirmPayment, Settled, Transition, OrderStatus, InvoiceState
  <2>7. ASSUME NEW o \in Orders, SettleInvoice(o)
        PROVE  TypeOK'
    BY <2>7 DEF SettleInvoice, Settled, InvoiceState
  <2>8. ASSUME NEW o \in Orders, TimeOut(o)
        PROVE  TypeOK'
    BY <2>8, MaxTimeoutsAssumption DEF TimeOut, Released, Transition, OrderStatus
  <2>9. ASSUME NEW o \in Orders, NEW byClient \in BOOLEAN, Redispatch(o, byClient)
        PROVE  TypeOK'
    BY <2>9 DEF Redispatch, Transition, OrderStatus
  <2>10. ASSUME NEW o \in Orders, NEW d \in Drivers, NEW t \in Trucks, NEW k \in Tanks,
                AssignDriver(o, d, t, k)
         PROVE  TypeOK'
    BY <2>10 DEF AssignDriver, Transition, OrderStatus
  <2>11. ASSUME NEW o \in Orders, ConfirmLoading(o) \/ OverrideVerification(o) \/ VerifyArrival(o)
         PROVE  TypeOK'
    BY <2>11 DEF ConfirmLoading, OverrideVerification, VerifyArrival, Transition, OrderStatus
  <2>12. ASSUME NEW d \in Drivers, Deactivate(d) \/ Activate(d)
         PROVE  TypeOK'
    BY <2>12 DEF Deactivate, Activate
  <2>13. ASSUME NEW r \in Requests, NEW op \in Ops, NEW o \in Orders, Load(r, op, o)
         PROVE  TypeOK'
    BY <2>13 DEF Load, InFlight
  <2>14. ASSUME NEW r \in Requests, Abort(r)
         PROVE  TypeOK'
    BY <2>14 DEF Abort
  <2>15. ASSUME NEW r \in Requests, Cancel(r)
         PROVE  TypeOK'
    <3>1. Finish(r, "cancel") /\ "cancel" \in Ops /\ ReleaseBookings(r)
      BY <2>15 DEF Cancel, Ops
    <3>2. req[r].order \in Orders /\ req' \in [Requests -> InFlight \cup {Idle}]
      BY <3>1, FinishType
    <3>3. /\ driverOrder' \in [Drivers -> Orders \cup {None}]
          /\ truckOrder' \in [Trucks -> Orders \cup {None}]
          /\ tankOrder' \in [Tanks -> Orders \cup {None}]
      BY <3>1, ReleaseBookingsType
    <3>4. /\ status' \in [Orders -> OrderStatus]
          /\ invoice' \in [Orders -> InvoiceState]
          /\ timeoutJob' \in [Orders -> BOOLEAN]
      BY <2>15, <3>2 DEF Cancel, Transition, Voided, OrderStatus, InvoiceState
    <3> QED BY <2>15, <3>2, <3>3, <3>4 DEF Cancel
  <2>16. ASSUME NEW r \in Requests, ForceComplete(r)
         PROVE  TypeOK'
    <3>1. Finish(r, "forceComplete") /\ "forceComplete" \in Ops /\ ReleaseBookings(r)
      BY <2>16 DEF ForceComplete, Ops
    <3>2. req[r].order \in Orders /\ req' \in [Requests -> InFlight \cup {Idle}]
      BY <3>1, FinishType
    <3>3. /\ driverOrder' \in [Drivers -> Orders \cup {None}]
          /\ truckOrder' \in [Trucks -> Orders \cup {None}]
          /\ tankOrder' \in [Tanks -> Orders \cup {None}]
      BY <3>1, ReleaseBookingsType
    <3>4. status' \in [Orders -> OrderStatus]
      BY <2>16, <3>2 DEF ForceComplete, Transition, OrderStatus
    <3> QED BY <2>16, <3>2, <3>3, <3>4 DEF ForceComplete
  <2>17. ASSUME NEW r \in Requests, CompleteDelivery(r)
         PROVE  TypeOK'
    <3>1. Finish(r, "verifyDelivery") /\ "verifyDelivery" \in Ops /\ ReleaseBookings(r)
      BY <2>17 DEF CompleteDelivery, Ops
    <3>2. req[r].order \in Orders /\ req' \in [Requests -> InFlight \cup {Idle}]
      BY <3>1, FinishType
    <3>3. /\ driverOrder' \in [Drivers -> Orders \cup {None}]
          /\ truckOrder' \in [Trucks -> Orders \cup {None}]
          /\ tankOrder' \in [Tanks -> Orders \cup {None}]
      BY <3>1, ReleaseBookingsType
    <3>4. status' \in [Orders -> OrderStatus]
      BY <2>17, <3>2 DEF CompleteDelivery, Transition, OrderStatus
    <3> QED BY <2>17, <3>2, <3>3, <3>4 DEF CompleteDelivery
  <2>18. ASSUME NEW r \in Requests, NEW t \in Trucks, NEW k \in Tanks, ReassignVehicle(r, t, k)
         PROVE  TypeOK'
    <3>1. Finish(r, "reassignVehicle") /\ "reassignVehicle" \in Ops
      BY <2>18 DEF ReassignVehicle, Ops
    <3>2. req[r].order \in Orders /\ req' \in [Requests -> InFlight \cup {Idle}]
      BY <3>1, FinishType
    <3>3. /\ truckOrder' \in [Trucks -> Orders \cup {None}]
          /\ tankOrder' \in [Tanks -> Orders \cup {None}]
      BY <2>18, <3>2, ReleasedType DEF ReassignVehicle
    <3> QED BY <2>18, <3>2, <3>3 DEF ReassignVehicle
  <2>19. ASSUME NEW r \in Requests, VerifyDeparture(r)
         PROVE  TypeOK'
    <3>1. Finish(r, "verifyVehicle") /\ "verifyVehicle" \in Ops
      BY <2>19 DEF VerifyDeparture, Ops
    <3>2. /\ req[r].order \in Orders /\ req[r].truck \in Trucks \cup {None}
          /\ req' \in [Requests -> InFlight \cup {Idle}]
      BY <3>1, FinishType
    <3> QED BY <2>19, <3>2 DEF VerifyDeparture, Transition, OrderStatus
  <2>20. ASSUME NEW r \in Requests, VerifyLoading(r)
         PROVE  TypeOK'
    <3>1. Finish(r, "verifyVehicle") /\ "verifyVehicle" \in Ops
      BY <2>20 DEF VerifyLoading, Ops
    <3>2. req[r].order \in Orders /\ req' \in [Requests -> InFlight \cup {Idle}]
      BY <3>1, FinishType
    <3> QED BY <2>20, <3>2 DEF VerifyLoading
  <2> QED
    BY <2>1, <2>2, <2>3, <2>4, <2>5, <2>6, <2>7, <2>8, <2>9, <2>10, <2>11, <2>12, <2>13,
       <2>14, <2>15, <2>16, <2>17, <2>18, <2>19, <2>20 DEF Next
<1> QED BY <1>1, <1>2, PTL DEF Spec
-----------------------------------------------------------------------------
(***************************************************************************)
(* Vehicles.  BookedVehicleIsRecorded and HaulKeepsVehicle are inductive   *)
(* together: a release acts on what a snapshot named, and what saves an    *)
(* order in use is that the vehicle it names is the only one booked to it. *)
(***************************************************************************)
VehicleInv == BookedVehicleIsRecorded /\ HaulKeepsVehicle

\* A step that touches neither the bookings of vehicles nor the orders'
\* references to them, and starts no haul, keeps the invariant.
LEMMA VehicleUntouched ==
    ASSUME TypeOK, VehicleInv,
           UNCHANGED <<truckId, tankId, truckOrder, tankOrder>>,
           \A o \in Orders : status'[o] \in Hauling => status[o] \in Hauling
    PROVE  VehicleInv'
BY DEF VehicleInv, BookedVehicleIsRecorded, HaulKeepsVehicle

\* So does one that releases what a handler loaded and ends the order.
LEMMA VehicleReleased ==
    ASSUME TypeOK, VehicleInv, NEW r \in Requests, ReleaseBookings(r),
           req[r].order \in Orders, UNCHANGED <<truckId, tankId>>,
           NEW to \in Terminal, status' = [status EXCEPT ![req[r].order] = to]
    PROVE  VehicleInv'
<1> DEFINE o == req[r].order
<1>1. /\ \A t \in Trucks : truckOrder'[t] \in {truckOrder[t], None}
      /\ \A k \in Tanks : tankOrder'[k] \in {tankOrder[k], None}
  BY DEF ReleaseBookings, Released, TypeOK
<1>2. /\ \A t \in Trucks : truckOrder[t] # o => truckOrder'[t] = truckOrder[t]
      /\ \A k \in Tanks : tankOrder[k] # o => tankOrder'[k] = tankOrder[k]
  BY DEF ReleaseBookings, Released, TypeOK
<1>3. BookedVehicleIsRecorded'
  BY <1>1 DEF VehicleInv, BookedVehicleIsRecorded
<1>4. ASSUME NEW p \in Orders, status'[p] \in Hauling
      PROVE  p # o /\ status[p] \in Hauling
  BY <1>4 DEF TypeOK, Terminal, Hauling
<1>5. HaulKeepsVehicle'
  BY <1>2, <1>4, NoneAssumption DEF VehicleInv, HaulKeepsVehicle, TypeOK
<1> QED BY <1>3, <1>5 DEF VehicleInv

\* Every action keeps the vehicles' invariant.
LEMMA VehicleStep ==
    ASSUME TypeOK, VehicleInv, [Next]_vars
    PROVE  VehicleInv'
<1> USE DEF billing, assignment, verification, booking
<1>1. CASE UNCHANGED vars
  BY <1>1, VehicleUntouched DEF vars
<1>2. ASSUME NEW o \in Orders, NEW m \in PaymentMethod, Create(o, m)
      PROVE  VehicleInv'
  BY <1>2, VehicleUntouched DEF Create, Hauling, TypeOK
<1>3. ASSUME NEW o \in Orders, Approve(o) \/ Reject(o) \/ RouteUnresolved(o)
      PROVE  VehicleInv'
  BY <1>3, VehicleUntouched DEF Approve, Reject, RouteUnresolved, Transition, Hauling, TypeOK
<1>4. ASSUME NEW o \in Orders, NEW from \in {"APPROVED", "AWAITING_ROUTING"},
             NEW c \in Transporters, RouteOrder(o, from, c)
      PROVE  VehicleInv'
  BY <1>4, VehicleUntouched DEF RouteOrder, Hauling, TypeOK
<1>5. ASSUME NEW o \in Orders, AcceptFinalPrice(o) \/ ConfirmPayment(o) \/ SettleInvoice(o)
      PROVE  VehicleInv'
  BY <1>5, VehicleUntouched
     DEF AcceptFinalPrice, ConfirmPayment, SettleInvoice, Transition, Hauling, TypeOK
<1>6. ASSUME NEW o \in Orders, TimeOut(o)
      PROVE  VehicleInv'
  BY <1>6, VehicleUntouched DEF TimeOut, Transition, Hauling, TypeOK
<1>7. ASSUME NEW o \in Orders, NEW byClient \in BOOLEAN, Redispatch(o, byClient)
      PROVE  VehicleInv'
  BY <1>7, VehicleUntouched DEF Redispatch, Transition, Hauling, TypeOK
<1>8. ASSUME NEW o \in Orders, NEW d \in Drivers, NEW t \in Trucks, NEW k \in Tanks,
             AssignDriver(o, d, t, k)
      PROVE  VehicleInv'
  <2>1. /\ truckOrder[t] = None /\ \A y \in Trucks : truckOrder[y] # o
        /\ tankOrder[k] = None /\ \A y \in Tanks : tankOrder[y] # o
    BY <1>8 DEF AssignDriver, Bookable, TypeOK
  <2>2. /\ truckOrder' = [truckOrder EXCEPT ![t] = o] /\ truckId' = [truckId EXCEPT ![o] = t]
        /\ tankOrder' = [tankOrder EXCEPT ![k] = o] /\ tankId' = [tankId EXCEPT ![o] = k]
        /\ status' = [status EXCEPT ![o] = "ASSIGNED_TO_DRIVER"]
    BY <1>8 DEF AssignDriver, Transition
  <2>3. BookedVehicleIsRecorded'
    BY <2>1, <2>2 DEF VehicleInv, BookedVehicleIsRecorded, TypeOK
  <2>4. HaulKeepsVehicle'
    BY <2>1, <2>2, NoneAssumption DEF VehicleInv, HaulKeepsVehicle, TypeOK
  <2> QED BY <2>3, <2>4 DEF VehicleInv
<1>9. ASSUME NEW o \in Orders, ConfirmLoading(o) \/ OverrideVerification(o) \/ VerifyArrival(o)
      PROVE  VehicleInv'
  BY <1>9, VehicleUntouched
     DEF ConfirmLoading, OverrideVerification, VerifyArrival, Transition, Hauling, TypeOK
<1>10. ASSUME NEW d \in Drivers, Deactivate(d) \/ Activate(d)
       PROVE  VehicleInv'
  BY <1>10, VehicleUntouched DEF Deactivate, Activate
<1>11. ASSUME NEW r \in Requests, (\E op \in Ops, o \in Orders : Load(r, op, o)) \/ Abort(r)
       PROVE  VehicleInv'
  BY <1>11, VehicleUntouched DEF Load, Abort
<1>12. ASSUME NEW r \in Requests, Cancel(r)
       PROVE  VehicleInv'
  <2>1. req[r].order \in Orders
    BY <1>12, FinishType DEF Cancel, Ops
  <2> QED BY <1>12, <2>1, VehicleReleased DEF Cancel, Transition, Terminal
<1>13. ASSUME NEW r \in Requests, ForceComplete(r)
       PROVE  VehicleInv'
  <2>1. req[r].order \in Orders
    BY <1>13, FinishType DEF ForceComplete, Ops
  <2> QED BY <1>13, <2>1, VehicleReleased DEF ForceComplete, Transition, Terminal
<1>14. ASSUME NEW r \in Requests, CompleteDelivery(r)
       PROVE  VehicleInv'
  <2>1. req[r].order \in Orders
    BY <1>14, FinishType DEF CompleteDelivery, Ops
  <2> QED BY <1>14, <2>1, VehicleReleased DEF CompleteDelivery, Transition, Terminal
<1>15. ASSUME NEW r \in Requests, NEW t \in Trucks, NEW k \in Tanks, ReassignVehicle(r, t, k)
       PROVE  VehicleInv'
  <2> DEFINE o == req[r].order
             freeTrucks == Released(truckOrder, req[r].truck, o)
             freeTanks == Released(tankOrder, req[r].tank, o)
  <2>1. o \in Orders
    BY <1>15, FinishType DEF ReassignVehicle, Ops
  <2>2. /\ \A y \in Trucks : freeTrucks[y] # o
        /\ \A y \in Trucks : truckOrder[y] # o => freeTrucks[y] = truckOrder[y]
        /\ \A y \in Trucks : freeTrucks[y] \in {truckOrder[y], None}
        /\ freeTrucks[t] = None
    BY <1>15 DEF ReassignVehicle, Bookable, Released, TypeOK
  <2>3. /\ \A y \in Tanks : freeTanks[y] # o
        /\ \A y \in Tanks : tankOrder[y] # o => freeTanks[y] = tankOrder[y]
        /\ \A y \in Tanks : freeTanks[y] \in {tankOrder[y], None}
        /\ freeTanks[k] = None
    BY <1>15 DEF ReassignVehicle, Bookable, Released, TypeOK
  <2>4. /\ truckOrder' = [freeTrucks EXCEPT ![t] = o] /\ truckId' = [truckId EXCEPT ![o] = t]
        /\ tankOrder' = [freeTanks EXCEPT ![k] = o] /\ tankId' = [tankId EXCEPT ![o] = k]
        /\ status' = status
    BY <1>15 DEF ReassignVehicle
  <2>5. /\ freeTrucks \in [Trucks -> Orders \cup {None}]
        /\ freeTanks \in [Tanks -> Orders \cup {None}]
    BY ReleasedType DEF TypeOK
  <2> HIDE DEF o, freeTrucks, freeTanks
  <2>6. BookedVehicleIsRecorded'
    BY <2>1, <2>2, <2>3, <2>4, <2>5 DEF VehicleInv, BookedVehicleIsRecorded, TypeOK
  <2>7. HaulKeepsVehicle'
    BY <2>1, <2>2, <2>3, <2>4, <2>5, NoneAssumption DEF VehicleInv, HaulKeepsVehicle, TypeOK
  <2> QED BY <2>6, <2>7 DEF VehicleInv
<1>16. ASSUME NEW r \in Requests, VerifyDeparture(r)
       PROVE  VehicleInv'
  <2>1. req[r].order \in Orders
    BY <1>16, FinishType DEF VerifyDeparture, Ops
  <2> QED BY <1>16, <2>1, VehicleUntouched DEF VerifyDeparture, Transition, Hauling, TypeOK
<1>17. ASSUME NEW r \in Requests, VerifyLoading(r)
       PROVE  VehicleInv'
  BY <1>17, VehicleUntouched DEF VerifyLoading
<1> QED
  BY <1>1, <1>2, <1>3, <1>4, <1>5, <1>6, <1>7, <1>8, <1>9, <1>10, <1>11, <1>12, <1>13, <1>14,
     <1>15, <1>16, <1>17 DEF Next

\* The vehicles' invariant holds throughout.
LEMMA VehicleInvariant == Spec => []VehicleInv
<1>1. Init => VehicleInv
  BY DEF Init, VehicleInv, BookedVehicleIsRecorded, HaulKeepsVehicle, Hauling
<1> QED BY <1>1, TypeCorrect, VehicleStep, PTL DEF Spec

\* No interleaving of dispatch, reassignment, cancellation and completion, by
\* however many handlers, frees the truck or tank of an order being hauled.
THEOREM VehicleStaysBooked == Spec => []HaulKeepsVehicle
BY VehicleInvariant, PTL DEF VehicleInv

\* The order a vehicle is booked to names that vehicle: no order holds two.
THEOREM VehicleBookedOnce == Spec => []BookedVehicleIsRecorded
BY VehicleInvariant, PTL DEF VehicleInv
-----------------------------------------------------------------------------
(***************************************************************************)
(* Drivers.  A handler releases the driver of the order as it loaded it.   *)
(* That this is the right driver when the handler commits is what makes    *)
(* BusyDriverHauls inductive: once an order has been seen hauled it is     *)
(* hauled or over ever after, and its driver is never replaced.            *)
(***************************************************************************)
SnapshotOfHaul ==
    \A r \in Requests :
        req[r] # Idle /\ req[r].status \in Hauling =>
            /\ status[req[r].order] \in Hauling \cup Terminal
            /\ req[r].driver = driverId[req[r].order]

DeliveryUnloads ==
    \A r \in Requests : req[r].op = "verifyDelivery" => req[r].status = "UNLOADING"

DriverInv == BusyDriverHauls /\ SnapshotOfHaul /\ DeliveryUnloads

\* Only these statuses can be cancelled or force-completed: whatever status a
\* stale handler carries, transition() takes no other edge.
LEMMA EndingEdges ==
    ASSUME NEW from
    PROVE  /\ Permitted(from, "CANCELLED", FALSE) => from \in Cancellable
           /\ Permitted(from, "DELIVERED", TRUE) => from \in ForceCompletable
BY DEF Permitted, PlainTransitions, OverrideTransitions, Cancellable, ForceCompletable

\* A step that touches neither drivers nor handlers, and does not take an
\* order out of its haul or back into the stages before it, keeps the
\* invariant.
LEMMA DriverUntouched ==
    ASSUME TypeOK, DriverInv, UNCHANGED <<driverId, driverOrder, req>>,
           \A o \in Orders :
               /\ status[o] \in Hauling => status'[o] \in Hauling
               /\ status[o] \in Terminal => status'[o] \in Terminal
    PROVE  DriverInv'
<1>1. BusyDriverHauls'
  BY DEF DriverInv, BusyDriverHauls, TypeOK
<1>2. SnapshotOfHaul'
  BY DEF DriverInv, SnapshotOfHaul, TypeOK, InFlight
<1>3. DeliveryUnloads'
  BY DEF DriverInv, DeliveryUnloads
<1> QED BY <1>1, <1>2, <1>3 DEF DriverInv

\* So does the end of a handler that touches no driver.
LEMMA DriverHandlerEnds ==
    ASSUME TypeOK, DriverInv, UNCHANGED <<driverId, driverOrder>>,
           NEW r \in Requests, req' = [req EXCEPT ![r] = Idle],
           \A o \in Orders :
               /\ status[o] \in Hauling => status'[o] \in Hauling
               /\ status[o] \in Terminal => status'[o] \in Terminal
    PROVE  DriverInv'
<1>1. BusyDriverHauls'
  BY DEF DriverInv, BusyDriverHauls, TypeOK
<1>2. SnapshotOfHaul'
  BY DEF DriverInv, SnapshotOfHaul, TypeOK, InFlight
<1>3. DeliveryUnloads'
  BY DEF DriverInv, DeliveryUnloads, TypeOK, Idle
<1> QED BY <1>1, <1>2, <1>3 DEF DriverInv

\* And so does the end of an order by a handler that, if the order was being
\* hauled, had seen it so.
LEMMA DriverReleased ==
    ASSUME TypeOK, DriverInv, NEW r \in Requests, req[r] \in InFlight, req[r] # Idle,
           ReleaseBookings(r), UNCHANGED driverId, req' = [req EXCEPT ![r] = Idle],
           status[req[r].order] \in Hauling => req[r].status \in Hauling,
           NEW to \in Terminal, status' = [status EXCEPT ![req[r].order] = to]
    PROVE  DriverInv'
<1> DEFINE o == req[r].order
<1>1. o \in Orders
  BY DEF InFlight
<1>2. ASSUME NEW d \in Drivers, driverOrder[d] = o
      PROVE  driverOrder'[d] = None
  <2>1. driverId[o] = d /\ status[o] \in Hauling
    BY <1>1, <1>2, NoneAssumption DEF DriverInv, BusyDriverHauls
  <2>2. req[r].driver = d
    BY <2>1 DEF DriverInv, SnapshotOfHaul
  <2> QED BY <1>2, <2>2 DEF ReleaseBookings, Released, TypeOK
<1>3. \A d \in Drivers : driverOrder[d] # o => driverOrder'[d] = driverOrder[d]
  BY DEF ReleaseBookings, Released, TypeOK
<1>4. BusyDriverHauls'
  <2> SUFFICES ASSUME NEW d \in Drivers, driverOrder'[d] # None
               PROVE  /\ driverId[driverOrder'[d]] = d
                      /\ status'[driverOrder'[d]] \in Hauling
    BY DEF BusyDriverHauls
  <2>1. driverOrder[d] # o /\ driverOrder'[d] = driverOrder[d]
    BY <1>2, <1>3
  <2> QED BY <2>1 DEF DriverInv, BusyDriverHauls, TypeOK
<1>5. SnapshotOfHaul'
  <2> SUFFICES ASSUME NEW q \in Requests, req'[q] # Idle, req'[q].status \in Hauling
               PROVE  /\ status'[req'[q].order] \in Hauling \cup Terminal
                      /\ req'[q].driver = driverId[req'[q].order]
    BY DEF SnapshotOfHaul
  <2>1. req'[q] = req[q] /\ req[q].order \in Orders
    BY DEF TypeOK, InFlight
  <2> QED BY <2>1, <1>1 DEF DriverInv, SnapshotOfHaul, TypeOK
<1>6. DeliveryUnloads'
  BY DEF DriverInv, DeliveryUnloads, TypeOK, Idle
<1> QED BY <1>4, <1>5, <1>6 DEF DriverInv

\* Every action keeps the drivers' invariant.
LEMMA DriverStep ==
    ASSUME TypeOK, DriverInv, [Next]_vars
    PROVE  DriverInv'
<1> USE DEF billing, assignment, verification, booking
<1>1. CASE UNCHANGED vars
  BY <1>1, DriverUntouched DEF vars
<1>2. ASSUME NEW o \in Orders, NEW m \in PaymentMethod, Create(o, m)
      PROVE  DriverInv'
  BY <1>2, DriverUntouched DEF Create, Hauling, Terminal, TypeOK
<1>3. ASSUME NEW o \in Orders, Approve(o) \/ Reject(o) \/ RouteUnresolved(o)
      PROVE  DriverInv'
  BY <1>3, DriverUntouched
     DEF Approve, Reject, RouteUnresolved, Transition, Hauling, Terminal, TypeOK
<1>4. ASSUME NEW o \in Orders, NEW from \in {"APPROVED", "AWAITING_ROUTING"},
             NEW c \in Transporters, RouteOrder(o, from, c)
      PROVE  DriverInv'
  BY <1>4, DriverUntouched DEF RouteOrder, Hauling, Terminal, TypeOK
<1>5. ASSUME NEW o \in Orders, AcceptFinalPrice(o) \/ ConfirmPayment(o) \/ SettleInvoice(o)
      PROVE  DriverInv'
  BY <1>5, DriverUntouched
     DEF AcceptFinalPrice, ConfirmPayment, SettleInvoice, Transition, Hauling, Terminal, TypeOK
<1>6. ASSUME NEW o \in Orders, TimeOut(o)
      PROVE  DriverInv'
  <2>1. status[o] = "PENDING_PAYMENT" /\ status' = [status EXCEPT ![o] = "APPROVED"]
    BY <1>6 DEF TimeOut, Transition
  <2>2. \A d \in Drivers : driverOrder[d] # o
    BY <2>1, NoneAssumption DEF DriverInv, BusyDriverHauls, Hauling, TypeOK
  <2>3. driverOrder' = driverOrder /\ driverId' = [driverId EXCEPT ![o] = None] /\ req' = req
    BY <1>6, <2>2 DEF TimeOut, Released, TypeOK
  <2>4. BusyDriverHauls'
    BY <2>1, <2>2, <2>3 DEF DriverInv, BusyDriverHauls, TypeOK
  <2>5. SnapshotOfHaul'
    BY <2>1, <2>3 DEF DriverInv, SnapshotOfHaul, TypeOK, InFlight, Hauling, Terminal
  <2>6. DeliveryUnloads'
    BY <2>3 DEF DriverInv, DeliveryUnloads
  <2> QED BY <2>4, <2>5, <2>6 DEF DriverInv
<1>7. ASSUME NEW o \in Orders, NEW byClient \in BOOLEAN, Redispatch(o, byClient)
      PROVE  DriverInv'
  BY <1>7, DriverUntouched DEF Redispatch, Transition, Hauling, Terminal, TypeOK
<1>8. ASSUME NEW o \in Orders, NEW d \in Drivers, NEW t \in Trucks, NEW k \in Tanks,
             AssignDriver(o, d, t, k)
      PROVE  DriverInv'
  <2>1. /\ driverOrder[d] = None /\ \A y \in Drivers : driverOrder[y] # o
        /\ driverOrder' = [driverOrder EXCEPT ![d] = o]
        /\ driverId' = [driverId EXCEPT ![o] = d]
        /\ status[o] = "ROUTED_TO_TRANSPORT"
        /\ status' = [status EXCEPT ![o] = "ASSIGNED_TO_DRIVER"]
        /\ req' = req
    BY <1>8 DEF AssignDriver, Bookable, Transition, TypeOK
  <2>2. BusyDriverHauls'
    BY <2>1 DEF DriverInv, BusyDriverHauls, TypeOK, Hauling
  <2>3. SnapshotOfHaul'
    BY <2>1 DEF DriverInv, SnapshotOfHaul, TypeOK, InFlight, Hauling, Terminal
  <2>4. DeliveryUnloads'
    BY <2>1 DEF DriverInv, DeliveryUnloads
  <2> QED BY <2>2, <2>3, <2>4 DEF DriverInv
<1>9. ASSUME NEW o \in Orders, ConfirmLoading(o) \/ OverrideVerification(o) \/ VerifyArrival(o)
      PROVE  DriverInv'
  BY <1>9, DriverUntouched
     DEF ConfirmLoading, OverrideVerification, VerifyArrival, Transition, Hauling, Terminal, TypeOK
<1>10. ASSUME NEW d \in Drivers, Deactivate(d)
       PROVE  DriverInv'
  <2>1. /\ driverOrder' = [driverOrder EXCEPT ![d] = None]
        /\ UNCHANGED <<status, driverId, req>>
    BY <1>10 DEF Deactivate
  <2>2. BusyDriverHauls'
    BY <2>1 DEF DriverInv, BusyDriverHauls, TypeOK
  <2> QED BY <2>1, <2>2 DEF DriverInv, SnapshotOfHaul, DeliveryUnloads
<1>11. ASSUME NEW d \in Drivers, Activate(d)
       PROVE  DriverInv'
  BY <1>11, DriverUntouched DEF Activate
<1>12. ASSUME NEW r \in Requests, NEW op \in Ops, NEW o \in Orders, Load(r, op, o)
       PROVE  DriverInv'
  <2>1. /\ req' = [req EXCEPT ![r] =
                 [op |-> op, order |-> o, status |-> status[o],
                  driver |-> driverId[o], truck |-> truckId[o], tank |-> tankId[o],
                  invoiced |-> invoice[o] # "NONE"]]
        /\ UNCHANGED <<status, driverId, driverOrder>>
        /\ op = "verifyDelivery" => status[o] = "UNLOADING"
    BY <1>12 DEF Load, Admitted
  <2>2. BusyDriverHauls'
    BY <2>1 DEF DriverInv, BusyDriverHauls
  <2>3. SnapshotOfHaul'
    BY <2>1 DEF DriverInv, SnapshotOfHaul, TypeOK
  <2>4. DeliveryUnloads'
    BY <2>1 DEF DriverInv, DeliveryUnloads, TypeOK
  <2> QED BY <2>2, <2>3, <2>4 DEF DriverInv
<1>13. ASSUME NEW r \in Requests, Abort(r)
       PROVE  DriverInv'
  BY <1>13, DriverHandlerEnds DEF Abort
<1>14. ASSUME NEW r \in Requests, Cancel(r)
       PROVE  DriverInv'
  <2>1. req[r] \in InFlight /\ req[r] # Idle /\ req' = [req EXCEPT ![r] = Idle]
    BY <1>14, FinishType DEF Cancel, Ops, Idle
  <2>2. /\ status[req[r].order] = req[r].status
        /\ status' = [status EXCEPT ![req[r].order] = "CANCELLED"]
        /\ ReleaseBookings(r) /\ UNCHANGED driverId
    BY <1>14 DEF Cancel, Transition
  <2> QED BY <2>1, <2>2, DriverReleased DEF Terminal
<1>15. ASSUME NEW r \in Requests, ForceComplete(r)
       PROVE  DriverInv'
  <2>1. req[r] \in InFlight /\ req[r] # Idle /\ req' = [req EXCEPT ![r] = Idle]
    BY <1>15, FinishType DEF ForceComplete, Ops, Idle
  <2>2. /\ status[req[r].order] = req[r].status
        /\ status' = [status EXCEPT ![req[r].order] = "DELIVERED"]
        /\ ReleaseBookings(r) /\ UNCHANGED driverId
    BY <1>15 DEF ForceComplete, Transition
  <2> QED BY <2>1, <2>2, DriverReleased DEF Terminal
<1>16. ASSUME NEW r \in Requests, CompleteDelivery(r)
       PROVE  DriverInv'
  <2>1. req[r] \in InFlight /\ req[r] # Idle /\ req' = [req EXCEPT ![r] = Idle]
    BY <1>16, FinishType DEF CompleteDelivery, Ops, Idle
  <2>2. req[r].status \in Hauling
    BY <1>16 DEF CompleteDelivery, Finish, DriverInv, DeliveryUnloads, Hauling
  <2>3. /\ status' = [status EXCEPT ![req[r].order] = "DELIVERED"]
        /\ ReleaseBookings(r) /\ UNCHANGED driverId
    BY <1>16 DEF CompleteDelivery, Transition
  <2> QED BY <2>1, <2>2, <2>3, DriverReleased DEF Terminal
<1>17. ASSUME NEW r \in Requests, NEW t \in Trucks, NEW k \in Tanks, ReassignVehicle(r, t, k)
       PROVE  DriverInv'
  BY <1>17, DriverHandlerEnds DEF ReassignVehicle, Finish
<1>18. ASSUME NEW r \in Requests, VerifyDeparture(r)
       PROVE  DriverInv'
  <2>1. req[r].order \in Orders
    BY <1>18, FinishType DEF VerifyDeparture, Ops
  <2> QED
    BY <1>18, <2>1, DriverHandlerEnds
       DEF VerifyDeparture, Finish, Transition, Hauling, Terminal, TypeOK
<1>19. ASSUME NEW r \in Requests, VerifyLoading(r)
       PROVE  DriverInv'
  BY <1>19, DriverHandlerEnds DEF VerifyLoading, Finish
<1> QED
  BY <1>1, <1>2, <1>3, <1>4, <1>5, <1>6, <1>7, <1>8, <1>9, <1>10, <1>11, <1>12, <1>13, <1>14,
     <1>15, <1>16, <1>17, <1>18, <1>19 DEF Next

\* No cancellation, completion, timeout or deactivation, whatever it had
\* loaded, leaves a driver marked busy for an order he does not haul.
THEOREM BusyDriversHaul == Spec => []BusyDriverHauls
<1>1. Init => DriverInv
  BY DEF Init, DriverInv, BusyDriverHauls, SnapshotOfHaul, DeliveryUnloads, Idle
<1>2. Spec => []DriverInv
  BY <1>1, TypeCorrect, DriverStep, PTL DEF Spec
<1> QED BY <1>2, PTL DEF DriverInv

-----------------------------------------------------------------------------
(* The money side: what is hauled is billed, a settled or void invoice is  *)
(* final, and the handlers together implement OrderContract.               *)

(***************************************************************************)
(* HaulIsBilled is not inductive: that a hauled order has a bill rests on  *)
(* its having been routed to a company, and that a DIRECT order's bill is  *)
(* settled on what had to happen before it could wait for a driver.        *)
(***************************************************************************)
RoutedHasBill == \A o \in Orders : transportCompanyId[o] # None => invoice[o] # "NONE"
VoidIsCancelled == \A o \in Orders : invoice[o] = "VOID" => status[o] = "CANCELLED"
HauledHasBill == \A o \in Orders : status[o] \in Hauling => invoice[o] # "NONE"
DirectIsPaid ==
    \A o \in Orders :
        /\ status[o] \in Hauling \cup {"ROUTED_TO_TRANSPORT"}
        /\ paymentMethod[o] = "DIRECT"
        => invoice[o] = "SETTLED"

BillingInv == RoutedHasBill /\ VoidIsCancelled /\ HauledHasBill /\ DirectIsPaid

\* A step that moves no bill, company or method, starts no haul, sends
\* nothing to dispatch and does not revive a cancelled order keeps it.
LEMMA BillingUntouched ==
    ASSUME TypeOK, BillingInv,
           UNCHANGED <<paymentMethod, transportCompanyId, invoice>>,
           \A o \in Orders :
               /\ status'[o] \in Hauling => status[o] \in Hauling
               /\ status'[o] = "ROUTED_TO_TRANSPORT" => status[o] = "ROUTED_TO_TRANSPORT"
               /\ status[o] = "CANCELLED" => status'[o] = "CANCELLED"
    PROVE  BillingInv'
BY DEF BillingInv, RoutedHasBill, VoidIsCancelled, HauledHasBill, DirectIsPaid

\* Every action keeps the billing invariant.
LEMMA BillingStep ==
    ASSUME TypeOK, BillingInv, [Next]_vars
    PROVE  BillingInv'
<1> USE DEF billing, assignment, verification, booking
<1>1. CASE UNCHANGED vars
  BY <1>1, BillingUntouched DEF vars
<1>2. ASSUME NEW o \in Orders, NEW m \in PaymentMethod, Create(o, m)
      PROVE  BillingInv'
  BY <1>2 DEF Create, Hauling, TypeOK, BillingInv, RoutedHasBill, VoidIsCancelled,
              HauledHasBill, DirectIsPaid
<1>3. ASSUME NEW o \in Orders, Approve(o) \/ Reject(o) \/ RouteUnresolved(o)
      PROVE  BillingInv'
  BY <1>3, BillingUntouched DEF Approve, Reject, RouteUnresolved, Transition, Hauling, TypeOK
<1>4. ASSUME NEW o \in Orders, NEW from \in {"APPROVED", "AWAITING_ROUTING"},
             NEW c \in Transporters, RouteOrder(o, from, c)
      PROVE  BillingInv'
  BY <1>4 DEF RouteOrder, Hauling, TypeOK, BillingInv, RoutedHasBill, VoidIsCancelled,
              HauledHasBill, DirectIsPaid
<1>5. ASSUME NEW o \in Orders, AcceptFinalPrice(o)
      PROVE  BillingInv'
  BY <1>5 DEF AcceptFinalPrice, Transition, Hauling, TypeOK, BillingInv, RoutedHasBill,
              VoidIsCancelled, HauledHasBill, DirectIsPaid
<1>6. ASSUME NEW o \in Orders, ConfirmPayment(o)
      PROVE  BillingInv'
  <2>1. status[o] = "PENDING_PAYMENT" /\ invoice[o] \in {"ISSUED", "SETTLED"}
    BY <1>6 DEF ConfirmPayment, Transition, TypeOK, InvoiceState, BillingInv, VoidIsCancelled
  <2>2. invoice' = [invoice EXCEPT ![o] = "SETTLED"]
    BY <1>6, <2>1 DEF ConfirmPayment, Settled
  <2> QED
    BY <1>6, <2>1, <2>2 DEF ConfirmPayment, Transition, Hauling, TypeOK, BillingInv,
       RoutedHasBill, VoidIsCancelled, HauledHasBill, DirectIsPaid
<1>7. ASSUME NEW o \in Orders, SettleInvoice(o)
      PROVE  BillingInv'
  BY <1>7 DEF SettleInvoice, Settled, TypeOK, BillingInv, RoutedHasBill, VoidIsCancelled,
              HauledHasBill, DirectIsPaid
<1>8. ASSUME NEW o \in Orders, TimeOut(o)
      PROVE  BillingInv'
  BY <1>8, BillingUntouched DEF TimeOut, Transition, Hauling, TypeOK
<1>9. ASSUME NEW o \in Orders, NEW byClient \in BOOLEAN, Redispatch(o, byClient)
      PROVE  BillingInv'
  BY <1>9, BillingUntouched DEF Redispatch, Transition, Hauling, TypeOK
<1>10. ASSUME NEW o \in Orders, NEW d \in Drivers, NEW t \in Trucks, NEW k \in Tanks,
              AssignDriver(o, d, t, k)
       PROVE  BillingInv'
  BY <1>10 DEF AssignDriver, Transition, Hauling, TypeOK, BillingInv, RoutedHasBill,
               VoidIsCancelled, HauledHasBill, DirectIsPaid
<1>11. ASSUME NEW o \in Orders, ConfirmLoading(o) \/ OverrideVerification(o) \/ VerifyArrival(o)
       PROVE  BillingInv'
  BY <1>11, BillingUntouched
     DEF ConfirmLoading, OverrideVerification, VerifyArrival, Transition, Hauling, TypeOK
<1>12. ASSUME NEW d \in Drivers, Deactivate(d) \/ Activate(d)
       PROVE  BillingInv'
  BY <1>12, BillingUntouched DEF Deactivate, Activate
<1>13. ASSUME NEW r \in Requests, (\E op \in Ops, o \in Orders : Load(r, op, o)) \/ Abort(r)
       PROVE  BillingInv'
  BY <1>13, BillingUntouched DEF Load, Abort
<1>14. ASSUME NEW r \in Requests, Cancel(r)
       PROVE  BillingInv'
  <2> DEFINE o == req[r].order
  <2>1. o \in Orders
    BY <1>14, FinishType DEF Cancel, Ops
  <2>2. /\ status' = [status EXCEPT ![o] = "CANCELLED"]
        /\ invoice' = invoice \/ invoice' = [invoice EXCEPT ![o] = Voided(@)]
        /\ UNCHANGED <<paymentMethod, transportCompanyId>>
    BY <1>14 DEF Cancel, Transition
  <2> HIDE DEF o
  <2> QED
    BY <2>1, <2>2 DEF Voided, Hauling, TypeOK, BillingInv, RoutedHasBill, VoidIsCancelled,
                      HauledHasBill, DirectIsPaid
<1>15. ASSUME NEW r \in Requests, ForceComplete(r)
       PROVE  BillingInv'
  <2>1. req[r].order \in Orders
    BY <1>15, FinishType DEF ForceComplete, Ops
  <2>2. status[req[r].order] \in ForceCompletable
    BY <1>15, EndingEdges DEF ForceComplete, Transition
  <2> QED
    BY <1>15, <2>1, <2>2, BillingUntouched
       DEF ForceComplete, Transition, ForceCompletable, Hauling, TypeOK
<1>16. ASSUME NEW r \in Requests, CompleteDelivery(r)
       PROVE  BillingInv'
  <2>1. req[r].order \in Orders
    BY <1>16, FinishType DEF CompleteDelivery, Ops
  <2> QED
    BY <1>16, <2>1, BillingUntouched DEF CompleteDelivery, Transition, Hauling, TypeOK
<1>17. ASSUME NEW r \in Requests, NEW t \in Trucks, NEW k \in Tanks, ReassignVehicle(r, t, k)
       PROVE  BillingInv'
  BY <1>17, BillingUntouched DEF ReassignVehicle
<1>18. ASSUME NEW r \in Requests, VerifyDeparture(r)
       PROVE  BillingInv'
  <2>1. req[r].order \in Orders
    BY <1>18, FinishType DEF VerifyDeparture, Ops
  <2> QED
    BY <1>18, <2>1, BillingUntouched DEF VerifyDeparture, Transition, Hauling, TypeOK
<1>19. ASSUME NEW r \in Requests, VerifyLoading(r)
       PROVE  BillingInv'
  BY <1>19, BillingUntouched DEF VerifyLoading
<1> QED
  BY <1>1, <1>2, <1>3, <1>4, <1>5, <1>6, <1>7, <1>8, <1>9, <1>10, <1>11, <1>12, <1>13, <1>14,
     <1>15, <1>16, <1>17, <1>18, <1>19 DEF Next

\* The billing invariant holds throughout.
LEMMA BillingInvariant == Spec => []BillingInv
<1>1. Init => BillingInv
  BY DEF Init, BillingInv, RoutedHasBill, VoidIsCancelled, HauledHasBill, DirectIsPaid, Hauling
<1> QED BY <1>1, TypeCorrect, BillingStep, PTL DEF Spec

\* No order is hauled without a live bill, nor a DIRECT one before it is paid,
\* however routing, redispatch, acceptance, payment and cancellation
\* interleave.
THEOREM HaulsAreBilled == Spec => []HaulIsBilled
<1>1. TypeOK /\ BillingInv => HaulIsBilled
  BY DEF TypeOK, InvoiceState, Hauling, BillingInv, VoidIsCancelled, HauledHasBill,
         DirectIsPaid, HaulIsBilled
<1> QED BY <1>1, TypeCorrect, BillingInvariant, PTL

\* A step of any handler leaves a settled or void invoice alone.
LEMMA InvoiceStep ==
    ASSUME TypeOK, [Next]_vars
    PROVE  \A o \in Orders : invoice[o] \in {"SETTLED", "VOID"} => invoice'[o] = invoice[o]
<1> USE DEF billing
<1>1. CASE UNCHANGED invoice
  BY <1>1
<1>2. ASSUME NEW o \in Orders, NEW from \in {"APPROVED", "AWAITING_ROUTING"},
             NEW c \in Transporters, RouteOrder(o, from, c)
      PROVE  \A p \in Orders : invoice[p] \in {"SETTLED", "VOID"} => invoice'[p] = invoice[p]
  BY <1>2 DEF RouteOrder, TypeOK
<1>3. ASSUME NEW o \in Orders, ConfirmPayment(o) \/ SettleInvoice(o)
      PROVE  \A p \in Orders : invoice[p] \in {"SETTLED", "VOID"} => invoice'[p] = invoice[p]
  BY <1>3 DEF ConfirmPayment, SettleInvoice, Settled, TypeOK
<1>4. ASSUME NEW r \in Requests, Cancel(r)
      PROVE  \A p \in Orders : invoice[p] \in {"SETTLED", "VOID"} => invoice'[p] = invoice[p]
  <2>1. /\ req[r].order \in Orders
        /\ \/ UNCHANGED invoice
           \/ invoice' = [invoice EXCEPT ![req[r].order] = Voided(@)]
    BY <1>4, FinishType DEF Cancel, Ops
  <2> QED BY <2>1 DEF Voided, TypeOK
<1>5. ASSUME NEW o \in Orders,
             \/ \E m \in PaymentMethod : Create(o, m)
             \/ Approve(o) \/ Reject(o) \/ RouteUnresolved(o)
             \/ AcceptFinalPrice(o) \/ TimeOut(o)
             \/ \E byClient \in BOOLEAN : Redispatch(o, byClient)
             \/ \E d \in Drivers, t \in Trucks, k \in Tanks : AssignDriver(o, d, t, k)
             \/ ConfirmLoading(o) \/ OverrideVerification(o) \/ VerifyArrival(o)
      PROVE  UNCHANGED invoice
  BY <1>5 DEF Create, Approve, Reject, RouteUnresolved, AcceptFinalPrice, TimeOut, Redispatch,
              AssignDriver, ConfirmLoading, OverrideVerification, VerifyArrival
<1>6. ASSUME NEW d \in Drivers, Deactivate(d) \/ Activate(d)
      PROVE  UNCHANGED invoice
  BY <1>6 DEF Deactivate, Activate
<1>7. ASSUME NEW r \in Requests,
             \/ \E op \in Ops, o \in Orders : Load(r, op, o)
             \/ Abort(r) \/ ForceComplete(r) \/ CompleteDelivery(r)
             \/ \E t \in Trucks, k \in Tanks : ReassignVehicle(r, t, k)
             \/ VerifyDeparture(r) \/ VerifyLoading(r)
      PROVE  UNCHANGED invoice
  BY <1>7 DEF Load, Abort, ForceComplete, CompleteDelivery, ReassignVehicle, VerifyDeparture,
              VerifyLoading
<1>8. CASE UNCHANGED vars
  BY <1>1, <1>8 DEF vars
<1> QED BY <1>1, <1>2, <1>3, <1>4, <1>5, <1>6, <1>7, <1>8 DEF Next

\* A late cancellation never voids a paid bill, a late payment never settles a
\* voided one.
THEOREM InvoicesAreFinal == Spec => InvoiceIsFinal
<1>1. TypeOK /\ [Next]_vars
        => [\A o \in Orders : invoice[o] \in {"SETTLED", "VOID"} => invoice'[o] = invoice[o]]_vars
  BY InvoiceStep
<1> QED BY <1>1, TypeCorrect, PTL DEF Spec, InvoiceIsFinal
-----------------------------------------------------------------------------
(***************************************************************************)
(* Refinement.  Every handler is one step of the contract or no step of    *)
(* it; only the start of a haul and the receipt of a payment need the      *)
(* billing invariant.                                                      *)
(***************************************************************************)
stageOf == [o \in Orders |-> StageOf(status[o])]

\* The stage of each status.
LEMMA Stages ==
    /\ StageOf("ABSENT") = "absent" /\ StageOf("PENDING_APPROVAL") = "review"
    /\ StageOf("APPROVED") = "pricing" /\ StageOf("AWAITING_ROUTING") = "pricing"
    /\ StageOf("PENDING_PAYMENT") = "settlement" /\ StageOf("ROUTED_TO_TRANSPORT") = "dispatch"
    /\ StageOf("ASSIGNED_TO_DRIVER") = "depot" /\ StageOf("LOADING") = "depot"
    /\ StageOf("IN_TRANSIT") = "road" /\ StageOf("UNLOADING") = "road"
    /\ StageOf("DELIVERED") = "delivered"
    /\ StageOf("REJECTED") = "closed" /\ StageOf("CANCELLED") = "closed"
BY DEF StageOf

\* A change of one order's status is a move of that order between stages.
LEMMA StageMove ==
    ASSUME TypeOK, NEW o \in Orders, NEW to \in OrderStatus, status' = [status EXCEPT ![o] = to]
    PROVE  /\ stageOf[o] = StageOf(status[o])
           /\ stageOf' = [stageOf EXCEPT ![o] = StageOf(to)]
<1>1. \A p \in Orders : status'[p] = IF p = o THEN to ELSE status[p]
  BY DEF TypeOK
<1>2. ASSUME NEW p \in Orders
      PROVE  StageOf(status[p])' = IF p = o THEN StageOf(to) ELSE StageOf(status[p])
  <2>1. CASE p = o
    BY <1>1, <2>1 DEF StageOf
  <2>2. CASE p # o
    BY <1>1, <2>2 DEF StageOf
  <2> QED BY <2>1, <2>2
<1> QED BY <1>2 DEF stageOf

\* The same, as the contract says it.
LEMMA ContractMove ==
    ASSUME TypeOK, NEW o \in Orders, NEW to \in OrderStatus,
           status' = [status EXCEPT ![o] = to]
    PROVE  Contract!Move(o, StageOf(status[o]), StageOf(to))
BY StageMove DEF stageOf, Contract!Move

\* A step that leaves bills and methods alone and moves no order to another
\* stage is no step of the contract.
LEMMA ContractStutter ==
    ASSUME TypeOK, UNCHANGED <<invoice, paymentMethod>>, NEW o \in Orders, NEW to \in OrderStatus,
           status' = [status EXCEPT ![o] = to], StageOf(to) = StageOf(status[o])
    PROVE  UNCHANGED Contract!vars
<1>1. stageOf' = stageOf
  BY StageMove DEF stageOf
<1> QED BY <1>1 DEF stageOf, Contract!vars

\* Neither is a step that leaves the status alone as well.
LEMMA ContractIdle ==
    ASSUME UNCHANGED <<invoice, paymentMethod, status>>
    PROVE  UNCHANGED Contract!vars
BY DEF Contract!vars, StageOf

\* Every action is a step of the contract, or none.
LEMMA ContractStep ==
    ASSUME TypeOK, BillingInv, [Next]_vars
    PROVE  [Contract!Next]_(Contract!vars)
<1> USE Stages DEF billing, OrderStatus
<1>1. CASE UNCHANGED vars
  BY <1>1, ContractIdle DEF vars
<1>2. ASSUME NEW o \in Orders, NEW m \in PaymentMethod, Create(o, m)
      PROVE  Contract!Next
  <2>1. Contract!Move(o, "absent", "review")
    BY <1>2, ContractMove DEF Create
  <2>2. Contract!Place(o)
    BY <1>2, <2>1 DEF Create, Contract!Place, PaymentMethod
  <2> QED BY <2>2 DEF Contract!Next
<1>3. ASSUME NEW o \in Orders, Approve(o)
      PROVE  Contract!Next
  <2>1. Contract!Move(o, "review", "pricing")
    BY <1>3, ContractMove DEF Approve, Transition
  <2> QED BY <1>3, <2>1 DEF Approve, Contract!Admit, Contract!Next
<1>4. ASSUME NEW o \in Orders, Reject(o)
      PROVE  Contract!Next
  <2>1. Contract!Move(o, "review", "closed")
    BY <1>4, ContractMove DEF Reject, Transition
  <2>2. invoice' = [invoice EXCEPT ![o] = invoice[o]] /\ UNCHANGED paymentMethod
    BY <1>4 DEF Reject, TypeOK
  <2> QED BY <2>1, <2>2 DEF Contract!Close, Contract!Next
<1>5. ASSUME NEW o \in Orders, RouteUnresolved(o)
      PROVE  UNCHANGED Contract!vars
  BY <1>5, ContractStutter DEF RouteUnresolved, Transition
<1>6. ASSUME NEW o \in Orders, NEW from \in {"APPROVED", "AWAITING_ROUTING"},
             NEW c \in Transporters, RouteOrder(o, from, c)
      PROVE  Contract!Next
  <2>1. Contract!Move(o, "pricing", "settlement")
    BY <1>6, ContractMove DEF RouteOrder
  <2> QED BY <1>6, <2>1 DEF RouteOrder, Contract!Price, Contract!Next
<1>7. ASSUME NEW o \in Orders, AcceptFinalPrice(o)
      PROVE  Contract!Next
  <2>1. Contract!Move(o, "settlement", "dispatch")
    BY <1>7, ContractMove DEF AcceptFinalPrice, Transition
  <2> QED BY <1>7, <2>1 DEF AcceptFinalPrice, Contract!Accept, Contract!Next
<1>8. ASSUME NEW o \in Orders, ConfirmPayment(o)
      PROVE  Contract!Next
  <2>1. Contract!Move(o, "settlement", "dispatch")
    BY <1>8, ContractMove DEF ConfirmPayment, Transition
  <2>2. invoice[o] \in {"ISSUED", "SETTLED"}
    BY <1>8 DEF ConfirmPayment, Transition, TypeOK, InvoiceState, BillingInv, VoidIsCancelled
  <2>3. invoice' = [invoice EXCEPT ![o] = "SETTLED"]
    BY <1>8, <2>2 DEF ConfirmPayment, Settled
  <2> QED BY <1>8, <2>1, <2>2, <2>3 DEF ConfirmPayment, Contract!Pay, Contract!Next
<1>9. ASSUME NEW o \in Orders, SettleInvoice(o)
      PROVE  Contract!Next
  <2>1. invoice' = [invoice EXCEPT ![o] = "SETTLED"]
    BY <1>9 DEF SettleInvoice, Settled
  <2>2. UNCHANGED [p \in Orders |-> StageOf(status[p])]
    BY <1>9 DEF SettleInvoice, StageOf
  <2> QED BY <1>9, <2>1, <2>2 DEF SettleInvoice, Contract!SettleBill, Contract!Next
<1>10. ASSUME NEW o \in Orders, TimeOut(o)
       PROVE  Contract!Next
  <2>1. Contract!Move(o, "settlement", "pricing")
    BY <1>10, ContractMove DEF TimeOut, Transition
  <2> QED BY <1>10, <2>1 DEF TimeOut, Contract!Lapse, Contract!Next
<1>11. ASSUME NEW o \in Orders, NEW byClient \in BOOLEAN, Redispatch(o, byClient)
       PROVE  Contract!Next
  <2>1. Contract!Move(o, "pricing", "settlement")
    BY <1>11, ContractMove DEF Redispatch, Transition
  <2> QED BY <1>11, <2>1 DEF Redispatch, Contract!Reopen, Contract!Next
<1>12. ASSUME NEW o \in Orders, NEW d \in Drivers, NEW t \in Trucks, NEW k \in Tanks,
              AssignDriver(o, d, t, k)
       PROVE  Contract!Next
  <2>1. Contract!Move(o, "dispatch", "depot")
    BY <1>12, ContractMove DEF AssignDriver, Transition
  <2>2. /\ invoice[o] \in {"ISSUED", "SETTLED"}
        /\ paymentMethod[o] = "DIRECT" => invoice[o] = "SETTLED"
    BY <1>12 DEF AssignDriver, Transition, TypeOK, InvoiceState, BillingInv, RoutedHasBill,
                 VoidIsCancelled, DirectIsPaid
  <2> QED BY <1>12, <2>1, <2>2 DEF AssignDriver, Contract!StartHaul, Contract!Next
<1>13. ASSUME NEW o \in Orders, Transition(o, "LOADING", "IN_TRANSIT", TRUE), UNCHANGED billing
       PROVE  Contract!Next
  <2>1. Contract!Move(o, "depot", "road")
    BY <1>13, ContractMove DEF Transition
  <2> QED BY <1>13, <2>1 DEF Contract!Depart, Contract!Next
<1>14. ASSUME NEW o \in Orders, ConfirmLoading(o)
       PROVE  Contract!Next
  <2>1. Contract!Move(o, "depot", "road")
    BY <1>14, ContractMove DEF ConfirmLoading, Transition
  <2> QED BY <1>14, <2>1 DEF ConfirmLoading, Contract!Depart, Contract!Next
<1>15. ASSUME NEW o \in Orders, OverrideVerification(o)
       PROVE  [Contract!Next]_(Contract!vars)
  <2>1. CASE Transition(o, "ASSIGNED_TO_DRIVER", "LOADING", TRUE)
    BY <1>15, <2>1, ContractStutter DEF OverrideVerification, Transition
  <2>2. CASE Transition(o, "LOADING", "IN_TRANSIT", TRUE)
    BY <1>13, <1>15, <2>2 DEF OverrideVerification
  <2> QED BY <1>15, <2>1, <2>2 DEF OverrideVerification
<1>16. ASSUME NEW o \in Orders, VerifyArrival(o)
       PROVE  UNCHANGED Contract!vars
  BY <1>16, ContractStutter DEF VerifyArrival, Transition
<1>17. ASSUME NEW d \in Drivers, Deactivate(d) \/ Activate(d)
       PROVE  UNCHANGED Contract!vars
  BY <1>17, ContractIdle DEF Deactivate, Activate
<1>18. ASSUME NEW r \in Requests, (\E op \in Ops, o \in Orders : Load(r, op, o)) \/ Abort(r)
       PROVE  UNCHANGED Contract!vars
  BY <1>18, ContractIdle DEF Load, Abort
<1>19. ASSUME NEW r \in Requests, Cancel(r)
       PROVE  Contract!Next
  <2> DEFINE o == req[r].order
  <2>1. o \in Orders
    BY <1>19, FinishType DEF Cancel, Ops
  <2>2. status[o] \in Cancellable /\ status' = [status EXCEPT ![o] = "CANCELLED"]
    BY <1>19, EndingEdges DEF Cancel, Transition
  <2>3. \/ invoice' = [invoice EXCEPT ![o] = invoice[o]]
        \/ invoice[o] = "ISSUED" /\ invoice' = [invoice EXCEPT ![o] = "VOID"]
    BY <1>19, <2>1 DEF Cancel, Voided, TypeOK
  <2>4. UNCHANGED paymentMethod
    BY <1>19 DEF Cancel
  <2> HIDE DEF o
  <2>5. \E from \in {"review", "pricing", "settlement", "dispatch", "depot"} :
            Contract!Move(o, from, "closed")
    BY <2>1, <2>2, ContractMove DEF Cancellable
  <2> QED BY <2>1, <2>3, <2>4, <2>5 DEF Contract!Close, Contract!Next
<1>20. ASSUME NEW r \in Requests, ForceComplete(r)
       PROVE  Contract!Next
  <2> DEFINE o == req[r].order
  <2>1. o \in Orders
    BY <1>20, FinishType DEF ForceComplete, Ops
  <2>2. status[o] \in ForceCompletable /\ status' = [status EXCEPT ![o] = "DELIVERED"]
    BY <1>20, EndingEdges DEF ForceComplete, Transition
  <2>3. UNCHANGED <<invoice, paymentMethod>>
    BY <1>20 DEF ForceComplete
  <2> HIDE DEF o
  <2>4. \E from \in {"depot", "road"} : Contract!Move(o, from, "delivered")
    BY <2>1, <2>2, ContractMove DEF ForceCompletable
  <2> QED BY <2>1, <2>3, <2>4 DEF Contract!Deliver, Contract!Next
<1>21. ASSUME NEW r \in Requests, CompleteDelivery(r)
       PROVE  Contract!Next
  <2> DEFINE o == req[r].order
  <2>1. o \in Orders
    BY <1>21, FinishType DEF CompleteDelivery, Ops
  <2>2. Contract!Move(o, "road", "delivered")
    BY <1>21, <2>1, ContractMove DEF CompleteDelivery, Transition
  <2>3. UNCHANGED <<invoice, paymentMethod>>
    BY <1>21 DEF CompleteDelivery
  <2> HIDE DEF o
  <2> QED BY <2>1, <2>2, <2>3 DEF Contract!Deliver, Contract!Next
<1>22. ASSUME NEW r \in Requests, NEW t \in Trucks, NEW k \in Tanks, ReassignVehicle(r, t, k)
       PROVE  UNCHANGED Contract!vars
  BY <1>22, ContractIdle DEF ReassignVehicle
<1>23. ASSUME NEW r \in Requests, VerifyDeparture(r)
       PROVE  UNCHANGED Contract!vars
  <2> DEFINE o == req[r].order
  <2>1. o \in Orders
    BY <1>23, FinishType DEF VerifyDeparture, Ops
  <2>2. /\ status[o] = "ASSIGNED_TO_DRIVER" /\ status' = [status EXCEPT ![o] = "LOADING"]
        /\ UNCHANGED <<invoice, paymentMethod>>
    BY <1>23 DEF VerifyDeparture, Transition
  <2> HIDE DEF o
  <2> QED BY <2>1, <2>2, ContractStutter
<1>24. ASSUME NEW r \in Requests, VerifyLoading(r)
       PROVE  UNCHANGED Contract!vars
  BY <1>24, ContractIdle DEF VerifyLoading
<1> QED
  BY <1>1, <1>2, <1>3, <1>4, <1>5, <1>6, <1>7, <1>8, <1>9, <1>10, <1>11, <1>12, <1>14, <1>15,
     <1>16, <1>17, <1>18, <1>19, <1>20, <1>21, <1>22, <1>23, <1>24 DEF Next

\* The handlers, in flight together and acting on stale orders, keep what the
\* platform promises a customer about an order.
THEOREM ContractIsKept == Spec => KeepsContract
<1>1. Init => Contract!Init
  BY Stages DEF Init, Contract!Init
<1> QED
  BY <1>1, ContractStep, TypeCorrect, BillingInvariant, PTL DEF Spec, KeepsContract, Contract!Spec
=============================================================================
