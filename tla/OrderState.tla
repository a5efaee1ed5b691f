----------------------------- MODULE OrderState -----------------------------
(***************************************************************************)
(* The order status machine of order-state.service.ts: the statuses, the   *)
(* table of permitted transitions and the two tests transition() makes     *)
(* before it writes.  A constant module: the components that move an order *)
(* extend it and supply the status themselves.                             *)
(***************************************************************************)

\* "ABSENT" stands for an order document that has not been created yet.
OrderStatus ==
    { "ABSENT", "PENDING_APPROVAL", "APPROVED", "AWAITING_ROUTING",
      "ROUTED_TO_TRANSPORT", "PENDING_PAYMENT", "ASSIGNED_TO_DRIVER",
      "LOADING", "IN_TRANSIT", "UNLOADING",
      "DELIVERED", "REJECTED", "CANCELLED" }

PaymentMethod == {"DIRECT", "DEFERRED", "CREDIT"}

InvoiceState == {"NONE", "ISSUED", "SETTLED", "VOID"}

\* The edges any caller may take.
PlainTransitions ==
    ({"PENDING_APPROVAL"}    \X {"APPROVED", "REJECTED", "CANCELLED"})
    \cup ({"APPROVED"}       \X {"PENDING_PAYMENT", "AWAITING_ROUTING",
                                 "ROUTED_TO_TRANSPORT", "CANCELLED"})
    \cup ({"AWAITING_ROUTING"}    \X {"ROUTED_TO_TRANSPORT", "CANCELLED"})
    \cup ({"ROUTED_TO_TRANSPORT"} \X {"ASSIGNED_TO_DRIVER", "PENDING_PAYMENT",
                                      "CANCELLED"})
    \cup ({"ASSIGNED_TO_DRIVER"}  \X {"LOADING", "CANCELLED"})
    \cup ({"PENDING_PAYMENT"}     \X {"ROUTED_TO_TRANSPORT", "APPROVED",
                                      "CANCELLED"})
    \cup ({"LOADING"}             \X {"IN_TRANSIT", "CANCELLED"})
    \cup ({"IN_TRANSIT"}          \X {"UNLOADING"})
    \cup ({"UNLOADING"}           \X {"DELIVERED"})

\* The edges that need an audited manual override.
OverrideTransitions == {"LOADING", "IN_TRANSIT"} \X {"DELIVERED"}

\* transition() refuses an edge that is not in the table, and an override
\* edge without options.manualOverride.
Permitted(from, to, manualOverride) ==
    \/ <<from, to>> \in PlainTransitions
    \/ manualOverride /\ <<from, to>> \in OverrideTransitions

\* Statuses in which a driver, a truck and a tank are committed to the order.
Hauling == {"ASSIGNED_TO_DRIVER", "LOADING", "IN_TRANSIT", "UNLOADING"}

Terminal == {"DELIVERED", "REJECTED", "CANCELLED"}

\* orders.controller.ts: ADMIN_CANCELLABLE (CLIENT_CANCELLABLE is its subset
\* without the two driver-having statuses).
Cancellable ==
    { "PENDING_APPROVAL", "APPROVED", "AWAITING_ROUTING",
      "ROUTED_TO_TRANSPORT", "PENDING_PAYMENT",
      "ASSIGNED_TO_DRIVER", "LOADING" }

ForceCompletable == {"LOADING", "IN_TRANSIT", "UNLOADING"}
=============================================================================
