-------------------------- MODULE MCOrderLifecycle --------------------------
(***************************************************************************)
(* Small instances of OrderLifecycle for TLC: one transport company owning *)
(* every driver, truck and tank.  The run has two parts, chosen at the     *)
(* start: "races" has a single order and a handler in every request slot,  *)
(* "contention" every order, one handler in flight and no payment timeout, *)
(* which touches no vehicle.                                               *)
(***************************************************************************)
EXTENDS OrderLifecycle, FiniteSets, TLC

VARIABLE part

MCOwner == [x \in Drivers \cup Trucks \cup Tanks |-> CHOOSE c \in Transporters : TRUE]

MCInit == Init /\ part \in {"races", "contention"}

MCNext ==
    /\ Next
    /\ part = "races" => Cardinality({o \in Orders : status'[o] # "ABSENT"}) <= 1
    /\ part = "contention" =>
          /\ Cardinality({r \in Requests : req'[r] # Idle}) <= 1
          /\ \A o \in Orders : paymentTimeoutCount'[o] = 0
    /\ UNCHANGED part

MCSpec == MCInit /\ [][MCNext]_<<vars, part>>

\* Orders, trucks and request slots are interchangeable.
Symmetry ==
    Permutations(Orders) \cup Permutations(Requests) \cup Permutations(Trucks)
=============================================================================
