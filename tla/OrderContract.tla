--------------------------- MODULE OrderContract ---------------------------
(***************************************************************************)
(* What the platform promises a customer about one order, told without     *)
(* requests, snapshots, drivers or trucks: in which order the stages of a  *)
(* sale may follow each other, and what has to be true of the bill when    *)
(* they do.  OrderLifecycle is shown to implement it.                      *)
(*                                                                         *)
(*   absent -> review -> pricing <-> settlement -> dispatch                *)
(*          -> depot -> road -> delivered          (closed: from any stage *)
(*                                                  before the road)       *)
(***************************************************************************)
CONSTANT Orders

VARIABLES stage, bill, method

vars == <<stage, bill, method>>

Stages == { "absent", "review", "pricing", "settlement", "dispatch",
            "depot", "road", "delivered", "closed" }

Move(o, from, to) ==
    /\ stage[o] = from
    /\ stage' = [stage EXCEPT ![o] = to]

Init ==
    /\ stage = [o \in Orders |-> "absent"]
    /\ bill = [o \in Orders |-> "NONE"]
    /\ method = [o \in Orders |-> "DIRECT"]

\* A customer places an order and names how it will be paid.
Place(o) ==
    /\ Move(o, "absent", "review")
    /\ \E m \in {"DIRECT", "DEFERRED", "CREDIT"} : method' = [method EXCEPT ![o] = m]
    /\ UNCHANGED bill

Admit(o) == Move(o, "review", "pricing") /\ UNCHANGED <<bill, method>>

\* The total becomes known: the one moment a bill is written.
Price(o) ==
    /\ bill[o] = "NONE"
    /\ Move(o, "pricing", "settlement")
    /\ bill' = [bill EXCEPT ![o] = "ISSUED"]
    /\ UNCHANGED method

Reopen(o) == Move(o, "pricing", "settlement") /\ UNCHANGED <<bill, method>>

Lapse(o) == Move(o, "settlement", "pricing") /\ UNCHANGED <<bill, method>>

\* Only an order that is not paid up front is confirmed by a mere yes.
Accept(o) ==
    /\ method[o] # "DIRECT"
    /\ Move(o, "settlement", "dispatch")
    /\ UNCHANGED <<bill, method>>

Pay(o) ==
    /\ bill[o] \in {"ISSUED", "SETTLED"}
    /\ Move(o, "settlement", "dispatch")
    /\ bill' = [bill EXCEPT ![o] = "SETTLED"]
    /\ UNCHANGED method

SettleBill(o) ==
    /\ method[o] # "DIRECT"
    /\ bill[o] = "ISSUED"
    /\ bill' = [bill EXCEPT ![o] = "SETTLED"]
    /\ UNCHANGED <<stage, method>>

\* Nothing is hauled that nobody has been billed for, nor an up-front order
\* that has not been paid.
StartHaul(o) ==
    /\ bill[o] \in {"ISSUED", "SETTLED"}
    /\ method[o] = "DIRECT" => bill[o] = "SETTLED"
    /\ Move(o, "dispatch", "depot")
    /\ UNCHANGED <<bill, method>>

Depart(o) == Move(o, "depot", "road") /\ UNCHANGED <<bill, method>>

Deliver(o) ==
    /\ \E from \in {"depot", "road"} : Move(o, from, "delivered")
    /\ UNCHANGED <<bill, method>>

\* Rejection or cancellation: impossible once on the road; a paid bill stays
\* paid, an open one is voided (or, if the cancellation never saw it, left).
Close(o) ==
    /\ \E from \in {"review", "pricing", "settlement", "dispatch", "depot"} :
           Move(o, from, "closed")
    /\ \E b \in {bill[o]} \cup (IF bill[o] = "ISSUED" THEN {"VOID"} ELSE {}) :
           bill' = [bill EXCEPT ![o] = b]
    /\ UNCHANGED method

Next ==
    \E o \in Orders :
        \/ Place(o) \/ Admit(o) \/ Price(o) \/ Reopen(o) \/ Lapse(o)
        \/ Accept(o) \/ Pay(o) \/ SettleBill(o)
        \/ StartHaul(o) \/ Depart(o) \/ Deliver(o) \/ Close(o)

Spec == Init /\ [][Next]_vars
=============================================================================
