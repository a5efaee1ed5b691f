SPECIFICATION MCSpec
CONSTANTS
    Payments = {p1, p2}
    Workers = {w1, w2}
    None = None
    Second = p2
    MaxWindows = 2
    MaxStalledCount = 1
    MaxFaults = 2
    MaxErrors = 1
INVARIANTS
    TypeOK
    AcceptedPaymentIsLinked
    ConfirmedEventIsLinked
PROPERTIES
    PaymentIsNeverUndone
    TimerClosesWindow
