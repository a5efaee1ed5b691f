SPECIFICATION MoneySpec
CONSTANTS
    o1 = o1 o2 = o2 c1 = c1 c2 = c2 f1 = f1 p1 = p1 p2 = p2 r1 = r1 r2 = r2
    LitreOrders = {o1, o2}
    Quantity <- MCQuantity
    Supplied = {2, 3}
    Corrections <- MCCorrections
    InvoiceRequests = {r1, r2}
    MaxEntries = 2
    MaxCorrections = 1
    Bills = {c1, c2, f1}
    MethodOf <- MCMethodOf
    AmountOf <- MCAmountOf
    Terms <- MCTerms
    CreditLimits = {2, 4}
    CommissionCeiling = 3
    Deposits = {d1}
    DepositAmount = 2
    Payouts = {p1, p2}
    PayoutAmount <- MCPayoutAmount
    PayoutReference <- MCSameReference
    LimitRequests = {q1, q2}
    MaxLimitChanges = 1
INVARIANTS
    BalanceIsSumOfMovements
    MovementBacksStandingInvoice
    CancelledOrderHoldsNoLitres
    LedgerFollowsInvoices
    ReferencePaidOnce
PROPERTIES
    DrawdownIsCovered
    CreditIsCovered
SYMMETRY MoneySymmetry
CHECK_DEADLOCK FALSE
