SPECIFICATION AccessSpec
CONSTANTS
    Cap = 2
    MaxSids = 3
    MaxGen = 3
    MaxFlight = 2
    Verifiers = {v1, v2}
    MaxRequests = 1
    ChallengeAfter = 1
    FailThreshold = 3
    MaxAttempts = 2
    MaxCount = 3
    MaxCodes = 2
    MaxVerifyDeaths = 1
    u1 = u1
    u2 = u2
    p1 = p1
    p2 = p2
    Holders = {u1, u2}
    Phones = {p1, p2, p3}
    FirstPhone <- TwoNumbers
    PhoneCodes = {k1, k2}
    Requesters = {q1, q2}
    Confirmers = {c1}
    PhoneAttempts = 1
    NoPhone = NoPhone
    MaxSites = 4
    Areas = {north}
    Makers = {m1, m2}
    Removers = {x1, x2}
INVARIANT
    DefaultNeverLapses
CHECK_DEADLOCK FALSE
