SPECIFICATION OtpSpec
CONSTANTS
    NoCode = NoCode
    Codes = {c1, c2}
    Issues = {1, 2}
    Checks = {1, 2}
    CodeAttempts = 1
    MaxMishaps = 2
INVARIANT
    WrongGuessesLockOut
PROPERTY
    HandoverGoesOn
CHECK_DEADLOCK FALSE
