SPECIFICATION TimersSpec
CONSTANTS
    NoToken = NoToken
    Orphan = Orphan
    w1 = w1
    s1 = s1
    Runs = {w1, w2}
    Stops = {s1, s2}
    Workers = {k1, k2}
    MaxCrashes = 1
    MaxDeliveries = 2
    Devices = {d1, d2}
    Positions = {0, 1, 2}
    MovementMeters = 1
    MaxSignIns = 2
    SmsWorkers = {m1, m2}
    MaxSmsCrashes = 1
    MaxSmsDeliveries = 2
INVARIANTS
    OneOpenStop
    OneAlertPerSilence
    UnlapsedSweepIsAlone
PROPERTIES
    SilenceIsHeard
    SweepGoesOn
    DisplacedDeviceGoesDark
    UnreachedDriverIsRecorded
CHECK_DEADLOCK FALSE
