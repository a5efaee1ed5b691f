SPECIFICATION MCSpec
CONSTANTS
    Orders = {o1}
    Drivers = {d1}
    Trucks = {t1, t2}
    Tanks = {k1}
    Transporters = {c1}
    Requests = {r1, r2}
    None = None
    MaxTimeouts = 1
    Owner <- MCOwner
INVARIANT
    DepartsInVerifiedTruck
