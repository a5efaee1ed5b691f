SPECIFICATION MCSpec
CONSTANTS
    Orders = {o1, o2}
    Drivers = {d1}
    Trucks = {t1, t2}
    Tanks = {k1}
    Transporters = {c1}
    Requests = {r1, r2}
    None = None
    MaxTimeouts = 2
    Owner <- MCOwner
SYMMETRY Symmetry
INVARIANTS
    TypeOK
    BusyDriverHauls
    BookedVehicleIsRecorded
    HaulKeepsVehicle
    HaulIsBilled
PROPERTIES
    InvoiceIsFinal
    KeepsContract
