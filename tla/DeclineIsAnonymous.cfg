SPECIFICATION MarketSpec
CONSTANTS
    NoFirm = NoFirm
    o1 = o1
    f1 = f1
    f2 = f2
    a1 = a1
    a2 = a2
    t1 = t1
    t2 = t2
    Firms = {f1, f2, f3}
    Offers = {o1}
    Prices = {1, 2}
    MaxCalls = 2
    Tenants = {t1, t2}
    Admins = {a1, a2}
    TenantOf <- TwoTenants
    FanWorkers = {w1, w2}
    MaxChanges = 2
    MaxDeaths = 1
    MaxHandouts = 2
    None = None
    north = north
    south = south
    cairo = cairo
    aswan = aswan
    home = home
    branch = branch
    r1 = r1
    r2 = r2
    Supplier = supplier
    Rivals = {rival}
    Haulers = {ta, tb}
    Partner = ta
    Regions = {north, south}
    RegionOfGov <- TwoGovernorates
    Stations = {home, branch}
    RegionOf <- StationRegions
    GovOf <- StationGovernorates
    LegacyStation = home
    UnitPrices = {33, 35}
    Configs <- TwoConfigs
    Quantities = {10, 15}
    RateLists <- FourRateLists
    Overrides = {400}
    Depots = {depot1}
    Kms = {10, 40}
    Routings = {r1, r2}
    MaxEdits = 2
SYMMETRY RoutingCallsAlike
INVARIANT
    DeclineIsAnonymous
CHECK_DEADLOCK FALSE
