------------------------------- MODULE MCMarket -------------------------------
(***************************************************************************)
(* Small instances of FuelExchange, Announcements and PricedHaul.  They    *)
(* share only the companies' status, which each changes freely, so a       *)
(* behaviour steps one: the market, the market after a migration, an       *)
(* announcement, or an order being priced.                                 *)
(***************************************************************************)
EXTENDS FuelExchange, Announcements, PricedHaul, TLC

CONSTANTS
    o1, f1, f2, a1, a2, t1, t2,
    north, south, cairo, aswan, home, branch, r1, r2

VARIABLE floor

marketVars == <<exchangeVars, announceVars, haulVars, floor>>

\* The announcement's administrators: two companies with one each.
TwoTenants == (a1 :> t1) @@ (a2 :> t2)

\* Two regions of one governorate each, with a station.
TwoGovernorates == (cairo :> north) @@ (aswan :> south)
StationRegions == (home :> north) @@ (branch :> south)
StationGovernorates == (home :> cairo) @@ (branch :> aswan)

\* Percentages whose fees round up and down at the quantities of the instance.
TwoConfigs == {[service |-> 5, tax |-> 15], [service |-> 0, tax |-> 7]}

\* No rates, a regional rate, one a governorate's rate overrides, and a list refused for
\* naming a governorate of another region.
Rate(r, g, k, m) == [region |-> r, gov |-> g, perKm |-> k, minPrice |-> m]
FourRateLists ==
    {{}, {Rate(north, None, 3, 45)}, {Rate(north, None, 3, 45), Rate(north, cairo, 7, 20)},
     {Rate(south, cairo, 3, 10)}}

RoutingCallsAlike == Permutations({r1, r2})

\* Before the market opens f1 has asked f2, and the request is in any state.
Directed ==
    {[state |-> s, raiser |-> f1, recipient |-> f2, price |-> CHOOSE p \in Prices : TRUE] : s \in ExchangeRequestState}

\* One of the states an order may start from, for the behaviours that price none.
Dormant ==
    /\ tariff.config = None /\ haul = NoHaul
    /\ \A d \in Depots : ~depot[d].known
    /\ \A c \in Rivals : company[c] = NoCompany
    /\ company[Partner].rates = {}

MarketInit ==
    /\ ExchangeInit /\ AnnounceInit /\ HaulInit
    /\ floor \in {"market", "migrated", "announcement", "haulage"}
    /\ floor \notin {"market", "migrated"} => sells = Firms
    /\ floor # "haulage" => Dormant
    /\ IF floor = "migrated"
       THEN request \in {[o \in Offers |-> IF o = o1 THEN r ELSE NoRequest] : r \in Directed}
       ELSE request = [o \in Offers |-> NoRequest]

MarketStep ==
    \/ floor \in {"market", "migrated"} /\ ExchangeNext /\ UNCHANGED <<announceVars, haulVars, floor>>
    \/ floor = "announcement" /\ AnnounceNext /\ UNCHANGED <<exchangeVars, haulVars, floor>>
    \/ floor = "haulage" /\ HaulNext /\ UNCHANGED <<exchangeVars, announceVars, floor>>

MarketSpec == MarketInit /\ [][MarketStep]_marketVars
=============================================================================
