----------------------------- MODULE PricedHaul -----------------------------
(***************************************************************************)
(* What an order costs.  A client asks for a quote, places the order with  *)
(* the token of the quote or without one, the fuel company approves it,    *)
(* and routing picks the transporter whose own delivery rate completes the *)
(* price.  Meanwhile the fuel company edits its prices and fees, gives and *)
(* takes regions, the operator onboards and suspends companies, the        *)
(* transporters edit their rates and depots open, move and close.          *)
(*                                                                         *)
(* Amounts are in cents, distances in kilometres.  There is one client, of *)
(* Supplier, one grade and one order.  What a price list remembers of its  *)
(* own history, contact details, the commercial register file and the      *)
(* regions a fuel company says it covers are read by no decision here and  *)
(* are left out.                                                           *)
(***************************************************************************)
EXTENDS Integers, FiniteSets

CONSTANTS
    Supplier,        \* the client's fuel company
    Rivals,          \* names of other fuel companies
    Haulers,         \* names of transport companies
    Partner,         \* the one Supplier has onboarded at the start
    Regions,         \* RegionCode
    RegionOfGov,     \* regions.constants: the region of each governorate
    Stations,        \* the client's stations
    RegionOf,        \* Station.regionCode
    GovOf,           \* Station.governorateCode
    LegacyStation,   \* the station embedded in the client's user document
    UnitPrices,      \* prices per litre the fuel company may set
    Configs,         \* [service, tax] percentages it may set
    Quantities,      \* litres
    RateLists,       \* rate lists a transporter may send: sets of rates
    Overrides,       \* final prices an approving administrator may type in
    Depots,          \* warehouses
    Kms,             \* distances from a depot to the delivery point
    Routings,        \* routing calls that may run at once
    MaxEdits,        \* bound: edits of the registers in one behaviour
    None

ASSUME HaulAssumption ==
    /\ LegacyStation \in Stations
    /\ Partner \in Haulers /\ Supplier \notin Rivals \cup Haulers /\ Rivals \cap Haulers = {}
    /\ RegionOf \in [Stations -> Regions]
    /\ UnitPrices \subseteq Nat /\ Quantities \subseteq Nat /\ Overrides \subseteq Nat
    /\ Kms \subseteq Nat
    /\ Configs \subseteq [service : Nat, tax : Nat]
    /\ \A rates \in RateLists : \A r \in rates : r.perKm \in Nat /\ r.minPrice \in Nat
    /\ UnitPrices # {} /\ Kms # {}
    /\ None \notin UnitPrices /\ None \notin Configs
    /\ None \notin Haulers \cup Rivals \cup {Supplier}
    /\ None \notin Stations

VARIABLES
    company,   \* the companies collection, by name
    tariff,    \* Supplier's price of the grade and its pricing configuration
    depot,     \* the warehouses collection
    token,     \* the quote the client holds
    haul,      \* the order
    routing,   \* per routing call: the transporter and the fee it has resolved
    edits      \* edits made so far

haulVars == <<company, tariff, depot, token, haul, routing, edits>>

-----------------------------------------------------------------------------
(* Prices.                                                                  *)

\* roundCurrency of a percentage of an amount in cents: half up.
Percent(amount, rate) == (amount * rate + 50) \div 100

\* derivePriceBreakdown: the fuel line, the delivery fee, the service fee on the
\* fuel line and the tax on all three, each rounded before the next uses it.  No fee
\* adds nothing to the tax base.
Breakdown(rates, fee) ==
    LET line == rates.unit * rates.quantity
        service == Percent(line, rates.service)
    IN  line + fee + service + Percent(line + fee + service, rates.tax)

\* PricingService.derive before a transporter is known, and priceWithTransport after.
EstimateOf(rates) == Breakdown(rates, 0)

\* The rates an order of this quantity would be priced at now.
CurrentRates(quantity) ==
    [unit |-> tariff.price, quantity |-> quantity,
     service |-> tariff.config.service, tax |-> tariff.config.tax]

\* currentRates throws PRICING_NOT_CONFIGURED when either half is missing.
Configured == tariff.price # None /\ tariff.config # None

-----------------------------------------------------------------------------
(* Companies and depots.                                                    *)

Companies == {Supplier} \cup Rivals \cup Haulers

\* A name no company has taken.
NoCompany == [type |-> "NONE", parent |-> None, active |-> FALSE, served |-> {},
              rates |-> {}, admin |-> None, regionsFrom |-> None]

\* A new company: ACTIVE, no regions, no rates.  admin is the companyId of its
\* administrator's account, regionsFrom the company that last set its regions.
Company(type, parent, admin) ==
    [type |-> type, parent |-> parent, active |-> TRUE, served |-> {},
     rates |-> {}, admin |-> admin, regionsFrom |-> None]

\* createTransportCompany: always a fuel company's own.
NewTransporter(parent, admin) == Company("TRANSPORT", parent, admin)

\* findServingTransporters: active transporters of the fuel company in the region.
FindServingTransporters(fuel, region) ==
    {t \in Haulers :
        /\ company[t].type = "TRANSPORT"
        /\ company[t].parent = fuel
        /\ company[t].active
        /\ region \in company[t].served}

\* findNearestSupplying: the distance of the nearest depot in service with the grade.
Supplying == {d \in Depots : depot[d].open /\ depot[d].supplies}

NearestKm == CHOOSE km \in {depot[d].km : d \in Supplying} :
                \A d \in Supplying : km <= depot[d].km

\* rateFor: the governorate's own rate, and only without one its region's.
RateFor(rates, station) ==
    LET exact == {r \in rates : r.region = RegionOf[station] /\ r.gov = GovOf[station]}
        wide  == {r \in rates : r.region = RegionOf[station] /\ r.gov = None}
    IN  IF exact # {} THEN exact ELSE wide

\* feeForCompany refuses without a rate for the area or a depot for the grade.
Priceable(t, station) == RateFor(company[t].rates, station) # {} /\ Supplying # {}

\* feeForCompany: by the kilometre, but never under the rate's minimum.
FeeForCompany(t, station) ==
    LET rate == CHOOSE r \in RateFor(company[t].rates, station) : TRUE
        byKm == NearestKm * rate.perKm
    IN  IF byKm < rate.minPrice THEN rate.minPrice ELSE byKm

\* A governorate's rate must name its own region, and no area may be priced twice.
ValidRates(rates) ==
    /\ \A r \in rates : r.gov # None => RegionOfGov[r.gov] = r.region
    /\ \A r, s \in rates : r.region = s.region /\ r.gov = s.gov => r = s

-----------------------------------------------------------------------------
NoHaul == [status |-> "NONE", station |-> None, rates |-> None, shown |-> None,
           estimate |-> 0, approved |-> 0, final |-> 0, hauler |-> None, fee |-> 0,
           servedThen |-> {}]

NotRouting == [at |-> "idle", from |-> "NONE", hauler |-> None, fee |-> 0, servedThen |-> {}]

\* The supplier is onboarded and its partner serves the client's first region at a
\* rate of its own; the rivals are onboarded or not and the depots
\* in service or not yet known.
\* The order is not placed yet, or was placed before orders carried a breakdown.
HaulInit ==
    /\ \E rates \in {l \in RateLists : ValidRates(l)}, rivals \in {{}, Rivals} :
         company = [c \in Companies |->
            CASE c = Supplier -> Company("FUEL", None, Supplier)
              [] c = Partner  -> [NewTransporter(Supplier, Partner) EXCEPT
                                    !.served = {RegionOf[LegacyStation]}, !.rates = rates,
                                    !.regionsFrom = Supplier]
              [] c \in rivals -> Company("FUEL", None, c)
              [] OTHER        -> NoCompany]
    /\ tariff \in [price : {CHOOSE p \in UnitPrices : TRUE}, config : Configs \cup {None}]
    /\ \E stock \in BOOLEAN :
         depot = [d \in Depots |-> [known |-> stock, open |-> stock, supplies |-> stock,
                                    km |-> CHOOSE km \in Kms : TRUE]]
    /\ token = None
    /\ \/ haul = NoHaul
       \/ \E e \in Overrides :
            haul = [NoHaul EXCEPT !.status = "PENDING_APPROVAL", !.station = LegacyStation,
                                  !.estimate = e]
    /\ routing = [r \in Routings |-> NotRouting]
    /\ edits = 0

\* Every edit of a register is one of at most MaxEdits.
Edit == edits < MaxEdits /\ edits' = edits + 1

\* POST /companies: a fuel company and its administrator are created in one transaction;
\* a name or an address already taken refuses both.
CreateFuelCompany(f) ==
    /\ Edit
    /\ company[f] = NoCompany
    /\ company' = [company EXCEPT ![f] = Company("FUEL", None, f)]
    /\ UNCHANGED <<tariff, depot, token, haul, routing>>

\* POST /companies/:id/transporters by a fuel company's own administrator, in one
\* transaction.  The tenant hook binds the new account to the acting company, and the
\* update that follows binds it to the transporter.
CreateTransporter(f, t) ==
    /\ Edit
    /\ company[f].type = "FUEL" /\ company[f].admin = f
    /\ company[t] = NoCompany
    /\ LET inserted == NewTransporter(f, f)
       IN  company' = [company EXCEPT ![t] = [inserted EXCEPT !.admin = t]]
    /\ UNCHANGED <<tariff, depot, token, haul, routing>>

\* POST /companies/transporters by the operator, whom the tenant hook leaves alone.
\* The parent must be a fuel company.
OnboardTransporter(parent, t) ==
    /\ Edit
    /\ company[parent].type = "FUEL"
    /\ company[t] = NoCompany
    /\ company' = [company EXCEPT ![t] = NewTransporter(parent, t)]
    /\ UNCHANGED <<tariff, depot, token, haul, routing>>

\* The operator suspends or reinstates a company.
SetStatus(c) ==
    /\ Edit
    /\ company[c].type # "NONE"
    /\ company' = [company EXCEPT ![c].active = ~@]
    /\ UNCHANGED <<tariff, depot, token, haul, routing>>

\* PUT /companies/:id/regions by a fuel company's administrator: the transporter must
\* be its own.  The list replaces the one before.
BugAssignRegions(actor, t, regions) ==
    /\ Edit
    /\ company[actor].type = "FUEL" /\ company[t].type = "TRANSPORT"
    /\ company' = [company EXCEPT ![t].served = regions, ![t].regionsFrom = actor]
    /\ UNCHANGED <<tariff, depot, token, haul, routing>>

AssignRegions(actor, t, regions) ==
    /\ Edit
    /\ company[actor].type = "FUEL" /\ company[t].type = "TRANSPORT"
    /\ company[t].parent = actor
    /\ company' = [company EXCEPT ![t].served = regions, ![t].regionsFrom = actor]
    /\ UNCHANGED <<tariff, depot, token, haul, routing>>

\* PUT /companies/:id/delivery-rates by the administrator bound to that transporter.
SetDeliveryRates(t, rates) ==
    /\ Edit
    /\ company[t].type = "TRANSPORT" /\ company[t].admin = t
    /\ ValidRates(rates)
    /\ company' = [company EXCEPT ![t].rates = rates]
    /\ UNCHANGED <<tariff, depot, token, haul, routing>>

\* The fuel company's administrator replaces the price of the grade.
SetFuelPrices(p) ==
    /\ Edit
    /\ tariff' = [tariff EXCEPT !.price = p]
    /\ UNCHANGED <<company, depot, token, haul, routing>>

SetPricingConfig(c) ==
    /\ Edit
    /\ tariff' = [tariff EXCEPT !.config = c]
    /\ UNCHANGED <<company, depot, token, haul, routing>>

\* A new depot, created or loaded in bulk, is in service.
CreateDepot(d, km, supplies) ==
    /\ Edit
    /\ ~depot[d].known
    /\ depot' = [depot EXCEPT ![d] = [known |-> TRUE, open |-> TRUE, supplies |-> supplies, km |-> km]]
    /\ UNCHANGED <<company, tariff, token, haul, routing>>

\* Loading a depot again, or updating it, moves it and changes its grades; a depot
\* out of service stays so.
BulkLoad(d, km, supplies) ==
    /\ Edit
    /\ depot[d].known
    /\ depot' = [depot EXCEPT ![d].km = km, ![d].supplies = supplies]
    /\ UNCHANGED <<company, tariff, token, haul, routing>>

WithdrawDepot(d) ==
    /\ Edit
    /\ depot[d].open
    /\ depot' = [depot EXCEPT ![d].open = FALSE]
    /\ UNCHANGED <<company, tariff, token, haul, routing>>

-----------------------------------------------------------------------------
(* Quoting and placing.                                                     *)

\* POST /orders/quote: the token commits to the fuel company's rates alone.
Quote(q) ==
    /\ haul.status = "NONE" /\ Configured
    /\ token' = [rates |-> CurrentRates(q), lapsed |-> FALSE]
    /\ UNCHANGED <<company, tariff, depot, haul, routing, edits>>

\* The quote's minutes run out.
QuoteLapses ==
    /\ token # None /\ ~token.lapsed
    /\ token' = [token EXCEPT !.lapsed = TRUE]
    /\ UNCHANGED <<company, tariff, depot, haul, routing, edits>>

\* The order as createWithDrawdown stores it; shown is what the client was told.
Placed(station, rates, shown) ==
    [NoHaul EXCEPT !.status = "PENDING_APPROVAL", !.station = station, !.rates = rates,
                   !.shown = shown, !.estimate = EstimateOf(rates)]

\* redeem: the token is in time, names this quantity, and every rate it names is
\* still the live one; the order is priced from the live ones.
Redeem(q) ==
    /\ ~token.lapsed
    /\ token.rates.quantity = q
    /\ token.rates = CurrentRates(q)

\* POST /orders with a quote token.
CreatePriced(s, q) ==
    /\ haul.status = "NONE" /\ token # None /\ Configured
    /\ Redeem(q)
    /\ haul' = Placed(s, CurrentRates(q), token.rates)
    /\ UNCHANGED <<company, tariff, depot, token, routing, edits>>

\* POST /orders without one: priced at the rates of the moment.
CreateOrder(s, q) ==
    /\ haul.status = "NONE" /\ Configured
    /\ haul' = Placed(s, CurrentRates(q), CurrentRates(q))
    /\ UNCHANGED <<company, tariff, depot, token, routing, edits>>

\* The fuel company approves at the estimate or at a price of its own.
Approve ==
    /\ haul.status = "PENDING_APPROVAL"
    /\ \E p \in Overrides \cup {haul.estimate} :
         haul' = [haul EXCEPT !.status = "APPROVED", !.approved = p, !.final = p]
    /\ UNCHANGED <<company, tariff, depot, token, routing, edits>>

-----------------------------------------------------------------------------
(* Routing.                                                                 *)

\* A routing call reads the region and the transporters that serve it, and takes the
\* one there is or the one its caller chose.
PickHauler(r, t) ==
    LET serving == FindServingTransporters(Supplier, RegionOf[LegacyStation])
    IN  /\ routing[r].at = "idle"
        /\ haul.status \in {"APPROVED", "AWAITING_ROUTING"}
        /\ t \in serving
        /\ routing' = [routing EXCEPT ![r] = [NotRouting EXCEPT !.at = "picked", !.hauler = t,
                                              !.from = haul.status, !.servedThen = company[t].served]]
        /\ UNCHANGED <<company, tariff, depot, token, haul, edits>>

\* No transporter serves the region, or several do and none was chosen.
AwaitRouting ==
    /\ haul.status = "APPROVED"
    /\ Cardinality(FindServingTransporters(Supplier, RegionOf[LegacyStation])) # 1
    /\ haul' = [haul EXCEPT !.status = "AWAITING_ROUTING"]
    /\ UNCHANGED <<company, tariff, depot, token, routing, edits>>

\* The call prices the haul with the transporter's rates and the depots of that
\* moment, or ends refused.
PriceHaul(r) ==
    /\ routing[r].at = "picked"
    /\ routing' = [routing EXCEPT ![r] =
                    IF Priceable(routing[r].hauler, LegacyStation)
                    THEN [@ EXCEPT !.at = "priced", !.fee = FeeForCompany(routing[r].hauler, LegacyStation)]
                    ELSE NotRouting]
    /\ UNCHANGED <<company, tariff, depot, token, haul, edits>>

\* The price with the haul in it: re-derived from the rates of the order, or, for an
\* order with no breakdown, added to the approved price.
BugFinalPrice(fee) ==
    IF haul.rates # None /\ Configured THEN Breakdown(CurrentRates(haul.rates.quantity), fee)
    ELSE haul.final + fee

FinalPrice(fee) ==
    IF haul.rates # None THEN Breakdown(haul.rates, fee) ELSE haul.final + fee

\* The transaction that routes, prices and bills the order, if its status is still
\* the one the call started from, and rolls back otherwise.
AwaitClientSettlement(r) ==
    /\ routing[r].at = "priced"
    /\ haul' = IF haul.status # routing[r].from THEN haul
               ELSE [haul EXCEPT !.status = "PENDING_PAYMENT", !.hauler = routing[r].hauler,
                                 !.fee = routing[r].fee, !.final = FinalPrice(routing[r].fee),
                                 !.servedThen = routing[r].servedThen]
    /\ routing' = [routing EXCEPT ![r] = NotRouting]
    /\ UNCHANGED <<company, tariff, depot, token, edits>>

RegisterNext ==
    \/ \E f \in Rivals : CreateFuelCompany(f)
    \/ \E f \in {Supplier} \cup Rivals, t \in Haulers :
         \/ CreateTransporter(f, t)
         \/ OnboardTransporter(f, t)
         \/ \E regions \in SUBSET Regions : AssignRegions(f, t, regions)
    \/ \E c \in Companies : SetStatus(c)
    \/ \E t \in Haulers, rates \in RateLists : SetDeliveryRates(t, rates)
    \/ \E p \in UnitPrices : SetFuelPrices(p)
    \/ \E c \in Configs : SetPricingConfig(c)
    \/ \E d \in Depots, km \in Kms, supplies \in BOOLEAN :
         CreateDepot(d, km, supplies) \/ BulkLoad(d, km, supplies)
    \/ \E d \in Depots : WithdrawDepot(d)

OrderNext ==
    \/ \E q \in Quantities : Quote(q)
    \/ QuoteLapses
    \/ \E s \in Stations, q \in Quantities : CreatePriced(s, q) \/ CreateOrder(s, q)
    \/ Approve
    \/ \E r \in Routings, t \in Haulers : PickHauler(r, t)
    \/ AwaitRouting
    \/ \E r \in Routings : PriceHaul(r) \/ AwaitClientSettlement(r)

HaulNext == RegisterNext \/ OrderNext

HaulSpec == HaulInit /\ [][HaulNext]_haulVars

-----------------------------------------------------------------------------
(* Properties.                                                              *)

\* The bill is what the client was shown plus the haul: however prices, fees, rates,
\* regions and depots were edited between the quote, the placing, the approval and
\* the routing, the final price differs from the total of the rates the client saw by
\* the transporter's fee and the tax on it, to within the cent rounding may move.  An order
\* approved at a price other than the estimate is left out: approve() means that price to
\* stand, and the routing prices the order anew without it.
BillIsQuotePlusHaul ==
    haul.status = "PENDING_PAYMENT" /\ haul.shown # None /\ haul.approved = haul.estimate =>
        LET added == haul.fee + Percent(haul.fee, haul.shown.tax)
        IN  haul.final - EstimateOf(haul.shown) \in (added - 1)..(added + 1)

\* Companies act for themselves and transporters answer to their parents: every
\* company's administrator is bound to it, a transporter's regions were given by the
\* fuel company that owns it, and an order is hauled by a transporter of the client's
\* own fuel company.
HaulerAnswersToItsParent ==
    /\ \A c \in Companies : company[c].type # "NONE" => company[c].admin = c
    /\ \A t \in Haulers : company[t].served # {} => company[t].regionsFrom = company[t].parent
    /\ haul.hauler # None => company[haul.hauler].parent = Supplier

\* "A station owner with three sites who ordered to the second one had the fuel
\* scheduled to the first... It is honoured here now": the transporter an order is
\* routed to serves the region of the station the order names.
HaulerServesStation ==
    haul.status = "PENDING_PAYMENT" => RegionOf[haul.station] \in haul.servedThen
=============================================================================
