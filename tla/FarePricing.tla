----------------------------- MODULE FarePricing -----------------------------
(* The price of a short-term ticket: TicketPriceCalculator, which asks         *)
(* MultiRouteFareCalculator to plan a journey over at most two routes, counts  *)
(* the stations of every leg with StationService and prices the legs for a     *)
(* group of passengers.  Every answer of transport-service and of the          *)
(* discounts table may fail; most failures are replaced by an estimate.        *)
(* Prices are whole VND and all factors exact fractions: a tier in tenths, a    *)
(* trip in halves, a rate in hundredths.                                       *)
EXTENDS Integers, Sequences, FiniteSets, SequencesExt, FiniteSetsExt

CONSTANTS Networks,    \* the route maps: route ids to their stations in order
          FareTables,  \* the active fares: route ids to base prices
          DiscountTables,  \* the active discounts: passenger types to [kind, value, valid]
          Groups       \* the passenger counts that are asked for

Trips == {"oneway", "return"}
Types == {"adult", "elder", "teenager", "child", "student", "senior"}
FullRates == [t \in Types |-> 100]
StationsOf(routes) == UNION {ToSet(routes[id]) : id \in DOMAIN routes}

\* A station is on a route once (the unique index of routeStation.model.js).
ASSUME NetworkAssumption ==
    \A routes \in Networks :
        /\ IsFiniteSet(DOMAIN routes)
        /\ \A id \in DOMAIN routes :
              routes[id] \in Seq(StationsOf(routes)) /\ IsInjective(routes[id])
ASSUME GroupAssumption == Groups \subseteq [Types -> Nat]
\* basePrice is never negative (fare.model.js).
ASSUME FareAssumption == \A table \in FareTables : table \in [DOMAIN table -> Nat]
\* discountValue is between 0 and 100 (passengerDiscount.model.js).
ASSUME DiscountAssumption ==
    \A table \in DiscountTables : \A t \in DOMAIN table :
        table[t] \in [kind : {"percentage", "fixed_amount", "free"}, value : 0..100,
                      valid : BOOLEAN]

VARIABLES net,        \* the routes with their stations (transport-service)
          fares,      \* the active fares
          discounts,  \* the active rows of the discounts table
          ask,        \* [from, to, trip, group]
          pc,         \* where the calculation is
          fromRoutes, \* what findRoutesContainingStation found, in the order it came
          toRoutes,
          legs,       \* routeSegments: [route, from, to, count], count 0 until known
          quote       \* [total, rates]: the price and the rates that were read

fareVars == <<net, fares, discounts, ask, pc, fromRoutes, toRoutes, legs, quote>>
world == <<net, fares, discounts>>

None == [total |-> -1, rates |-> FullRates]

FareInit ==
    /\ net \in Networks /\ fares \in FareTables /\ discounts \in DiscountTables
    /\ ask = <<>> /\ pc = "idle"
    /\ fromRoutes = <<>> /\ toRoutes = <<>> /\ legs = <<>> /\ quote = None

-----------------------------------------------------------------------------
(* The request.                                                            *)

\* calculateTotalPriceForPassengers, up to its checks.
Ask(from, to, trip, group) ==
    /\ pc = "idle"
    /\ ask' = [from |-> from, to |-> to, trip |-> trip, group |-> group]
    /\ pc' = IF from = to \/ (\A t \in Types : group[t] = 0) THEN "failed" ELSE "find"
    /\ UNCHANGED <<world, fromRoutes, toRoutes, legs, quote>>

\* The answer is sent; nothing of the calculation is kept.
Return ==
    /\ pc \in {"quoted", "failed"}
    /\ ask' = <<>> /\ pc' = "idle"
    /\ fromRoutes' = <<>> /\ toRoutes' = <<>> /\ legs' = <<>> /\ quote' = None
    /\ UNCHANGED world

\* An error that nothing on the way up catches.
Fails ==
    /\ pc' = "failed"
    /\ UNCHANGED <<world, ask, fromRoutes, toRoutes, legs, quote>>

-----------------------------------------------------------------------------
(* Finding the routes.                                                     *)

Serving(station) == {id \in DOMAIN net : station \in ToSet(net[id])}

Orders(ids) == UNION {SetToSeqs(found) : found \in SUBSET ids}

\* findRoutesContainingStation for both ends.  A route whose stations do not come is
\* passed over; without a list of routes there are none.  ListRoutes asks for no order.
FindRoutes(foundFrom, foundTo) ==
    /\ pc = "find"
    /\ ToSet(foundFrom) \subseteq Serving(ask.from)
    /\ ToSet(foundTo) \subseteq Serving(ask.to)
    /\ fromRoutes' = foundFrom /\ toRoutes' = foundTo
    /\ pc' = IF foundFrom = <<>> \/ foundTo = <<>> THEN "failed" ELSE "plan"
    /\ UNCHANGED <<world, ask, legs, quote>>

-----------------------------------------------------------------------------
(* Planning the journey.                                                   *)

Unknown == -1
Leg(route, from, to) == [route |-> route, from |-> from, to |-> to, count |-> Unknown]

\* The first element of a sequence that is in a set: filter(...)[0], or find.
FirstIn(seq, set) == seq[Min({i \in DOMAIN seq : seq[i] \in set})]

FindConnections(r1, r2) == ToSet(net[r1]) \cap ToSet(net[r2])

Common_FirstOnly == {fromRoutes[1]} \cap ToSet(toRoutes)
Common == ToSet(fromRoutes) \cap ToSet(toRoutes)

\* planJourney, step 2: the first route of the origin that also serves the destination.
PlanDirect ==
    /\ pc = "plan"
    /\ Common # {}
    /\ legs' = <<Leg(FirstIn(fromRoutes, Common), ask.from, ask.to)>>
    /\ pc' = "count"
    /\ UNCHANGED <<world, ask, fromRoutes, toRoutes, quote>>

\* findBestPath: the origin's first route, and a route of the destination that meets it.
Meeting == {r \in ToSet(toRoutes) : FindConnections(fromRoutes[1], r) # {}}

Connection(r1, r2) == FirstIn(net[r1], FindConnections(r1, r2))

TwoLegs_OwnOrder(r1, r2) ==
    << Leg(r1, ask.from, Connection(r1, r2)), Leg(r2, Connection(r2, r1), ask.to) >>

\* The legs of a path of two routes.  Both look the connection up, in the same order.
TwoLegs(r1, r2) ==
    << Leg(r1, ask.from, Connection(r1, r2)), Leg(r2, Connection(r1, r2), ask.to) >>

\* planJourney, step 3.  A path that does not reach the destination is taken for one
\* leg all the way: its list is never empty, so "No valid path found" is not thrown.
PlanTransfer ==
    /\ pc = "plan"
    /\ Common = {}
    /\ legs' = IF Meeting = {}
               THEN <<Leg(fromRoutes[1], ask.from, ask.to)>>
               ELSE TwoLegs(fromRoutes[1], FirstIn(toRoutes, Meeting))
    /\ pc' = "count"
    /\ UNCHANGED <<world, ask, fromRoutes, toRoutes, quote>>

\* getAllRoutes, whose answer is not used, fails.
PlanFails == pc = "plan" /\ Common = {} /\ Fails

-----------------------------------------------------------------------------
(* Counting stations.                                                      *)

Rides(leg) == {leg.from, leg.to} \subseteq ToSet(net[leg.route])
Position(id, station) == CHOOSE i \in DOMAIN net[id] : net[id][i] = station
Apart_Signed(leg) == Position(leg.route, leg.to) - Position(leg.route, leg.from)

Apart(leg) ==
    LET d == Position(leg.route, leg.to) - Position(leg.route, leg.from)
    IN  IF d < 0 THEN -d ELSE d

\* CalculateStationCount of transport-service counts both ends of the ride ...
Counted(leg) == Apart(leg) + 1
\* ... and calculateStationCount, when it must do it itself, only one of them.
CountedHere(leg) == Apart(leg)
Estimated_Six(leg) == IF leg.from = leg.to THEN 1 ELSE 6
Estimated(leg) == IF leg.from = leg.to THEN 1 ELSE 5

\* calculateStationCount: the direct call, else the stations of the route, else an
\* estimate.  A station that is not on the route fails the first two.
Count(how) ==
    /\ pc = "count"
    /\ \E i \in DOMAIN legs :
         /\ legs[i].count = Unknown
         /\ \A k \in 1..(i - 1) : legs[k].count # Unknown
         /\ how # "estimate" => Rides(legs[i])
         /\ legs' = [legs EXCEPT ![i].count =
                        CASE how = "call"     -> Counted(legs[i])
                          [] how = "here"     -> CountedHere(legs[i])
                          [] how = "estimate" -> Estimated(legs[i])]
    /\ pc' = IF \E i \in DOMAIN legs' : legs'[i].count = Unknown THEN "count" ELSE "price"
    /\ UNCHANGED <<world, ask, fromRoutes, toRoutes, quote>>

-----------------------------------------------------------------------------
(* Pricing.                                                                *)

\* calculateStationBasedPrice, in tenths of the base price.
Tier(count) == 10 + 2 * Cardinality({limit \in {5, 10, 15, 20, 25} : count > limit})

\* calculatePriceForTrip, in halves.
TripFactor(trip) == IF trip = "return" THEN 3 ELSE 2

\* getPassengerMultipliers, in hundredths: what a passenger of a type pays.
Rate(t) ==
    IF t \notin DOMAIN discounts \/ ~discounts[t].valid THEN 100
    ELSE CASE discounts[t].kind = "percentage"   -> 100 - discounts[t].value
           [] discounts[t].kind = "fixed_amount" -> 80
           [] discounts[t].kind = "free"         -> 0
Multipliers == [t \in Types |-> Rate(t)]

\* Math.round(x / 1000) * 1000 of a price in 2000ths of a VND.
Rounded(x) == ((x + 1000000) \div 2000000) * 1000

LegPrice(leg) == fares[leg.route] * Tier(leg.count)

\* Of a journey, which has one leg or two.
LegsPrice(ls) == LegPrice(ls[1]) + IF Len(ls) = 2 THEN LegPrice(ls[2]) ELSE 0

\* What one passenger of a type pays for some legs: rounded once, over all of them.
PricePerPerson(ls, trip, rate) == Rounded(LegsPrice(ls) * TripFactor(trip) * rate)

\* The loop over passengerTypes.
TotalPrice(ls, trip, group, paid) ==
    LET Subtotal(t) == group[t] * PricePerPerson(ls, trip, paid[t])
    IN  Subtotal("adult") + Subtotal("elder") + Subtotal("teenager")
            + Subtotal("child") + Subtotal("student") + Subtotal("senior")

\* calculateJourneyFareForMultiplePassengers: without an answer of the discounts table
\* everybody pays in full; every leg's route needs an active fare.
PriceJourney(paid) ==
    /\ pc = "price"
    /\ \A i \in DOMAIN legs : legs[i].route \in DOMAIN fares
    /\ quote' = [total |-> TotalPrice(legs, ask.trip, ask.group, paid), rates |-> paid]
    /\ pc' = "quoted"
    /\ UNCHANGED <<world, ask, fromRoutes, toRoutes, legs>>

\* A route has no fare, or the fares cannot be read.
PriceFails == pc = "price" /\ Fails

FareNext ==
    \/ \E from, to \in StationsOf(net), trip \in Trips, g \in Groups : Ask(from, to, trip, g)
    \/ \E foundFrom, foundTo \in Orders(DOMAIN net) : FindRoutes(foundFrom, foundTo)
    \/ PlanDirect \/ PlanTransfer \/ PlanFails
    \/ \E how \in {"call", "here", "estimate"} : Count(how)
    \/ \E paid \in {Multipliers, FullRates} : PriceJourney(paid)
    \/ PriceFails \/ Return

FareSpec == FareInit /\ [][FareNext]_fareVars

-----------------------------------------------------------------------------
(* What a price is worth.                                                  *)

Legs(route) == [route : route, from : StationsOf(net), to : StationsOf(net), count : Int]

FareTypeOK ==
    /\ pc \in {"idle", "find", "plan", "count", "price", "quoted", "failed"}
    /\ ToSet(fromRoutes) \cup ToSet(toRoutes) \subseteq DOMAIN net
    /\ Len(legs) <= 2 /\ ToSet(legs) \subseteq Legs(DOMAIN net)
    /\ pc \in {"price", "quoted"} => \A i \in DOMAIN legs : legs[i].count >= 0
    /\ pc = "quoted" <=> quote.total >= 0

\* planJourney: nobody is charged for a change of trains when one route serves both
\* stations, whatever the order of the routes, unless a call to transport-service failed.
NoNeedlessTransfer ==
    /\ pc \in {"count", "price", "quoted"}
    /\ ToSet(fromRoutes) = Serving(ask.from) /\ ToSet(toRoutes) = Serving(ask.to)
    /\ Serving(ask.from) \cap Serving(ask.to) # {}
    => Len(legs) = 1 /\ Rides(legs[1])

RidesFrom(from, to) ==
    /\ legs[1].from = from /\ legs[Len(legs)].to = to
    /\ \A i \in DOMAIN legs : Rides(legs[i])
    /\ \A i \in 1..(Len(legs) - 1) : legs[i].to = legs[i + 1].from

\* The legs that are charged are a ride from the origin to the destination, each leg on
\* its own route and each beginning where the one before ended, also when calls failed:
\* unless the first route found at the origin meets none of those at the destination.
LegsAreARide ==
    /\ legs # <<>>
    /\ \E r \in ToSet(toRoutes) :
          r \in ToSet(fromRoutes) \/ FindConnections(fromRoutes[1], r) # {}
    => RidesFrom(ask.from, ask.to)

\* The estimates that stand in for failed calls cost the operator and never the
\* passenger: with the discounts read, no price is above that of the stations there are.
FailureFavoursPassenger ==
    /\ pc = "quoted" /\ quote.rates = Multipliers
    /\ \A i \in DOMAIN legs : Rides(legs[i])
    => quote.total <= TotalPrice([i \in DOMAIN legs |->
                                    [legs[i] EXCEPT !.count = Counted(legs[i])]],
                                 ask.trip, ask.group, Multipliers)
=============================================================================
