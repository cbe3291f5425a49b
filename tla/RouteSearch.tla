----------------------------- MODULE RouteSearch -----------------------------
(***************************************************************************)
(* The transport service's answer to "how do I get from here to there":    *)
(* findShortestPathWithTransfers, a Dijkstra search over pairs of a        *)
(* station and the route it was reached by.  A step costs 1, a step on     *)
(* another route than the last one costs the transfer penalty as well.     *)
(***************************************************************************)
EXTENDS Integers, Sequences, FiniteSets

CONSTANTS
    Stations,
    Routes,
    NoRoute,       \* the route of the origin, before the first step
    Tables,        \* what the RouteStations table may hold: each route's stations, by sequence
    Penalties      \* transfer penalties a client may ask for

\* A penalty below -1 makes steps of negative cost, which the search is not made for.
ASSUME FiniteAssumption == IsFiniteSet(Stations) /\ IsFiniteSet(Routes)
ASSUME NoneAssumption == NoRoute \notin Routes
ASSUME TablesAssumption == Tables \subseteq [Routes -> Seq(Stations)]
ASSUME PenaltiesAssumption == Penalties \subseteq {p \in Int : p >= -1}

VARIABLES
    lines,         \* the table
    phase,         \* of the search
    origin,        \* originStationId
    destination,   \* destinationStationId
    penalty,       \* transferPenalty
    heap,          \* the nodes of MinHeap
    dist,          \* the cheapest cost known of each key seen
    prev,          \* the key it was reached from
    goal           \* bestKeyAtDestination

query == <<origin, destination, penalty>>
searchVars == <<lines, phase, query, heap, dist, prev, goal>>

Key == [station : Stations, route : Routes \cup {NoRoute}]
Start == [station |-> origin, route |-> NoRoute]
At(s, r) == [station |-> s, route |-> r]

\* Consecutive stations of a route are joined, both ways.
Joined(a, b, r) ==
    \E i \in 1..Len(lines[r]) - 1 :
        \/ lines[r][i] = a /\ lines[r][i + 1] = b
        \/ lines[r][i] = b /\ lines[r][i + 1] = a

\* The keys one step away from key k.
Onward(k) == {n \in [station : Stations, route : Routes] : Joined(k.station, n.station, n.route)}

Served(s) == \E r \in Routes, t \in Stations : Joined(s, t, r)

\* Mutant: boarding the first route is charged like a transfer.
Weight_FirstBoarding(k, r) == IF k.route # r THEN 1 + penalty ELSE 1

Weight(k, r) == IF k.route # NoRoute /\ k.route # r THEN 1 + penalty ELSE 1

Node(k, d) == [key |-> k, dist |-> d]

NoCosts == [k \in {} |-> 0]

SearchTypeOK ==
    /\ lines \in Tables
    /\ phase \in {"idle", "searching", "found", "unreachable"}
    /\ origin \in Stations /\ destination \in Stations /\ penalty \in Penalties
    /\ DOMAIN dist \subseteq Key
    /\ dist \in [DOMAIN dist -> Nat]
    /\ heap \subseteq [key : DOMAIN dist, dist : Nat]
    /\ prev \in [DOMAIN prev -> DOMAIN dist]
    /\ DOMAIN prev \subseteq DOMAIN dist
    /\ goal \in Key
    /\ phase = "found" => goal \in DOMAIN dist

SearchInit ==
    /\ lines \in Tables
    /\ phase = "idle"
    /\ origin \in Stations /\ destination \in Stations /\ penalty \in Penalties
    /\ heap = {}
    /\ dist = NoCosts
    /\ prev = NoCosts
    /\ goal = Start

-----------------------------------------------------------------------------

\* The table is read once; the rest happens without an await.
FindShortestPath(o, d, p) ==
    /\ phase = "idle"
    /\ origin' = o /\ destination' = d /\ penalty' = p
    /\ goal' = At(o, NoRoute)
    /\ IF Served(o) /\ Served(d)
       THEN /\ phase' = "searching"
            /\ heap' = {Node(At(o, NoRoute), 0)}
            /\ dist' = [k \in {At(o, NoRoute)} |-> 0]
       ELSE /\ phase' = "unreachable"
            /\ UNCHANGED <<heap, dist>>
    /\ UNCHANGED <<lines, prev>>

\* The top of the heap: of several nodes at the same cost, any.
Top(n) == n \in heap /\ \A m \in heap : n.dist <= m.dist

Stale(n) == n.dist # dist[n.key]

SkipStale(n) ==
    /\ phase = "searching" /\ Top(n) /\ Stale(n)
    /\ heap' = heap \ {n}
    /\ UNCHANGED <<lines, phase, query, dist, prev, goal>>

Arrive(n) ==
    /\ phase = "searching" /\ Top(n) /\ ~Stale(n)
    /\ n.key.station = destination
    /\ phase' = "found"
    /\ goal' = n.key
    /\ heap' = heap \ {n}
    /\ UNCHANGED <<lines, query, dist, prev>>

\* Mutant: a key seen before keeps its first cost.
Improves_OnlyNew(n, k) == k \notin DOMAIN dist

\* Mutant: an equal cost counts as better.
Improves_OrEqual(n, k) == k \in DOMAIN dist => n.dist + Weight(n.key, k.route) <= dist[k]

Improves(n, k) == k \in DOMAIN dist => n.dist + Weight(n.key, k.route) < dist[k]

Improved(n) == {k \in Onward(n.key) : Improves(n, k)}

\* The edges of a node, each against the cost known so far.
Relax(n) ==
    /\ phase = "searching" /\ Top(n) /\ ~Stale(n)
    /\ n.key.station # destination
    /\ LET Cost(k) == n.dist + Weight(n.key, k.route)
       IN  /\ dist' = [k \in DOMAIN dist \cup Improved(n) |->
                          IF k \in Improved(n) THEN Cost(k) ELSE dist[k]]
           /\ prev' = [k \in DOMAIN prev \cup Improved(n) |->
                          IF k \in Improved(n) THEN n.key ELSE prev[k]]
           /\ heap' = (heap \ {n}) \cup {Node(k, Cost(k)) : k \in Improved(n)}
    /\ UNCHANGED <<lines, phase, query, goal>>

Exhausted ==
    /\ phase = "searching" /\ heap = {}
    /\ phase' = "unreachable"
    /\ UNCHANGED <<lines, query, heap, dist, prev, goal>>

\* The answer is sent; the maps were local.
Answer ==
    /\ phase \in {"found", "unreachable"}
    /\ phase' = "idle"
    /\ heap' = {} /\ dist' = NoCosts /\ prev' = NoCosts
    /\ UNCHANGED <<lines, query, goal>>

SearchStep == Exhausted \/ \E n \in heap : SkipStale(n) \/ Arrive(n) \/ Relax(n)

SearchNext ==
    \/ \E o, d \in Stations, p \in Penalties : FindShortestPath(o, d, p)
    \/ SearchStep
    \/ Answer

SearchSpec == SearchInit /\ [][SearchNext]_searchVars

\* The loop runs until it ends.
SearchFairness == WF_searchVars(SearchStep)

SearchLiveSpec == SearchSpec /\ SearchFairness

-----------------------------------------------------------------------------
(* The answer.                                                             *)

\* The last keys of the path, and the key they were reached from, if any.
WithPrevious(keys) == IF Head(keys) \in DOMAIN prev THEN <<prev[Head(keys)]>> \o keys ELSE keys

Back[i \in Nat] == IF i = 0 THEN <<goal>> ELSE WithPrevious(Back[i - 1])

\* The keys from the origin to the goal, following prev.
Path == Back[Cardinality(DOMAIN prev)]

Transfers(path) ==
    Cardinality({i \in 2..Len(path) : path[i - 1].route # NoRoute /\ path[i].route # path[i - 1].route})

\* The reference: what keys can be reached at what cost, in at most i steps.
WithNext(nodes) ==
    nodes \cup UNION {{Node(k, n.dist + Weight(n.key, k.route)) : k \in Onward(n.key)} : n \in nodes}

Within[i \in Nat] == IF i = 0 THEN {Node(Start, 0)} ELSE WithNext(Within[i - 1])

Reached == Within[Cardinality(Stations) + 1]

Fares == {n.dist : n \in {m \in Reached : m.key.station = destination}}

\* No way there is cheaper than the answer, and there is none if it says so; an origin
\* that is the destination is found only if a route serves it.
FoundIsCheapest ==
    /\ phase = "found" => \A fare \in Fares : dist[goal] <= fare
    /\ phase = "unreachable" => Fares \subseteq {0}

\* The path in the answer is a ride: it leads from the origin to the destination, each step
\* joins two stations of its route, and the cost beside it is its steps and the penalties
\* of its transfers.
PathIsARide ==
    phase = "found" =>
        /\ Path[1] = Start /\ Path[Len(Path)].station = destination
        /\ \A i \in 2..Len(Path) : Path[i] \in Onward(Path[i - 1])
        /\ dist[goal] = Len(Path) - 1 + penalty * Transfers(Path)

\* A search ends.
SearchEnds == phase = "searching" ~> phase # "searching"
=============================================================================
