-------------------------- MODULE RouteSearchProofs --------------------------
(***************************************************************************)
(* What holds of the path search for every network, query and penalty of   *)
(* at least -1: its maps are well-typed, the answer is the cheapest of all *)
(* rides, however long, the path it answers with is such a ride, and when  *)
(* it says that there is none there is none.                               *)
(* A ride is a sequence of nodes, each with its cost; statements about all *)
(* of them are proved by taking the first node at which they would fail.   *)
(***************************************************************************)
EXTENDS RouteSearch, FiniteSetTheorems, SequenceTheorems, WellFoundedInduction, TLAPS

USE DEF query, searchVars

LEMMA WeightNatural ==
    ASSUME PenaltiesAssumption, penalty \in Penalties, NEW k, NEW r
    PROVE  Weight(k, r) \in Nat
BY DEF Weight, PenaltiesAssumption

-----------------------------------------------------------------------------
(* Types.                                                                  *)

Idle == phase = "idle" => heap = {} /\ dist = NoCosts /\ prev = NoCosts

Types == SearchTypeOK /\ Idle

LEMMA TypesInit == ASSUME SearchInit PROVE Types
BY DEF SearchInit, Types, Idle, SearchTypeOK, NoCosts, Start, Key

LEMMA TypesFind ==
    ASSUME Types, NEW o \in Stations, NEW d \in Stations, NEW p \in Penalties,
           FindShortestPath(o, d, p)
    PROVE  Types'
<1>1. At(o, NoRoute) \in Key
  BY DEF At, Key
<1>2. lines' \in Tables /\ origin' \in Stations /\ destination' \in Stations
      /\ penalty' \in Penalties /\ goal' \in Key /\ phase' \in {"searching", "unreachable"}
  BY <1>1 DEF FindShortestPath, Types, SearchTypeOK
<1>3. prev' = NoCosts /\ prev = NoCosts /\ dist = NoCosts /\ heap = {}
  BY DEF FindShortestPath, Types, Idle
<1>4. CASE Served(o) /\ Served(d)
  <2>1. dist' = [k \in {At(o, NoRoute)} |-> 0] /\ heap' = {Node(At(o, NoRoute), 0)}
    BY <1>4 DEF FindShortestPath
  <2>2. heap' \subseteq [key : DOMAIN dist', dist : Nat]
    BY <2>1 DEF Node
  <2> QED BY <1>1, <1>2, <1>3, <2>1, <2>2 DEF Types, SearchTypeOK, Idle, NoCosts
<1>5. CASE ~(Served(o) /\ Served(d))
  <2>1. dist' = NoCosts /\ heap' = {}
    BY <1>3, <1>5 DEF FindShortestPath
  <2> QED BY <1>2, <1>3, <2>1 DEF Types, SearchTypeOK, Idle, NoCosts
<1> QED BY <1>4, <1>5

LEMMA TypesRelax ==
    ASSUME Types, PenaltiesAssumption, NEW n \in heap, Relax(n)
    PROVE  Types'
<1> DEFINE Cost(k) == n.dist + Weight(n.key, k.route)
<1> DEFINE I == Improved(n)
<1>1. n.key \in DOMAIN dist /\ n.dist \in Nat
  BY DEF Types, SearchTypeOK
<1>2. I \subseteq Key
  BY DEF Improved, Onward, Key
<1>3. \A k : Cost(k) \in Nat
  BY <1>1, WeightNatural DEF Types, SearchTypeOK
<1>4. /\ dist' = [k \in DOMAIN dist \cup I |-> IF k \in I THEN Cost(k) ELSE dist[k]]
      /\ prev' = [k \in DOMAIN prev \cup I |-> IF k \in I THEN n.key ELSE prev[k]]
      /\ heap' = (heap \ {n}) \cup {Node(k, Cost(k)) : k \in I}
      /\ UNCHANGED <<lines, phase, query, goal>>
      /\ phase = "searching"
  BY DEF Relax
<1> HIDE DEF I, Cost
<1>5. DOMAIN dist' = DOMAIN dist \cup I
  BY <1>4
<1>6. dist' \in [DOMAIN dist' -> Nat]
  BY <1>3, <1>4, <1>5 DEF Types, SearchTypeOK
<1>7. heap' \subseteq [key : DOMAIN dist', dist : Nat]
  BY <1>3, <1>4, <1>5 DEF Types, SearchTypeOK, Node
<1>8. prev' \in [DOMAIN prev' -> DOMAIN dist'] /\ DOMAIN prev' \subseteq DOMAIN dist'
  BY <1>1, <1>4, <1>5 DEF Types, SearchTypeOK
<1>9. DOMAIN dist' \subseteq Key
  BY <1>2, <1>5 DEF Types, SearchTypeOK
<1> QED BY <1>4, <1>5, <1>6, <1>7, <1>8, <1>9 DEF Types, SearchTypeOK, Idle

LEMMA TypesStep ==
    ASSUME Types, PenaltiesAssumption, [SearchNext]_searchVars
    PROVE  Types'
<1>1. CASE UNCHANGED searchVars
  BY <1>1 DEF Types, SearchTypeOK, Idle, Start
<1>2. ASSUME NEW o \in Stations, NEW d \in Stations, NEW p \in Penalties,
             FindShortestPath(o, d, p)
      PROVE  Types'
  BY <1>2, TypesFind
<1>3. CASE Exhausted
  BY <1>3 DEF Exhausted, Types, SearchTypeOK, Idle
<1>4. ASSUME NEW n \in heap, SkipStale(n)
      PROVE  Types'
  BY <1>4 DEF SkipStale, Types, SearchTypeOK, Idle
<1>5. ASSUME NEW n \in heap, Arrive(n)
      PROVE  Types'
  BY <1>5 DEF Arrive, Types, SearchTypeOK, Idle
<1>6. ASSUME NEW n \in heap, Relax(n)
      PROVE  Types'
  BY <1>6, TypesRelax
<1>7. CASE Answer
  BY <1>7 DEF Answer, Types, SearchTypeOK, Idle, NoCosts
<1> QED BY <1>1, <1>2, <1>3, <1>4, <1>5, <1>6, <1>7 DEF SearchNext, SearchStep

LEMMA TypesAlways == ASSUME PenaltiesAssumption PROVE SearchSpec => []Types
BY TypesInit, TypesStep, PTL DEF SearchSpec

\* The maps, the heap and the query of findShortestPathWithTransfers have their types in
\* every state, whatever the table holds and whoever asks.
THEOREM TypeCorrect == SearchSpec => []SearchTypeOK
<1>1. SearchSpec => []Types
  BY PenaltiesAssumption, TypesAlways
<1> QED BY <1>1, PTL DEF Types

-----------------------------------------------------------------------------
(* The labels of the search.                                               *)

\* What was taken off the heap with its last cost.
Settled == {k \in DOMAIN dist : Node(k, dist[k]) \notin heap}

\* Every step from key k has been weighed against the costs known.
Relaxed(k) ==
    \A j \in Onward(k) : j \in DOMAIN dist /\ dist[j] <= dist[k] + Weight(k, j.route)

\* The search's own invariant: the origin costs nothing; a node on the heap is never
\* cheaper than its key's cost, nor than any settled key; settled keys short of the
\* destination are relaxed; a key of the destination is settled only as the goal.
Labels ==
    /\ Start \in DOMAIN dist /\ dist[Start] = 0
    /\ \A n \in heap : dist[n.key] <= n.dist
    /\ \A k \in Settled, n \in heap : dist[k] <= n.dist
    /\ \A k \in Settled : k.station # destination => Relaxed(k)
    /\ \A k \in Settled : k.station = destination => phase = "found" /\ k = goal
    /\ phase = "found" => goal \in Settled /\ goal.station = destination

Sound ==
    /\ phase \in {"searching", "found"} => Labels
    /\ phase = "unreachable" =>
          (heap = {} /\ Labels) \/ ~Served(origin) \/ ~Served(destination)

LEMMA SoundInit == ASSUME SearchInit PROVE Sound
BY DEF SearchInit, Sound

LEMMA SoundFind ==
    ASSUME Types, NEW o \in Stations, NEW d \in Stations, NEW p \in Penalties,
           FindShortestPath(o, d, p)
    PROVE  Sound'
<1>1. lines' = lines /\ origin' = o /\ destination' = d
  BY DEF FindShortestPath
<1>2. CASE Served(o) /\ Served(d)
  <2> DEFINE s == At(o, NoRoute)
  <2>1. /\ dist' = [k \in {s} |-> 0] /\ heap' = {Node(s, 0)} /\ phase' = "searching"
    BY <1>2 DEF FindShortestPath
  <2>2. Start' = s
    BY <1>1 DEF Start, At
  <2>3. dist'[s] = 0 /\ DOMAIN dist' = {s}
    BY <2>1
  <2>4. Settled' = {}
    BY <2>1, <2>3 DEF Settled
  <2>5. \A n \in heap' : n.key = s /\ n.dist = 0
    BY <2>1 DEF Node
  <2>6. Labels'
    BY <2>1, <2>2, <2>3, <2>4, <2>5 DEF Labels
  <2> QED BY <2>1, <2>6 DEF Sound
<1>3. CASE ~(Served(o) /\ Served(d))
  <2>1. phase' = "unreachable"
    BY <1>3 DEF FindShortestPath
  <2>2. (Served(origin) <=> Served(o))' /\ Served(o)' = Served(o) /\ Served(d)' = Served(d)
    BY <1>1 DEF Served, Joined
  <2>3. ~Served(origin)' \/ ~Served(destination)'
    BY <1>1, <1>3 DEF Served, Joined
  <2> QED BY <2>1, <2>3 DEF Sound
<1> QED BY <1>2, <1>3

LEMMA SoundSkip ==
    ASSUME Types, Sound, NEW n \in heap, SkipStale(n)
    PROVE  Sound'
<1>1. /\ phase = "searching" /\ n.dist # dist[n.key] /\ heap' = heap \ {n}
      /\ UNCHANGED <<lines, phase, origin, destination, penalty, dist, prev, goal>>
  BY DEF SkipStale, Stale
<1>2. Labels
  BY <1>1 DEF Sound
<1>3. \A k \in DOMAIN dist : Node(k, dist[k]) # n
  BY <1>1 DEF Node
<1>4. Settled' = Settled
  BY <1>1, <1>3 DEF Settled
<1>5. \A k : Relaxed(k)' <=> Relaxed(k)
  BY <1>1 DEF Relaxed, Onward, Joined, Weight
<1>6. Start' = Start
  BY <1>1 DEF Start
<1>7. Labels'
  BY <1>1, <1>2, <1>4, <1>5, <1>6 DEF Labels
<1> QED BY <1>1, <1>7 DEF Sound

LEMMA SoundArrive ==
    ASSUME Types, Sound, NEW n \in heap, Arrive(n)
    PROVE  Sound'
<1>1. /\ phase = "searching" /\ Top(n) /\ n.dist = dist[n.key] /\ heap' = heap \ {n}
      /\ n.key.station = destination /\ phase' = "found" /\ goal' = n.key
      /\ UNCHANGED <<lines, origin, destination, penalty, dist, prev>>
  BY DEF Arrive, Stale
<1>2. Labels
  BY <1>1 DEF Sound
<1>3. n.key \in DOMAIN dist /\ n = Node(n.key, n.dist)
  BY DEF Types, SearchTypeOK, Node
<1>4. Settled' = Settled \cup {n.key}
  BY <1>1, <1>3 DEF Settled, Node
<1>5. \A k : Relaxed(k)' <=> Relaxed(k)
  BY <1>1 DEF Relaxed, Onward, Joined, Weight
<1>6. Start' = Start
  BY <1>1 DEF Start
<1>7. \A k \in Settled', m \in heap' : dist'[k] <= m.dist
  BY <1>1, <1>2, <1>4 DEF Labels, Top
<1>8. \A k \in Settled : k.station # destination
  BY <1>1, <1>2 DEF Labels
<1>9. Labels'
  BY <1>1, <1>2, <1>4, <1>5, <1>6, <1>7, <1>8 DEF Labels
<1> QED BY <1>1, <1>9 DEF Sound

\* Relaxing settles its node, and the settled keep their costs.
LEMMA RelaxSettles ==
    ASSUME Types, Sound, PenaltiesAssumption, NEW n \in heap, Relax(n)
    PROVE  /\ n.dist = dist[n.key]
           /\ Settled' = Settled \cup {n.key}
           /\ \A k \in Settled \cup {n.key} :
                 k \in DOMAIN dist /\ k \notin Improved(n) /\ dist'[k] = dist[k]
<1> DEFINE Cost(k) == n.dist + Weight(n.key, k.route)
<1> DEFINE I == Improved(n)
<1>1. /\ phase = "searching" /\ n.dist = dist[n.key]
      /\ dist' = [k \in DOMAIN dist \cup I |-> IF k \in I THEN Cost(k) ELSE dist[k]]
      /\ heap' = (heap \ {n}) \cup {Node(k, Cost(k)) : k \in I}
  BY DEF Relax, Stale
<1>2. \A k \in Settled : dist[k] <= n.dist
  BY <1>1 DEF Sound, Labels
<1>3. /\ n.key \in DOMAIN dist /\ n.dist \in Nat /\ n = Node(n.key, n.dist)
      /\ dist \in [DOMAIN dist -> Nat]
  BY DEF Types, SearchTypeOK, Node
<1>4. \A k : Cost(k) \in Nat /\ n.dist <= Cost(k)
  BY <1>3, WeightNatural DEF Types, SearchTypeOK
<1>5. \A k \in I : k \in DOMAIN dist => Cost(k) < dist[k]
  BY DEF Improved, Improves
<1>6. n.key \notin I
  BY <1>1, <1>3, <1>4, <1>5
<1>7. \A k \in Settled : k \notin I
  BY <1>2, <1>3, <1>4, <1>5 DEF Settled
<1>8. Settled' = Settled \cup {n.key}
  <2>1. ASSUME NEW k \in DOMAIN dist', k \in I
        PROVE  k \notin Settled'
    BY <1>1, <2>1 DEF Settled
  <2>2. ASSUME NEW k \in DOMAIN dist', k \notin I
        PROVE  /\ k \in DOMAIN dist /\ dist'[k] = dist[k]
               /\ Node(k, dist[k]) \in heap' <=> Node(k, dist[k]) \in heap \ {n}
    BY <1>1, <2>2 DEF Node
  <2>3. \A k \in DOMAIN dist : Node(k, dist[k]) = n <=> k = n.key
    BY <1>1, <1>3 DEF Node
  <2>4. n.key \in DOMAIN dist' /\ Settled \subseteq DOMAIN dist'
    BY <1>1, <1>3 DEF Settled
  <2> QED BY <1>6, <1>7, <2>1, <2>2, <2>3, <2>4 DEF Settled
<1> HIDE DEF I, Cost
<1>9. \A k \in Settled \cup {n.key} : k \in DOMAIN dist /\ k \notin I /\ dist'[k] = dist[k]
  BY <1>1, <1>3, <1>6, <1>7 DEF Settled
<1> QED BY <1>1, <1>8, <1>9 DEF I

LEMMA SoundRelax ==
    ASSUME Types, Sound, PenaltiesAssumption, NoneAssumption, NEW n \in heap, Relax(n)
    PROVE  Sound'
<1> DEFINE Cost(k) == n.dist + Weight(n.key, k.route)
<1> DEFINE I == Improved(n)
<1>1. /\ phase = "searching" /\ Top(n) /\ n.dist = dist[n.key]
      /\ n.key.station # destination
      /\ dist' = [k \in DOMAIN dist \cup I |-> IF k \in I THEN Cost(k) ELSE dist[k]]
      /\ heap' = (heap \ {n}) \cup {Node(k, Cost(k)) : k \in I}
      /\ UNCHANGED <<lines, phase, origin, destination, penalty, goal>>
  BY DEF Relax, Stale
<1>2. Labels
  BY <1>1 DEF Sound
<1>3. /\ n.key \in DOMAIN dist /\ n.dist \in Nat /\ n = Node(n.key, n.dist)
      /\ dist \in [DOMAIN dist -> Nat]
      /\ \A m \in heap : m.key \in DOMAIN dist /\ m.dist \in Nat
  BY DEF Types, SearchTypeOK, Node
<1>4. \A k, r : Weight(k, r) \in Nat /\ Weight(k, r)' = Weight(k, r)
  BY <1>1, WeightNatural DEF Types, SearchTypeOK, Weight
<1>5. \A k : Cost(k) \in Nat /\ n.dist <= Cost(k)
  BY <1>3, <1>4
<1>6. \A k \in I : k \in Onward(n.key) /\ (k \in DOMAIN dist => Cost(k) < dist[k])
  BY DEF Improved, Improves
<1>7. \A k \in Onward(n.key) \ I : k \in DOMAIN dist /\ dist[k] <= Cost(k)
  BY <1>3, <1>5 DEF Improved, Improves
<1>8. Start' = Start /\ \A k : Onward(k)' = Onward(k)
  BY <1>1 DEF Start, Onward, Joined
<1>9. Start \notin I
  BY <1>6, NoneAssumption DEF Start, Onward
<1>10. \A k \in DOMAIN dist : k \in DOMAIN dist' /\ dist'[k] \in Nat /\ dist'[k] <= dist[k]
  BY <1>1, <1>3, <1>5, <1>6
<1>11. Settled' = Settled \cup {n.key}
  BY RelaxSettles
<1>12. \A k \in Settled \cup {n.key} : k \in DOMAIN dist /\ dist'[k] = dist[k]
  BY RelaxSettles
<1> HIDE DEF I, Cost
<1>13. \A k \in Settled \cup {n.key} : k \in DOMAIN dist /\ dist'[k] = dist[k] /\ dist[k] <= n.dist
  <2>1. \A k \in Settled : dist[k] <= n.dist
    BY <1>2 DEF Labels
  <2>2. n.dist = dist[n.key] /\ n.dist \in Nat
    BY <1>1, <1>3
  <2> QED BY <1>12, <2>1, <2>2
<1>14. \A m \in heap' : n.dist <= m.dist /\ m.dist \in Nat
  BY <1>1, <1>3, <1>5 DEF Top, Node
<1>15. \A m \in heap' : dist'[m.key] <= m.dist
  <2>1. ASSUME NEW m \in heap
        PROVE  dist'[m.key] <= m.dist
    BY <1>2, <1>3, <1>10 DEF Labels
  <2>2. ASSUME NEW k \in I
        PROVE  dist'[k] <= Cost(k)
    BY <1>1, <1>5
  <2>3. \A k \in I : Node(k, Cost(k)).key = k /\ Node(k, Cost(k)).dist = Cost(k)
    BY DEF Node
  <2>4. \A m \in heap' : m \in heap \/ \E k \in I : m = Node(k, Cost(k))
    BY <1>1
  <2> QED BY <2>1, <2>2, <2>3, <2>4
<1>16. \A k \in Settled', m \in heap' : dist'[k] <= m.dist
  BY <1>3, <1>11, <1>13, <1>14
<1>17. \A k \in Settled' : k.station # destination' => Relaxed(k)'
  <2>1. ASSUME NEW k \in Settled, k.station # destination, NEW j \in Onward(k)
        PROVE  j \in DOMAIN dist' /\ dist'[j] <= dist'[k] + Weight(k, j.route)
    <3>1. j \in DOMAIN dist /\ dist[j] <= dist[k] + Weight(k, j.route)
      BY <1>2, <2>1 DEF Labels, Relaxed
    <3>2. dist'[k] = dist[k] /\ k \in DOMAIN dist
      BY <1>13
    <3> QED BY <1>3, <1>4, <1>10, <3>1, <3>2
  <2>2. ASSUME NEW j \in Onward(n.key)
        PROVE  j \in DOMAIN dist' /\ dist'[j] <= dist'[n.key] + Weight(n.key, j.route)
    <3>1. dist'[n.key] + Weight(n.key, j.route) = Cost(j)
      BY <1>1, <1>13 DEF Cost
    <3>2. CASE j \in I
      BY <1>1, <1>5, <3>1, <3>2
    <3>3. CASE j \notin I
      BY <1>1, <1>7, <3>1, <3>3
    <3> QED BY <3>2, <3>3
  <2> QED BY <1>1, <1>4, <1>8, <1>11, <2>1, <2>2 DEF Relaxed
<1>18. \A k \in Settled' : k.station # destination'
  BY <1>1, <1>2, <1>11 DEF Labels
<1>19. Start' \in DOMAIN dist' /\ dist'[Start'] = 0
  BY <1>1, <1>2, <1>8, <1>9 DEF Labels
<1>20. Labels'
  BY <1>1, <1>15, <1>16, <1>17, <1>18, <1>19 DEF Labels
<1> QED BY <1>1, <1>20 DEF Sound

LEMMA SoundStep ==
    ASSUME Types, Sound, PenaltiesAssumption, NoneAssumption, [SearchNext]_searchVars
    PROVE  Sound'
<1>1. ASSUME UNCHANGED <<lines, origin, destination, penalty, heap, dist, goal>>
      PROVE  /\ Labels' <=> /\ Start \in DOMAIN dist /\ dist[Start] = 0
                            /\ \A n \in heap : dist[n.key] <= n.dist
                            /\ \A k \in Settled, n \in heap : dist[k] <= n.dist
                            /\ \A k \in Settled : k.station # destination => Relaxed(k)
                            /\ \A k \in Settled : k.station = destination
                                  => phase' = "found" /\ k = goal
                            /\ phase' = "found" => goal \in Settled /\ goal.station = destination
             /\ Served(origin)' <=> Served(origin)
             /\ Served(destination)' <=> Served(destination)
  <2>1. Settled' = Settled /\ Start' = Start
    BY <1>1 DEF Settled, Start
  <2>2. \A k : Relaxed(k)' <=> Relaxed(k)
    BY <1>1 DEF Relaxed, Onward, Joined, Weight
  <2>3. (Served(origin)' <=> Served(origin)) /\ (Served(destination)' <=> Served(destination))
    BY <1>1 DEF Served, Joined
  <2> QED BY <1>1, <2>1, <2>2, <2>3 DEF Labels
<1>2. CASE UNCHANGED searchVars
  BY <1>1, <1>2 DEF Sound, Labels
<1>3. ASSUME NEW o \in Stations, NEW d \in Stations, NEW p \in Penalties,
             FindShortestPath(o, d, p)
      PROVE  Sound'
  BY <1>3, SoundFind
<1>4. CASE Exhausted
  BY <1>1, <1>4 DEF Exhausted, Sound, Labels
<1>5. ASSUME NEW n \in heap, SkipStale(n)
      PROVE  Sound'
  BY <1>5, SoundSkip
<1>6. ASSUME NEW n \in heap, Arrive(n)
      PROVE  Sound'
  BY <1>6, SoundArrive
<1>7. ASSUME NEW n \in heap, Relax(n)
      PROVE  Sound'
  BY <1>7, SoundRelax
<1>8. CASE Answer
  BY <1>8 DEF Answer, Sound
<1> QED BY <1>2, <1>3, <1>4, <1>5, <1>6, <1>7, <1>8 DEF SearchNext, SearchStep

-----------------------------------------------------------------------------
(* All rides.                                                              *)

\* A ride in progress: it begins at the origin for nothing, and every node is one step
\* from the one before it and dearer by the weight of that step.
IsRide(w) ==
    /\ w \in Seq([key : Key, dist : Nat]) /\ w # << >>
    /\ w[1] = Node(Start, 0)
    /\ \A i \in 1..Len(w) - 1 :
          /\ w[i + 1].key \in Onward(w[i].key)
          /\ w[i + 1].dist = w[i].dist + Weight(w[i].key, w[i + 1].key.route)

Ends(w) == w[Len(w)]

NoRideIsCheaper ==
    phase = "found" =>
        \A w : IsRide(w) /\ Ends(w).key.station = destination => dist[goal] <= Ends(w).dist

NoRideIsMissed ==
    phase = "unreachable" =>
        \A w : IsRide(w) /\ Len(w) > 1 => Ends(w).key.station # destination

LEMMA LeastNumber ==
    ASSUME NEW T, T \subseteq Nat, T # {}
    PROVE  \E x \in T : \A y \in T : x <= y
<1> DEFINE R == OpToRel(<, Nat)
<1>1. IsWellFoundedOn(R, Nat)
  BY NatLessThanWellFounded
<1>2. PICK x \in T : \A y \in T : <<y, x>> \notin R
  <2> HIDE DEF R
  <2> QED BY <1>1, WFMin
<1>3. \A y \in T : ~(y < x)
  BY <1>2 DEF OpToRel
<1> QED BY <1>3

LEMMA RideNodes ==
    ASSUME NEW w, IsRide(w)
    PROVE  /\ Len(w) \in Nat /\ Len(w) >= 1
           /\ \A j \in 1..Len(w) : w[j].key \in Key /\ w[j].dist \in Nat
<1> DEFINE S == [key : Key, dist : Nat]
<1>1. w \in Seq(S) /\ w # << >>
  BY DEF IsRide
<1>2. Len(w) \in Nat /\ Len(w) >= 1 /\ \A j \in 1..Len(w) : w[j] \in S
  <2> HIDE DEF S
  <2> QED BY <1>1
<1> QED BY <1>2

\* At every node of a ride the search either knows the node's key as cheaply and has
\* settled it, or everything on its heap, and so the goal, is no dearer than the node.
LEMMA RideIsFollowed ==
    ASSUME Types, Labels, PenaltiesAssumption, NEW w, IsRide(w),
           NEW b \in Nat, \A n \in heap : b <= n.dist,
           NEW i \in 1..Len(w),
           \A k \in Settled : k.station = destination => b <= dist[k]
    PROVE  b <= w[i].dist \/ (w[i].key \in Settled /\ dist[w[i].key] <= w[i].dist)
<1> DEFINE Ok(j) == b <= w[j].dist \/ (w[j].key \in Settled /\ dist[w[j].key] <= w[j].dist)
<1> DEFINE Bad == {j \in 1..Len(w) : ~Ok(j)}
<1>1. Len(w) \in Nat /\ \A j \in 1..Len(w) : w[j].key \in Key /\ w[j].dist \in Nat
  BY RideNodes
<1>2. \A k \in DOMAIN dist : k \in Settled \/ b <= dist[k]
  <2> SUFFICES ASSUME NEW k \in DOMAIN dist, k \notin Settled
               PROVE  b <= dist[k]
    OBVIOUS
  <2>1. Node(k, dist[k]) \in heap
    BY DEF Settled
  <2> QED BY <2>1 DEF Node
<1>3. \A k \in DOMAIN dist : dist[k] \in Nat
  BY DEF Types, SearchTypeOK
<1>4. SUFFICES ASSUME Bad # {}
               PROVE  FALSE
  OBVIOUS
<1>5. PICK m \in Bad : \A j \in Bad : m <= j
  <2>1. Bad \subseteq Nat
    OBVIOUS
  <2> QED BY <1>4, <2>1, LeastNumber
<1>6. m # 1
  <2>1. w[1].key = Start /\ w[1].dist = 0
    BY DEF IsRide, Node
  <2>2. Start \in DOMAIN dist /\ dist[Start] = 0
    BY DEF Labels
  <2>3. Ok(1)
    BY <1>2, <2>1, <2>2
  <2> QED BY <2>3
<1>7. m - 1 \in 1..Len(w) - 1 /\ m \in 1..Len(w)
  BY <1>1, <1>6
<1>8. Ok(m - 1)
  BY <1>1, <1>5, <1>7
<1>9. /\ w[m].key \in Onward(w[m - 1].key)
      /\ w[m].dist = w[m - 1].dist + Weight(w[m - 1].key, w[m].key.route)
  BY <1>1, <1>7 DEF IsRide
<1>10. Weight(w[m - 1].key, w[m].key.route) \in Nat
  BY WeightNatural DEF Types, SearchTypeOK
<1>11. CASE b <= w[m - 1].dist
  BY <1>1, <1>5, <1>7, <1>9, <1>10, <1>11
<1>12. CASE w[m - 1].key \in Settled /\ dist[w[m - 1].key] <= w[m - 1].dist
  <2>1. CASE w[m - 1].key.station = destination
    <3>1. b <= dist[w[m - 1].key]
      BY <1>12, <2>1
    <3>2. dist[w[m - 1].key] \in Nat
      BY <1>3, <1>12 DEF Settled
    <3>3. b <= w[m - 1].dist
      BY <1>1, <1>7, <1>12, <3>1, <3>2
    <3> QED BY <1>11, <3>3
  <2>2. CASE w[m - 1].key.station # destination
    <3>1. /\ w[m].key \in DOMAIN dist
          /\ dist[w[m].key] <= dist[w[m - 1].key] + Weight(w[m - 1].key, w[m].key.route)
      BY <1>9, <1>12, <2>2 DEF Labels, Relaxed
    <3>2. dist[w[m].key] \in Nat /\ dist[w[m - 1].key] \in Nat
      BY <1>3, <1>12, <3>1 DEF Settled
    <3>3. dist[w[m].key] <= w[m].dist
      <4>1. w[m - 1].dist \in Nat /\ w[m].dist \in Nat
        BY <1>1, <1>7
      <4> QED BY <1>9, <1>10, <1>12, <3>1, <3>2, <4>1
    <3>4. Ok(m)
      BY <1>1, <1>2, <1>7, <3>1, <3>2, <3>3
    <3> QED BY <3>4
  <2> QED BY <2>1, <2>2
<1> QED BY <1>8, <1>11, <1>12

LEMMA FoundIsLeast ==
    ASSUME Types, Sound, PenaltiesAssumption
    PROVE  NoRideIsCheaper
<1> SUFFICES ASSUME phase = "found", NEW w, IsRide(w), Ends(w).key.station = destination
             PROVE  dist[goal] <= Ends(w).dist
  BY DEF NoRideIsCheaper
<1>1. Labels
  BY DEF Sound
<1>2. goal \in Settled /\ goal \in DOMAIN dist /\ dist[goal] \in Nat
  BY <1>1 DEF Labels, Settled, Types, SearchTypeOK
<1>3. Len(w) \in 1..Len(w) /\ Ends(w).dist \in Nat
  BY RideNodes DEF Ends
<1>4. /\ \A n \in heap : dist[goal] <= n.dist
      /\ \A k \in Settled : k.station = destination => k = goal
  BY <1>1, <1>2 DEF Labels
<1>5. \A k \in Settled : k.station = destination => dist[goal] <= dist[k]
  BY <1>2, <1>4
<1>6. \/ dist[goal] <= w[Len(w)].dist
      \/ w[Len(w)].key \in Settled /\ dist[w[Len(w)].key] <= w[Len(w)].dist
  BY <1>1, <1>2, <1>3, <1>4, <1>5, RideIsFollowed
<1> QED BY <1>4, <1>6 DEF Ends

LEMMA UnreachableIsSo ==
    ASSUME Types, Sound, PenaltiesAssumption
    PROVE  NoRideIsMissed
<1> SUFFICES ASSUME phase = "unreachable", NEW w, IsRide(w), Len(w) > 1,
                    Ends(w).key.station = destination
             PROVE  FALSE
  BY DEF NoRideIsMissed
<1>1. /\ Len(w) \in Nat /\ Len(w) \in 1..Len(w) /\ Len(w) - 1 \in 1..Len(w) - 1
      /\ 1 \in 1..Len(w) - 1 /\ (Len(w) - 1) + 1 = Len(w)
      /\ \A j \in 1..Len(w) : w[j].key \in Key /\ w[j].dist \in Nat
  BY RideNodes
<1>2. w[2].key \in Onward(Start) /\ w[Len(w)].key \in Onward(w[Len(w) - 1].key)
  BY <1>1 DEF IsRide, Node
<1>3. Served(origin)
  BY <1>2 DEF Onward, Served, Start
<1>4. Served(destination)
  <2>1. PICK s \in Stations, r \in Routes : Joined(s, destination, r)
    BY <1>1, <1>2 DEF Onward, Ends, Key
  <2>2. Joined(destination, s, r)
    BY <2>1 DEF Joined
  <2> QED BY <2>2 DEF Served
<1>5. heap = {} /\ Labels
  BY <1>3, <1>4 DEF Sound
<1>6. \A k \in Settled : k.station # destination
  BY <1>5 DEF Labels
<1>7. w[Len(w)].dist + 1 \in Nat
  BY <1>1
<1>8. \/ w[Len(w)].dist + 1 <= w[Len(w)].dist
      \/ w[Len(w)].key \in Settled /\ dist[w[Len(w)].key] <= w[Len(w)].dist
  BY <1>1, <1>5, <1>6, <1>7, RideIsFollowed
<1> QED BY <1>1, <1>6, <1>8 DEF Ends

LEMMA SoundAlways ==
    ASSUME PenaltiesAssumption, NoneAssumption
    PROVE  SearchSpec => [](Types /\ Sound)
<1>1. SearchInit => Types /\ Sound
  BY TypesInit, SoundInit
<1>2. Types /\ Sound /\ [SearchNext]_searchVars => (Types /\ Sound)'
  BY TypesStep, SoundStep
<1> QED BY <1>1, <1>2, PTL DEF SearchSpec

\* The cost of the path found is the least of all rides from the origin to the
\* destination, of any length, over any network, whatever order the heap takes nodes of
\* equal cost in.
THEOREM FoundCheapest == SearchSpec => []NoRideIsCheaper
<1>1. SearchSpec => [](Types /\ Sound)
  BY PenaltiesAssumption, NoneAssumption, SoundAlways
<1>2. Types /\ Sound => NoRideIsCheaper
  BY PenaltiesAssumption, FoundIsLeast
<1> QED BY <1>1, <1>2, PTL

\* An empty path is the answer only if no ride of at least one step ends at the
\* destination.
THEOREM NothingMissed == SearchSpec => []NoRideIsMissed
<1>1. SearchSpec => [](Types /\ Sound)
  BY PenaltiesAssumption, NoneAssumption, SoundAlways
<1>2. Types /\ Sound => NoRideIsMissed
  BY PenaltiesAssumption, UnreachableIsSo
<1> QED BY <1>1, <1>2, PTL

-----------------------------------------------------------------------------
(* The links of the path.                                                  *)

\* Each key but the origin's was reached in one step from a settled key, whose cost and
\* the step's weight still add up to its own.
Links ==
    /\ \A k \in DOMAIN prev :
          /\ prev[k] \in Settled /\ k \in Onward(prev[k])
          /\ dist[k] = dist[prev[k]] + Weight(prev[k], k.route)
    /\ \A k \in DOMAIN dist : k \in DOMAIN prev <=> k # Start

\* A search over the same table, with the same query, knows the same steps.
LEMMA StepsKept ==
    ASSUME UNCHANGED <<lines, origin, penalty>>
    PROVE  /\ Start' = Start
           /\ \A k : Onward(k)' = Onward(k)
           /\ \A k, r : Weight(k, r)' = Weight(k, r)
BY DEF Start, Onward, Joined, Weight

LEMMA LinksFind ==
    ASSUME Types, NEW o \in Stations, NEW d \in Stations, NEW p \in Penalties,
           FindShortestPath(o, d, p)
    PROVE  Links'
<1>1. prev' = NoCosts /\ dist = NoCosts /\ origin' = o
  BY DEF FindShortestPath, Types, Idle
<1>2. CASE Served(o) /\ Served(d)
  <2>1. dist' = [k \in {Start'} |-> 0]
    BY <1>1, <1>2 DEF FindShortestPath, Start, At
  <2> QED BY <1>1, <2>1 DEF Links, NoCosts
<1>3. CASE ~(Served(o) /\ Served(d))
  BY <1>1, <1>3 DEF FindShortestPath, Links, NoCosts
<1> QED BY <1>2, <1>3

LEMMA LinksRelax ==
    ASSUME Types, Sound, Links, PenaltiesAssumption, NoneAssumption, NEW n \in heap, Relax(n)
    PROVE  Links'
<1> DEFINE Cost(k) == n.dist + Weight(n.key, k.route)
<1> DEFINE I == Improved(n)
<1>1. /\ dist' = [k \in DOMAIN dist \cup I |-> IF k \in I THEN Cost(k) ELSE dist[k]]
      /\ prev' = [k \in DOMAIN prev \cup I |-> IF k \in I THEN n.key ELSE prev[k]]
      /\ UNCHANGED <<lines, origin, destination, penalty>>
  BY DEF Relax
<1>2. /\ n.dist = dist[n.key] /\ Settled' = Settled \cup {n.key}
      /\ \A k \in Settled \cup {n.key} : k \in DOMAIN dist /\ dist'[k] = dist[k]
  BY RelaxSettles
<1>3. /\ Start' = Start
      /\ \A k : Onward(k)' = Onward(k)
      /\ \A k, r : Weight(k, r)' = Weight(k, r)
  BY <1>1, StepsKept
<1>4. \A k \in I : k \in Onward(n.key) /\ Cost(k) \in Nat
  BY WeightNatural DEF Improved, Types, SearchTypeOK
<1>5. \A k \in I : k # Start
  BY <1>4, NoneAssumption DEF Start, Onward
<1> HIDE DEF I
<1>6. ASSUME NEW k \in DOMAIN prev'
      PROVE  /\ prev'[k] \in Settled' /\ k \in Onward(prev'[k])
             /\ dist'[k] = dist'[prev'[k]] + Weight(prev'[k], k.route)
  <2>1. CASE k \in I
    <3>1. prev'[k] = n.key /\ dist'[k] = Cost(k) /\ dist'[n.key] = n.dist
      BY <1>1, <1>2, <2>1
    <3> QED BY <1>2, <1>4, <2>1, <3>1
  <2>2. CASE k \notin I
    <3>1. k \in DOMAIN prev /\ prev'[k] = prev[k] /\ k \in DOMAIN dist /\ dist'[k] = dist[k]
      BY <1>1, <2>2 DEF Types, SearchTypeOK
    <3>2. prev[k] \in Settled /\ dist'[prev[k]] = dist[prev[k]]
      BY <1>2, <3>1 DEF Links
    <3> QED BY <1>2, <3>1, <3>2 DEF Links
  <2> QED BY <2>1, <2>2
<1>7. \A k \in DOMAIN dist' : k \in DOMAIN prev' <=> k # Start
  BY <1>1, <1>5 DEF Links
<1> QED BY <1>3, <1>6, <1>7 DEF Links

LEMMA LinksStep ==
    ASSUME Types, Sound, Links, PenaltiesAssumption, NoneAssumption, [SearchNext]_searchVars
    PROVE  Links'
\* Nothing is learnt: what was settled stays so.
<1>1. ASSUME UNCHANGED <<lines, origin, destination, penalty, dist, prev>>, Settled \subseteq Settled'
      PROVE  Links'
  BY <1>1, StepsKept DEF Links
<1>2. CASE UNCHANGED searchVars \/ Exhausted
  BY <1>1, <1>2 DEF Exhausted, Settled
<1>3. ASSUME NEW n \in heap, SkipStale(n) \/ Arrive(n)
      PROVE  Links'
  <2>1. UNCHANGED <<lines, origin, destination, penalty, dist, prev>> /\ heap' = heap \ {n}
    BY <1>3 DEF SkipStale, Arrive
  <2> QED BY <1>1, <2>1 DEF Settled
<1>4. ASSUME NEW n \in heap, Relax(n)
      PROVE  Links'
  BY <1>4, LinksRelax
<1>5. ASSUME NEW o \in Stations, NEW d \in Stations, NEW p \in Penalties,
             FindShortestPath(o, d, p)
      PROVE  Links'
  BY <1>5, LinksFind
<1>6. CASE Answer
  BY <1>6 DEF Answer, Links, NoCosts
<1> QED BY <1>2, <1>3, <1>4, <1>5, <1>6 DEF SearchNext, SearchStep

-----------------------------------------------------------------------------
(* The reference of the runs: rides of so many steps.                      *)

\* Where the rides of at most i steps end.
RideEnds(i) ==
    {n \in [key : Key, dist : Nat] : \E w : IsRide(w) /\ Len(w) <= i + 1 /\ Ends(w) = n}

LEMMA RideGoesOn ==
    ASSUME NEW w, IsRide(w), NEW k \in Onward(Ends(w).key), NEW d \in Nat,
           d = Ends(w).dist + Weight(Ends(w).key, k.route)
    PROVE  \E v : IsRide(v) /\ Ends(v) = Node(k, d) /\ Len(v) = Len(w) + 1
<1> DEFINE S == [key : Key, dist : Nat]
           v == Append(w, Node(k, d))
<1>1. Node(k, d) \in S
  BY DEF Node, Onward, Key
<1>2. w \in Seq(S) /\ w # << >>
  BY DEF IsRide
<1> HIDE DEF S
<1>3. /\ v \in Seq(S) /\ v # << >>
      /\ Len(w) \in Nat \ {0} /\ Len(v) = Len(w) + 1
      /\ \A i \in 1..Len(w) : v[i] = w[i]
      /\ v[Len(w) + 1] = Node(k, d)
  BY <1>1, <1>2
<1> HIDE DEF v
<1>4. v[1] = Node(Start, 0)
  BY <1>3 DEF IsRide
<1>5. ASSUME NEW i \in 1..Len(v) - 1
      PROVE  /\ v[i + 1].key \in Onward(v[i].key)
             /\ v[i + 1].dist = v[i].dist + Weight(v[i].key, v[i + 1].key.route)
  <2>1. CASE i = Len(w)
    <3>1. v[i] = Ends(w) /\ v[i + 1] = Node(k, d)
      BY <1>3, <2>1 DEF Ends
    <3> QED BY <3>1 DEF Node
  <2>2. CASE i # Len(w)
    <3>1. i \in 1..Len(w) - 1 /\ v[i] = w[i] /\ v[i + 1] = w[i + 1]
      BY <1>3, <2>2
    <3> QED BY <3>1 DEF IsRide
  <2> QED BY <2>1, <2>2
<1>6. IsRide(v)
  BY <1>3, <1>4, <1>5 DEF IsRide, S
<1>7. Ends(v) = Node(k, d)
  BY <1>3 DEF Ends
<1> QED BY <1>3, <1>6, <1>7

LEMMA JustOne ==
    ASSUME NEW n \in Nat, n >= 1, n <= 1 \/ ~(n > 1)
    PROVE  n = 1
OBVIOUS

LEMMA NoSteps == ASSUME Types PROVE RideEnds(0) = {Node(Start, 0)}
<1> DEFINE S == [key : Key, dist : Nat]
<1>1. Node(Start, 0) \in S
  BY DEF Node, Start, Key, Types, SearchTypeOK
<1>2. ASSUME NEW n \in RideEnds(0) PROVE n = Node(Start, 0)
  <2>1. PICK w : IsRide(w) /\ Len(w) <= 1 /\ Ends(w) = n
    BY DEF RideEnds
  <2>2. Len(w) = 1
    <3>1. Len(w) \in Nat /\ Len(w) >= 1
      BY <2>1, RideNodes
    <3> QED BY <2>1, <3>1, JustOne
  <2> QED BY <2>1, <2>2 DEF Ends, IsRide
<1>3. Node(Start, 0) \in RideEnds(0)
  <2> DEFINE w == << Node(Start, 0) >>
  <2>1. w \in Seq(S) /\ w # << >> /\ Len(w) = 1 /\ w[1] = Node(Start, 0)
    <3> HIDE DEF S
    <3> QED BY <1>1
  <2> HIDE DEF w
  <2>2. IsRide(w) /\ Ends(w) = Node(Start, 0) /\ Len(w) <= 0 + 1
    BY <2>1 DEF IsRide, Ends
  <2> QED BY <1>1, <2>2 DEF RideEnds
<1> QED BY <1>2, <1>3

\* A ride but for its last step is a ride.
LEMMA RideBefore ==
    ASSUME NEW w, IsRide(w), Len(w) > 1
    PROVE  \E v : /\ IsRide(v) /\ Len(v) = Len(w) - 1
                  /\ Ends(w).key \in Onward(Ends(v).key)
                  /\ Ends(w).dist = Ends(v).dist + Weight(Ends(v).key, Ends(w).key.route)
<1> DEFINE S == [key : Key, dist : Nat]
           n == Len(w) - 1
           v == SubSeq(w, 1, n)
<1>1. /\ w \in Seq(S) /\ Len(w) \in Nat /\ n \in Nat /\ n >= 1
      /\ \A i \in 1..n : w[i] \in S
  <2>1. w \in Seq(S) /\ Len(w) \in Nat
    BY RideNodes DEF IsRide
  <2> HIDE DEF S
  <2> QED BY <2>1
<1> HIDE DEF S
<1>2. v \in Seq(S) /\ Len(v) = n /\ \A i \in 1..n : v[i] = w[i]
  BY <1>1, SubSeqProperties
<1> HIDE DEF v
<1>3. IsRide(v)
  <2>1. v # << >> /\ v[1] = Node(Start, 0)
    BY <1>1, <1>2 DEF IsRide
  <2>2. ASSUME NEW i \in 1..Len(v) - 1
        PROVE  /\ v[i + 1].key \in Onward(v[i].key)
               /\ v[i + 1].dist = v[i].dist + Weight(v[i].key, v[i + 1].key.route)
    <3>1. i \in 1..Len(w) - 1 /\ v[i] = w[i] /\ v[i + 1] = w[i + 1]
      BY <1>1, <1>2
    <3> QED BY <3>1 DEF IsRide
  <2> QED BY <1>2, <2>1, <2>2 DEF IsRide, S
<1>4. n \in 1..Len(w) - 1 /\ n + 1 = Len(w) /\ Ends(v) = w[n]
  BY <1>1, <1>2 DEF Ends
<1>5. /\ w[n + 1].key \in Onward(w[n].key)
      /\ w[n + 1].dist = w[n].dist + Weight(w[n].key, w[n + 1].key.route)
  BY <1>4 DEF IsRide
<1>6. Len(v) = Len(w) - 1 /\ Ends(w) = w[n + 1]
  BY <1>2, <1>4 DEF Ends
<1> HIDE DEF n
<1> QED BY <1>3, <1>4, <1>5, <1>6

LEMMA OneStepMore ==
    ASSUME Types, PenaltiesAssumption, NEW i \in Nat, i > 0
    PROVE  RideEnds(i) = WithNext(RideEnds(i - 1))
<1> DEFINE S == [key : Key, dist : Nat]
<1>1. ASSUME NEW n \in RideEnds(i) PROVE n \in WithNext(RideEnds(i - 1))
  <2>1. PICK w : IsRide(w) /\ Len(w) <= i + 1 /\ Ends(w) = n
    BY DEF RideEnds
  <2>2. Len(w) \in Nat /\ n \in S
    BY <2>1, RideNodes DEF RideEnds
  <2>3. CASE Len(w) <= i
    BY <2>1, <2>2, <2>3 DEF RideEnds, WithNext
  <2>4. CASE Len(w) > i
    <3>1. PICK v : /\ IsRide(v) /\ Len(v) = Len(w) - 1
                   /\ n.key \in Onward(Ends(v).key)
                   /\ n.dist = Ends(v).dist + Weight(Ends(v).key, n.key.route)
      BY <2>1, <2>2, <2>4, RideBefore
    <3>2. Ends(v) \in S
      <4>1. v \in Seq(S) /\ Len(v) \in Nat /\ Len(v) >= 1
        BY <3>1, RideNodes DEF IsRide
      <4> HIDE DEF S
      <4> QED BY <4>1 DEF Ends
    <3>3. Ends(v) \in RideEnds(i - 1)
      BY <2>1, <2>2, <3>1, <3>2 DEF RideEnds
    <3>4. n = Node(n.key, Ends(v).dist + Weight(Ends(v).key, n.key.route))
      BY <2>2, <3>1 DEF Node
    <3> QED BY <3>1, <3>3, <3>4 DEF WithNext
  <2> QED BY <2>2, <2>3, <2>4
<1>2. ASSUME NEW n \in WithNext(RideEnds(i - 1)) PROVE n \in RideEnds(i)
  <2>1. CASE n \in RideEnds(i - 1)
    <3>1. PICK w : IsRide(w) /\ Len(w) <= (i - 1) + 1 /\ Ends(w) = n
      BY <2>1 DEF RideEnds
    <3>2. Len(w) <= i + 1
      BY <3>1, RideNodes
    <3> QED BY <2>1, <3>1, <3>2 DEF RideEnds
  <2>2. CASE n \notin RideEnds(i - 1)
    <3>0. PICK m \in RideEnds(i - 1) :
             \E k \in Onward(m.key) : n = Node(k, m.dist + Weight(m.key, k.route))
      BY <2>2 DEF WithNext
    <3>1. PICK k \in Onward(m.key) : n = Node(k, m.dist + Weight(m.key, k.route))
      BY <3>0
    <3>2. PICK w : IsRide(w) /\ Len(w) <= (i - 1) + 1 /\ Ends(w) = m
      BY <3>1 DEF RideEnds
    <3> DEFINE d == m.dist + Weight(m.key, k.route)
    <3>3. d \in Nat /\ k \in Key
      BY <3>1, WeightNatural DEF RideEnds, Onward, Key, Types, SearchTypeOK
    <3>4. PICK v : IsRide(v) /\ Ends(v) = Node(k, d) /\ Len(v) = Len(w) + 1
      BY <3>1, <3>2, <3>3, RideGoesOn
    <3>5. Len(v) <= i + 1
      BY <3>2, <3>4, RideNodes
    <3>6. Node(k, d) \in S
      BY <3>3 DEF Node
    <3> QED BY <3>1, <3>4, <3>5, <3>6 DEF RideEnds
  <2> QED BY <2>1, <2>2
<1> QED BY <1>1, <1>2

\* Within is the recursion it says it is, since what rides reach solves it.
LEMMA WithinUnfolds ==
    ASSUME Types, PenaltiesAssumption
    PROVE  Within = [i \in Nat |-> IF i = 0 THEN {Node(Start, 0)} ELSE WithNext(Within[i - 1])]
<1> DEFINE Solves(g) ==
        g = [i \in Nat |-> IF i = 0 THEN {Node(Start, 0)} ELSE WithNext(g[i - 1])]
    G == [i \in Nat |-> RideEnds(i)]
<1>1. Within = CHOOSE g : Solves(g)
  BY DEF Within
<1>2. Solves(G)
  <2>1. ASSUME NEW i \in Nat
        PROVE  RideEnds(i) = IF i = 0 THEN {Node(Start, 0)} ELSE WithNext(G[i - 1])
    BY <2>1, NoSteps, OneStepMore
  <2> QED BY <2>1
<1> HIDE DEF Solves
<1>3. Solves(Within)
  BY <1>1, <1>2
<1> QED BY <1>3 DEF Solves

LEMMA WithinIsRideEnds ==
    ASSUME Types, PenaltiesAssumption, NEW n \in Nat
    PROVE  Within[n] = RideEnds(n)
<1> DEFINE T == {i \in Nat : Within[i] # RideEnds(i)}
<1> SUFFICES ASSUME T # {} PROVE FALSE
  OBVIOUS
<1>1. PICK i \in T : \A j \in T : i <= j
  BY LeastNumber
<1>2. i # 0
  BY <1>1, WithinUnfolds, NoSteps
<1>3. i - 1 \in Nat /\ i - 1 \notin T
  BY <1>1, <1>2
<1>4. Within[i] = WithNext(Within[i - 1])
  BY <1>2, WithinUnfolds
<1> QED BY <1>1, <1>2, <1>3, <1>4, OneStepMore

\* No ride the reference knows of is cheaper than the answer.
THEOREM AnswerIsCheapest == SearchSpec => []FoundIsCheapest
<1>1. SearchSpec => [](Types /\ Sound)
  BY PenaltiesAssumption, NoneAssumption, SoundAlways
<1>2. Types /\ Sound => FoundIsCheapest
  <2> SUFFICES ASSUME Types, Sound, NEW fare \in Fares
               PROVE  /\ phase = "found" => dist[goal] <= fare
                      /\ phase = "unreachable" => fare = 0
    BY DEF FoundIsCheapest
  <2>1. Cardinality(Stations) + 1 \in Nat
    BY FiniteAssumption, FS_CardinalityType
  <2>2. PICK n \in RideEnds(Cardinality(Stations) + 1) :
           n.key.station = destination /\ n.dist = fare
    BY <2>1, PenaltiesAssumption, WithinIsRideEnds DEF Fares, Reached
  <2>3. PICK w : IsRide(w) /\ Ends(w) = n
    BY <2>2 DEF RideEnds
  <2>4. ASSUME phase = "unreachable" PROVE fare = 0
    <3>1. Len(w) = 1
      <4>1. Len(w) \in Nat /\ Len(w) >= 1
        BY <2>3, RideNodes
      <4>2. ~(Len(w) > 1)
        BY <2>2, <2>3, <2>4, UnreachableIsSo, PenaltiesAssumption DEF NoRideIsMissed
      <4> QED BY <4>1, <4>2, JustOne
    <3> QED BY <2>2, <2>3, <3>1 DEF Ends, IsRide, Node
  <2> QED BY <2>2, <2>3, <2>4, FoundIsLeast, PenaltiesAssumption DEF NoRideIsCheaper
<1> QED BY <1>1, <1>2, PTL

-----------------------------------------------------------------------------
(* The path in the answer.                                                 *)

\* Keys from the origin, each of them known to have been reached from the one before.
Trail(p) ==
    /\ p \in Seq(Key) /\ p # << >> /\ p[1] = Start
    /\ \A i \in 1..Len(p) - 1 : p[i + 1] \in DOMAIN prev /\ prev[p[i + 1]] = p[i]

\* Such keys lead to key k, and its cost is their steps and transfers.
Led(k) ==
    \E p : Trail(p) /\ p[Len(p)] = k /\ dist[k] = Len(p) - 1 + penalty * Transfers(p)

Trails == \A k \in DOMAIN dist : Led(k)

LEMMA TrailKeys ==
    ASSUME NEW p, Trail(p)
    PROVE  Len(p) \in Nat /\ Len(p) >= 1 /\ \A i \in 1..Len(p) : p[i] \in Key
BY DEF Trail

LEMMA TransfersGrow ==
    ASSUME NEW p \in Seq(Key), p # << >>, NEW k \in Key
    PROVE  /\ Transfers(p) \in Nat
           /\ Transfers(Append(p, k)) = Transfers(p) +
                 IF p[Len(p)].route # NoRoute /\ k.route # p[Len(p)].route THEN 1 ELSE 0
<1> DEFINE Changes(r, i) == r[i - 1].route # NoRoute /\ r[i].route # r[i - 1].route
           S(r) == {i \in 2..Len(r) : Changes(r, i)}
           q == Append(p, k)
           n == Len(p)
<1>1. /\ n \in Nat /\ n >= 1 /\ Len(q) = n + 1
      /\ \A i \in 1..n : q[i] = p[i]
      /\ q[n + 1] = k
  BY AppendProperties
<1>2. \A r : Transfers(r) = Cardinality(S(r))
  BY DEF Transfers
<1> HIDE DEF q
<1>3. \A i \in 2..n : Changes(q, i) <=> Changes(p, i)
  BY <1>1
<1>4. Changes(q, n + 1) <=> p[n].route # NoRoute /\ k.route # p[n].route
  BY <1>1
<1> HIDE DEF Changes
<1>5. IsFiniteSet(S(p)) /\ Cardinality(S(p)) \in Nat
  <2>1. IsFiniteSet(2..n)
    BY <1>1, FS_Interval, 2 \in Int
  <2>2. S(p) \subseteq 2..n
    OBVIOUS
  <2> QED BY <2>1, <2>2, FS_Subset, FS_CardinalityType
<1>6. n + 1 \notin S(p)
  BY <1>1
<1>7. CASE Changes(q, n + 1)
  <2>1. S(q) = S(p) \cup {n + 1}
    BY <1>1, <1>3, <1>7
  <2> HIDE DEF S
  <2>2. Cardinality(S(q)) = Cardinality(S(p)) + 1
    BY <1>5, <1>6, <2>1, FS_AddElement
  <2> QED BY <1>2, <1>4, <1>5, <1>7, <2>2 DEF q
<1>8. CASE ~Changes(q, n + 1)
  <2>1. S(q) = S(p)
    BY <1>1, <1>3, <1>8
  <2> HIDE DEF S
  <2> QED BY <1>2, <1>4, <1>5, <1>8, <2>1 DEF q
<1> QED BY <1>7, <1>8

LEMMA TrailsFind ==
    ASSUME Types, NEW o \in Stations, NEW d \in Stations, NEW p \in Penalties,
           FindShortestPath(o, d, p)
    PROVE  Trails'
<1>1. dist = NoCosts /\ origin' = o /\ penalty' \in Int
  BY PenaltiesAssumption DEF FindShortestPath, Types, Idle
<1>2. CASE Served(o) /\ Served(d)
  <2> PICK t : t = << Start' >>
    OBVIOUS
  <2>1. dist' = [k \in {Start'} |-> 0]
    BY <1>1, <1>2 DEF FindShortestPath, Start, At
  <2>2. Start' \in Key
    BY <1>1 DEF Start, Key
  <2>3. t \in Seq(Key) /\ t # << >> /\ Len(t) = 1 /\ t[1] = Start'
    BY <2>2
  <2>4. Trail(t)'
    BY <2>3 DEF Trail
  <2>5. Transfers(t) = 0
    <3>1. {i \in 2..Len(t) : t[i - 1].route # NoRoute /\ t[i].route # t[i - 1].route} = {}
      BY <2>3
    <3> QED BY <3>1, FS_EmptySet DEF Transfers
  <2>6. Led(Start)'
    <3>1. t[Len(t)] = Start' /\ dist'[Start'] = 0
      BY <2>1, <2>3
    <3>2. penalty' * Transfers(t) = 0
      <4>1. \A n \in Int : n * 0 = 0
        OBVIOUS
      <4> QED BY <1>1, <2>5, <4>1
    <3>3. dist'[Start'] = Len(t) - 1 + penalty' * Transfers(t)
      BY <2>3, <3>1, <3>2
    <3> QED BY <2>4, <3>1, <3>3 DEF Led
  <2> QED BY <2>1, <2>6 DEF Trails
<1>3. CASE ~(Served(o) /\ Served(d))
  BY <1>1, <1>3 DEF FindShortestPath, Trails, NoCosts
<1> QED BY <1>2, <1>3

LEMMA TrailsRelax ==
    ASSUME Types, Sound, Links, Trails, NEW n \in heap, Relax(n)
    PROVE  Trails'
<1> DEFINE Cost(k) == n.dist + Weight(n.key, k.route)
<1> DEFINE I == Improved(n)
<1>1. /\ dist' = [k \in DOMAIN dist \cup I |-> IF k \in I THEN Cost(k) ELSE dist[k]]
      /\ prev' = [k \in DOMAIN prev \cup I |-> IF k \in I THEN n.key ELSE prev[k]]
      /\ UNCHANGED <<lines, origin, destination, penalty>>
  BY DEF Relax
<1>2. /\ n.dist = dist[n.key] /\ n.key \in DOMAIN dist
      /\ \A k \in Settled \cup {n.key} : k \notin I
  BY RelaxSettles, PenaltiesAssumption
<1>3. Start' = Start
  BY <1>1 DEF Start
<1>4. \A k \in I : k \in Key
  BY DEF Improved, Onward, Key
<1>5. penalty \in Int
  BY PenaltiesAssumption DEF Types, SearchTypeOK
<1> HIDE DEF I
\* The trail of a key that is not improved still leads to it: all others on it are settled.
<1>6. ASSUME NEW p, Trail(p), p[Len(p)] \notin I
      PROVE  Trail(p)'
  <2>1. ASSUME NEW i \in 1..Len(p) - 1
        PROVE  p[i + 1] \in DOMAIN prev' /\ prev'[p[i + 1]] = p[i]
    <3>1. p[i + 1] \in DOMAIN prev /\ prev[p[i + 1]] = p[i]
      BY <1>6 DEF Trail
    <3>2. p[i + 1] \notin I
      <4>1. CASE i + 1 = Len(p)
        BY <1>6, <4>1
      <4>2. CASE i + 1 # Len(p)
        <5>1. i + 1 \in 1..Len(p) - 1
          BY <1>6, <4>2, TrailKeys
        <5>2. p[(i + 1) + 1] \in DOMAIN prev /\ prev[p[(i + 1) + 1]] = p[i + 1]
          BY <1>6, <5>1 DEF Trail
        <5> QED BY <1>2, <5>2 DEF Links
      <4> QED BY <4>1, <4>2
    <3> QED BY <1>1, <3>1, <3>2
  <2> QED BY <1>3, <1>6, <2>1 DEF Trail
<1>7. ASSUME NEW k \in DOMAIN dist', k \notin I PROVE Led(k)'
  <2>1. k \in DOMAIN dist /\ dist'[k] = dist[k]
    BY <1>1, <1>7
  <2>2. PICK p : Trail(p) /\ p[Len(p)] = k /\ dist[k] = Len(p) - 1 + penalty * Transfers(p)
    BY <2>1 DEF Trails, Led
  <2> QED BY <1>1, <1>6, <1>7, <2>1, <2>2 DEF Led
<1>8. ASSUME NEW k \in DOMAIN dist', k \in I PROVE Led(k)'
  <2>1. PICK p : /\ Trail(p) /\ p[Len(p)] = n.key
                 /\ dist[n.key] = Len(p) - 1 + penalty * Transfers(p)
    BY <1>2 DEF Trails, Led
  <2> DEFINE q == Append(p, k)
  <2>2. /\ p \in Seq(Key) /\ p # << >> /\ k \in Key /\ Len(p) \in Nat /\ Len(p) >= 1
    BY <1>4, <1>8, <2>1, TrailKeys DEF Trail
  <2>3. /\ q \in Seq(Key) /\ q # << >> /\ Len(q) = Len(p) + 1
        /\ \A i \in 1..Len(p) : q[i] = p[i]
        /\ q[Len(p) + 1] = k
    BY <2>2, AppendProperties
  <2>4. /\ Transfers(p) \in Nat
        /\ Transfers(q) = Transfers(p) + IF n.key.route # NoRoute /\ k.route # n.key.route
                                          THEN 1 ELSE 0
    BY <2>1, <2>2, TransfersGrow
  <2> HIDE DEF q
  <2>5. Trail(p)'
    BY <1>2, <1>6, <2>1
  <2>6. Trail(q)'
    <3>1. ASSUME NEW i \in 1..Len(q) - 1
          PROVE  q[i + 1] \in DOMAIN prev' /\ prev'[q[i + 1]] = q[i]
      <4>1. CASE i = Len(p)
        <5>1. q[i + 1] = k /\ q[i] = n.key
          BY <2>1, <2>2, <2>3, <4>1
        <5> QED BY <1>1, <1>8, <5>1
      <4>2. CASE i # Len(p)
        <5>1. i \in 1..Len(p) - 1 /\ q[i] = p[i] /\ q[i + 1] = p[i + 1]
          BY <2>2, <2>3, <4>2
        <5> QED BY <2>5, <5>1 DEF Trail
      <4> QED BY <4>1, <4>2
    <3>2. q[1] = Start'
      BY <2>2, <2>3, <2>5 DEF Trail
    <3> QED BY <2>3, <3>1, <3>2 DEF Trail
  <2>7. dist'[k] = Len(q) - 1 + penalty * Transfers(q)
    <3>1. dist'[k] = Len(p) - 1 + penalty * Transfers(p) + Weight(n.key, k.route)
      BY <1>1, <1>2, <1>8, <2>1
    <3>2. CASE n.key.route # NoRoute /\ k.route # n.key.route
      <4>1. Weight(n.key, k.route) = 1 + penalty /\ Transfers(q) = Transfers(p) + 1
        BY <2>4, <3>2 DEF Weight
      <4>2. penalty * (Transfers(p) + 1) = penalty * Transfers(p) + penalty
        BY <1>5, <2>4
      <4>3. penalty * Transfers(p) \in Int
        BY <1>5, <2>4
      <4> QED BY <1>5, <2>2, <2>3, <3>1, <4>1, <4>2, <4>3
    <3>3. CASE ~(n.key.route # NoRoute /\ k.route # n.key.route)
      <4>1. Weight(n.key, k.route) = 1 /\ Transfers(q) = Transfers(p)
        BY <2>4, <3>3 DEF Weight
      <4>2. penalty * Transfers(p) \in Int
        BY <1>5, <2>4
      <4> QED BY <2>2, <2>3, <3>1, <4>1, <4>2
    <3> QED BY <3>2, <3>3
  <2>8. q[Len(q)] = k
    BY <2>2, <2>3
  <2> QED BY <1>1, <2>6, <2>7, <2>8 DEF Led
<1> QED BY <1>7, <1>8 DEF Trails

LEMMA TrailsStep ==
    ASSUME Types, Sound, Links, Trails, [SearchNext]_searchVars
    PROVE  Trails'
<1>1. ASSUME UNCHANGED <<origin, penalty, dist, prev>> PROVE Trails'
  <2>1. Start' = Start
    BY <1>1 DEF Start
  <2>2. \A p : Trail(p)' <=> Trail(p)
    BY <1>1, <2>1 DEF Trail
  <2> QED BY <1>1, <2>2 DEF Trails, Led
<1>2. CASE UNCHANGED searchVars \/ Exhausted \/ \E n \in heap : SkipStale(n) \/ Arrive(n)
  BY <1>1, <1>2 DEF Exhausted, SkipStale, Arrive
<1>3. CASE \E n \in heap : Relax(n)
  BY <1>3, TrailsRelax
<1>4. CASE \E o, d \in Stations, p \in Penalties : FindShortestPath(o, d, p)
  BY <1>4, TrailsFind
<1>5. CASE Answer
  BY <1>5 DEF Answer, Trails, NoCosts
<1> QED BY <1>2, <1>3, <1>4, <1>5 DEF SearchNext, SearchStep

LEMMA TrailsAlways == SearchSpec => [](Types /\ Sound /\ Links /\ Trails)
<1>1. SearchInit => Types /\ Sound /\ Links /\ Trails
  BY TypesInit, SoundInit DEF SearchInit, Links, Trails, NoCosts
<1>2. Types /\ Sound /\ Links /\ Trails /\ [SearchNext]_searchVars => (Types /\ Sound /\ Links /\ Trails)'
  BY TypesStep, SoundStep, LinksStep, TrailsStep, PenaltiesAssumption, NoneAssumption
<1> QED BY <1>1, <1>2, PTL DEF SearchSpec

\* A trail never passes a key twice: else it would come back to the origin.
LEMMA TrailsDoNotCross ==
    ASSUME Links, Start \in DOMAIN dist, NEW p, Trail(p),
           NEW i \in 1..Len(p), NEW j \in 1..Len(p), i < j
    PROVE  p[i] # p[j]
<1> DEFINE T == {a \in 1..Len(p) : \E b \in 1..Len(p) : a < b /\ p[a] = p[b]}
<1> SUFFICES ASSUME T # {} PROVE FALSE
  OBVIOUS
<1>1. Len(p) \in Nat
  BY TrailKeys
<1>2. PICK a \in T : \A c \in T : a <= c
  <2>1. T \subseteq Nat
    BY <1>1
  <2> HIDE DEF T
  <2> QED BY <2>1, LeastNumber
<1>3. PICK b \in 1..Len(p) : a < b /\ p[a] = p[b]
  BY <1>2
<1>4. b - 1 \in 1..Len(p) - 1 /\ (b - 1) + 1 = b
  BY <1>1, <1>2, <1>3
<1>5. p[b] \in DOMAIN prev /\ prev[p[b]] = p[b - 1]
  BY <1>4 DEF Trail
<1>6. CASE a = 1
  <2>1. Start \in DOMAIN prev
    BY <1>3, <1>5, <1>6 DEF Trail
  <2> QED BY <2>1 DEF Links
<1>7. CASE a # 1
  <2>1. a - 1 \in 1..Len(p) - 1 /\ (a - 1) + 1 = a /\ a - 1 \in 1..Len(p)
    BY <1>1, <1>2, <1>7
  <2>2. prev[p[a]] = p[a - 1]
    BY <2>1 DEF Trail
  <2>3. p[a - 1] = p[b - 1] /\ a - 1 < b - 1 /\ b - 1 \in 1..Len(p)
    BY <1>1, <1>2, <1>3, <1>4, <1>5, <2>2
  <2>4. a - 1 \in T
    BY <2>1, <2>3
  <2> QED BY <1>1, <1>2, <2>4
<1> QED BY <1>6, <1>7

LEMMA KeyIsFinite == IsFiniteSet(Key)
<1> DEFINE R == Routes \cup {NoRoute}
           f == [x \in Stations \X R |-> [station |-> x[1], route |-> x[2]]]
<1>1. IsFiniteSet(R)
  BY FiniteAssumption, FS_AddElement
<1>2. IsFiniteSet(Stations \X R)
  BY <1>1, FiniteAssumption, FS_Product
<1>3. f \in Surjection(Stations \X R, Key)
  <2>1. f \in [Stations \X R -> Key]
    BY DEF Key
  <2>2. ASSUME NEW k \in Key PROVE \E x \in Stations \X R : f[x] = k
    <3>1. <<k.station, k.route>> \in Stations \X R /\ f[<<k.station, k.route>>] = k
      BY DEF Key
    <3> QED BY <3>1
  <2> HIDE DEF f
  <2> QED BY <2>1, <2>2 DEF Surjection
<1> HIDE DEF f
<1> QED BY <1>2, <1>3, FS_Surjection

\* So a trail is no longer than there are keys with a predecessor.
LEMMA TrailIsShort ==
    ASSUME Types, Links, Start \in DOMAIN dist, NEW p, Trail(p)
    PROVE  Cardinality(DOMAIN prev) \in Nat /\ Len(p) - 1 <= Cardinality(DOMAIN prev)
<1>1. DOMAIN prev \subseteq Key
  BY DEF Types, SearchTypeOK
<1>2. IsFiniteSet(DOMAIN prev) /\ Cardinality(DOMAIN prev) \in Nat
  BY <1>1, KeyIsFinite, FS_Subset, FS_CardinalityType
<1> DEFINE n == Len(p) - 1
           f == [i \in 1..n |-> p[i + 1]]
<1>3. n \in Nat /\ n \in Int
  BY TrailKeys
<1>4. \A i \in 1..n : p[i + 1] \in DOMAIN prev
  BY DEF Trail
<1>5. ASSUME NEW i \in 1..n, NEW j \in 1..n, i # j PROVE p[i + 1] # p[j + 1]
  <2>1. i + 1 \in 1..Len(p) /\ j + 1 \in 1..Len(p) /\ (i + 1 < j + 1 \/ j + 1 < i + 1)
    BY <1>3, <1>5, TrailKeys
  <2> QED BY <2>1, TrailsDoNotCross
<1> HIDE DEF n
<1>6. f \in Injection(1..n, DOMAIN prev)
  <2>1. f \in [1..n -> DOMAIN prev]
    BY <1>4
  <2>2. \A i, j \in 1..n : f[i] = f[j] => i = j
    BY <1>5
  <2> HIDE DEF f
  <2> QED BY <2>1, <2>2 DEF Injection, IsInjective
<1> HIDE DEF f
<1>7. Cardinality(1..n) <= Cardinality(DOMAIN prev)
  BY <1>2, <1>6, FS_Injection
<1>8. Cardinality(1..n) = n
  <2>1. Cardinality(1..n) = IF 1 > n THEN 0 ELSE n - 1 + 1
    BY <1>3, FS_Interval, 1 \in Int
  <2> QED BY <1>3, <2>1
<1> QED BY <1>2, <1>7, <1>8 DEF n

\* What is found on the way back along trail p to the goal, after i steps.
Found(p, i) == SubSeq(p, IF i < Len(p) THEN Len(p) - i ELSE 1, Len(p))

LEMMA WayBackBegins ==
    ASSUME NEW p, Trail(p), p[Len(p)] = goal
    PROVE  Found(p, 0) = <<goal>>
<1>1. p \in Seq(Key) /\ Len(p) \in Nat /\ Len(p) >= 1 /\ Len(p) \in 1..Len(p)
  BY TrailKeys DEF Trail
<1>2. Found(p, 0) = SubSeq(p, Len(p), Len(p))
  <2>1. 0 < Len(p) /\ Len(p) - 0 = Len(p)
    BY <1>1
  <2> QED BY <2>1 DEF Found
<1>3. SubSeq(p, Len(p), Len(p)) = <<p[Len(p)]>> \o SubSeq(p, Len(p) + 1, Len(p))
  BY <1>1, SubSeqRecursiveFirst
<1>4. SubSeq(p, Len(p) + 1, Len(p)) = << >>
  BY <1>1, SubSeqEmpty
<1>5. goal \in Key
  BY <1>1, TrailKeys
<1>6. <<goal>> \o << >> = <<goal>>
  BY <1>5, ConcatEmptySeq
<1> QED BY <1>2, <1>3, <1>4, <1>6

LEMMA WayBackGoesOn ==
    ASSUME Links, Start \in DOMAIN dist, NEW p, Trail(p), NEW i \in Nat, i > 0
    PROVE  Found(p, i) = WithPrevious(Found(p, i - 1))
<1> DEFINE n == Len(p)
<1>1. p \in Seq(Key) /\ n \in Nat /\ n >= 1
  BY TrailKeys DEF Trail
<1>2. CASE i < n
  <2> DEFINE m == n - i
  <2>1. m \in 1..n /\ m + 1 \in 1..n /\ n \in m..n /\ n \in m + 1..n /\ m \in 1..n - 1
    BY <1>1, <1>2
  <2>2. Found(p, i) = SubSeq(p, m, n) /\ Found(p, i - 1) = SubSeq(p, m + 1, n)
    <3>1. i - 1 < n /\ n - (i - 1) = m + 1
      BY <1>1, <1>2
    <3> QED BY <1>2, <3>1 DEF Found
  <2> HIDE DEF m, n
  <2>3. Head(SubSeq(p, m + 1, n)) = p[m + 1]
    BY <1>1, <2>1, HeadTailOfSubSeq DEF n
  <2>4. SubSeq(p, m, n) = <<p[m]>> \o SubSeq(p, m + 1, n)
    BY <1>1, <2>1, SubSeqRecursiveFirst DEF n
  <2>5. p[m + 1] \in DOMAIN prev /\ prev[p[m + 1]] = p[m]
    BY <2>1 DEF Trail, n
  <2> QED BY <2>2, <2>3, <2>4, <2>5 DEF WithPrevious
<1>3. CASE ~(i < n)
  <2>1. Found(p, i) = SubSeq(p, 1, n) /\ Found(p, i - 1) = SubSeq(p, 1, n)
    <3>1. CASE i - 1 < n
      <4>1. n - (i - 1) = 1
        BY <1>1, <1>3, <3>1
      <4> QED BY <1>1, <1>3, <3>1, <4>1 DEF Found
    <3>2. CASE ~(i - 1 < n)
      BY <1>1, <1>3, <3>2 DEF Found
    <3> QED BY <3>1, <3>2
  <2>2. Head(SubSeq(p, 1, n)) = p[1]
    <3>1. 1 \in 1..n /\ n \in 1..n
      BY <1>1
    <3> QED BY <1>1, <3>1, HeadTailOfSubSeq
  <2>3. p[1] \notin DOMAIN prev
    BY DEF Links, Trail
  <2> QED BY <2>1, <2>2, <2>3 DEF WithPrevious
<1> QED BY <1>2, <1>3

\* Back is the recursion it says it is, since the trail to the goal solves it.
LEMMA BackUnfolds ==
    ASSUME Links, Start \in DOMAIN dist, NEW p, Trail(p), p[Len(p)] = goal
    PROVE  Back = [i \in Nat |-> IF i = 0 THEN <<goal>> ELSE WithPrevious(Back[i - 1])]
<1> DEFINE Solves(g) == g = [i \in Nat |-> IF i = 0 THEN <<goal>> ELSE WithPrevious(g[i - 1])]
           G == [i \in Nat |-> Found(p, i)]
<1>1. Back = CHOOSE g : Solves(g)
  BY DEF Back
<1>2. Solves(G)
  <2>1. ASSUME NEW i \in Nat
        PROVE  Found(p, i) = IF i = 0 THEN <<goal>> ELSE WithPrevious(G[i - 1])
    BY <2>1, WayBackBegins, WayBackGoesOn
  <2> QED BY <2>1
<1> HIDE DEF Solves
<1>3. Solves(Back)
  BY <1>1, <1>2
<1> QED BY <1>3 DEF Solves

\* The path read off prev is the trail to the goal.
LEMMA PathIsTheTrail ==
    ASSUME Types, Links, Start \in DOMAIN dist, NEW p, Trail(p), p[Len(p)] = goal
    PROVE  Path = p
<1>1. ASSUME NEW n \in Nat PROVE Back[n] = Found(p, n)
  <2> DEFINE T == {i \in Nat : Back[i] # Found(p, i)}
  <2> SUFFICES ASSUME T # {} PROVE FALSE
    OBVIOUS
  <2>1. PICK i \in T : \A j \in T : i <= j
    BY LeastNumber
  <2>2. i # 0
    BY <2>1, BackUnfolds, WayBackBegins
  <2>3. i - 1 \in Nat /\ i - 1 \notin T
    BY <2>1, <2>2
  <2>4. Back[i] = WithPrevious(Back[i - 1])
    BY <2>2, BackUnfolds
  <2> QED BY <2>1, <2>2, <2>3, <2>4, WayBackGoesOn
<1> DEFINE c == Cardinality(DOMAIN prev)
<1>2. c \in Nat /\ Len(p) - 1 <= c /\ p \in Seq(Key) /\ Len(p) \in Nat /\ Len(p) >= 1
  BY TrailIsShort, TrailKeys DEF Trail
<1>3. Path = Found(p, c)
  BY <1>1, <1>2 DEF Path
<1> HIDE DEF c
<1>4. Found(p, c) = SubSeq(p, 1, Len(p))
  <2>1. CASE c < Len(p)
    <3>1. Len(p) - c = 1
      BY <1>2, <2>1
    <3> QED BY <2>1, <3>1 DEF Found
  <2> QED BY <2>1 DEF Found
<1>5. SubSeq(p, 1, Len(p)) = p
  <2> DEFINE q == SubSeq(p, 1, Len(p))
  <2>1. q \in Seq(Key) /\ Len(q) = Len(p) /\ \A i \in 1..Len(p) : q[i] = p[i]
    BY <1>2, TrailKeys, SubSeqProperties
  <2> HIDE DEF q
  <2>2. q = p
    BY <1>2, <2>1, SeqEqual
  <2> QED BY <2>2 DEF q
<1> QED BY <1>3, <1>4, <1>5

\* The path in the answer is a ride from the origin to the destination, and the cost
\* beside it is what its steps and transfers cost: for every network and penalty.
THEOREM AnswerIsARide == SearchSpec => []PathIsARide
<1>1. Types /\ Sound /\ Links /\ Trails => PathIsARide
  <2> SUFFICES ASSUME Types, Sound, Links, Trails, phase = "found"
               PROVE  /\ Path[1] = Start /\ Path[Len(Path)].station = destination
                      /\ \A i \in 2..Len(Path) : Path[i] \in Onward(Path[i - 1])
                      /\ dist[goal] = Len(Path) - 1 + penalty * Transfers(Path)
    BY DEF PathIsARide
  <2>1. goal \in DOMAIN dist /\ goal.station = destination /\ Start \in DOMAIN dist
    BY DEF Sound, Labels, Settled
  <2>2. PICK p : /\ Trail(p) /\ p[Len(p)] = goal
                 /\ dist[goal] = Len(p) - 1 + penalty * Transfers(p)
    BY <2>1 DEF Trails, Led
  <2>3. Path = p
    BY <2>1, <2>2, PathIsTheTrail
  <2>4. ASSUME NEW i \in 2..Len(p) PROVE p[i] \in Onward(p[i - 1])
    <3>1. i - 1 \in 1..Len(p) - 1 /\ (i - 1) + 1 = i
      BY <2>2, TrailKeys
    <3>2. p[i] \in DOMAIN prev /\ prev[p[i]] = p[i - 1]
      BY <2>2, <3>1 DEF Trail
    <3> QED BY <3>2 DEF Links
  <2> QED BY <2>1, <2>2, <2>3, <2>4 DEF Trail
<1> QED BY <1>1, TrailsAlways, PTL

=============================================================================
