----------------------------- MODULE PricingProofs -----------------------------
(***************************************************************************)
(* Theorems about what a ticket costs.                                     *)
(*                                                                         *)
(* Promotions: the usage counter never runs ahead, for any number of       *)
(* requests.  A save may even turn it back, so that it is compared with    *)
(* the uses that have been counted or given up, which only grow and of     *)
(* which a request about to save is not one.                               *)
(*                                                                         *)
(* Fares: the plan of a journey and its price, on every map and for every  *)
(* order in which transport-service lists its routes.  That failed calls   *)
(* cost nobody more goes leg by leg: a count that replaced a failed one is *)
(* at most 5 or counts one station of the ride, so its tier is no higher,  *)
(* and tiers, factors, percentages and rounding only grow.                 *)
(***************************************************************************)
EXTENDS PromotionUsage, FarePricing, FiniteSetTheorems, WellFoundedInduction, TLAPS

-----------------------------------------------------------------------------
(* Promotions.                                                             *)

USE DEF vars, Kinds, Steps, Goto

\* The uses nobody is going to count any more.
Settled == {u \in granted : uses[u].step \notin {"read", "count"}}

CountBehind ==
    /\ promo.count <= Cardinality(Settled)
    /\ \A u \in Uses : uses[u].step = "count" => uses[u].copy <= Cardinality(Settled)

\* A request has the benefit only after its price.
Once == \A u \in granted : uses[u].step \in {"read", "count", "done"}

Inv == TypeOK /\ Once /\ CountBehind

LEMMA SettledIsFinite ==
    ASSUME TypeOK, UsesAssumption
    PROVE  /\ IsFiniteSet(Settled) /\ Cardinality(Settled) \in Nat
           /\ Cardinality(Settled) <= Cardinality(Uses) /\ Cardinality(Uses) \in Nat
           /\ IsFiniteSet(granted)
           /\ Cardinality(Settled) <= Cardinality(granted) /\ Cardinality(granted) \in Nat
<1>1. Settled \subseteq granted /\ granted \subseteq Uses /\ IsFiniteSet(Uses)
  BY DEF Settled, TypeOK, UsesAssumption
<1>2. IsFiniteSet(granted)
  BY <1>1, FS_Subset
<1>3. IsFiniteSet(Settled) /\ Cardinality(Settled) <= Cardinality(granted)
  BY <1>1, <1>2, FS_Subset
<1>4. Cardinality(Settled) <= Cardinality(Uses)
  BY <1>1, FS_Subset
<1> QED BY <1>1, <1>2, <1>3, <1>4, FS_CardinalityType

LEMMA InitInv == ASSUME Init, UsesAssumption PROVE Inv
<1>1. Cardinality(Uses) \in Nat
  BY FS_CardinalityType DEF UsesAssumption
<1>2. TypeOK
  <2>1. 0 \in 0..Cardinality(Uses)
    BY <1>1
  <2>2. \A u \in Uses : uses[u] \in [step : {"new"}, kind : {"short", "pass", "apply"}, copy : {0}]
    BY DEF Init
  <2>3. uses \in [Uses -> [step : Steps, kind : Kinds, copy : 0..Cardinality(Uses)]]
    BY <2>1, <2>2 DEF Init
  <2>4. promo \in [exists : BOOLEAN, active : BOOLEAN, count : 0..Cardinality(Uses)]
    BY <2>1 DEF Init
  <2> QED BY <2>3, <2>4 DEF Init, TypeOK
<1>3. Settled = {}
  BY DEF Init, Settled
<1>4. CountBehind
  BY <1>2, <1>3, FS_EmptySet DEF Init, CountBehind
<1> QED BY <1>2, <1>4 DEF Init, Inv, Once

\* A step that makes no copy and no save keeps the bound if no use is unsettled by it.
LEMMA SettledGrows ==
    ASSUME Inv, TypeOK', UsesAssumption,
           promo'.count = promo.count, Settled \subseteq Settled',
           \A u \in Uses : uses'[u].step = "count" =>
                              uses[u].step = "count" /\ uses'[u].copy = uses[u].copy
    PROVE  CountBehind'
<1>1. IsFiniteSet(Settled') /\ Cardinality(Settled') \in Nat
  <2>1. Settled' \subseteq Uses
    BY DEF Settled, TypeOK
  <2> QED BY <2>1, FS_Subset, FS_CardinalityType DEF UsesAssumption
<1>2. Cardinality(Settled) <= Cardinality(Settled')
  BY <1>1, FS_Subset
<1>3. Cardinality(Settled) \in Nat
  BY SettledIsFinite DEF Inv
<1> QED BY <1>1, <1>2, <1>3 DEF Inv, CountBehind, TypeOK

LEMMA SaveInv ==
    ASSUME Inv, UsesAssumption, NEW u \in Uses, SaveCount(u)
    PROVE  Inv'
<1>1. Settled' = Settled \cup {u} /\ u \notin Settled
  BY DEF SaveCount, Settled, Inv, TypeOK
<1>2. IsFiniteSet(Settled) /\ Cardinality(Settled) \in Nat /\ Cardinality(Uses) \in Nat
  BY SettledIsFinite DEF Inv
<1>3. Cardinality(Settled') = Cardinality(Settled) + 1
  BY <1>1, <1>2, FS_AddElement
<1>4. Settled' \subseteq Uses
  BY <1>1 DEF Settled, Inv, TypeOK
<1>5. Cardinality(Settled') <= Cardinality(Uses)
  BY <1>4, FS_Subset DEF UsesAssumption
<1>6. uses[u].copy \in Nat /\ uses[u].copy <= Cardinality(Settled)
  BY <1>2 DEF SaveCount, Inv, CountBehind, TypeOK
<1>7. promo'.count \in Nat /\ promo'.count <= Cardinality(Settled')
  BY <1>2, <1>3, <1>6 DEF SaveCount, Inv, CountBehind, TypeOK
<1>8. TypeOK'
  BY <1>2, <1>3, <1>5, <1>7 DEF SaveCount, Inv, TypeOK
<1>9. CountBehind'
  BY <1>2, <1>3, <1>7 DEF SaveCount, Inv, CountBehind, TypeOK
<1>10. Once'
  BY DEF SaveCount, Inv, Once, TypeOK
<1> QED BY <1>8, <1>9, <1>10 DEF Inv

LEMMA ReadInv ==
    ASSUME Inv, UsesAssumption, NEW u \in Uses, ReadCount(u)
    PROVE  Inv'
<1>1. TypeOK' /\ Once'
  BY DEF ReadCount, Inv, TypeOK, Once
<1>2. CASE promo.exists /\ (uses[u].kind = "apply" => promo.active)
  <2>1. Settled' = Settled
    BY <1>2 DEF ReadCount, Settled, Inv, TypeOK
  <2>2. CountBehind'
    BY <1>2, <2>1 DEF ReadCount, Inv, CountBehind, TypeOK
  <2> QED BY <1>1, <2>2 DEF Inv
<1>3. CASE ~(promo.exists /\ (uses[u].kind = "apply" => promo.active))
  <2>1. Settled \subseteq Settled'
    BY <1>3 DEF ReadCount, Settled, Inv, TypeOK
  <2>2. CountBehind'
    BY <1>1, <1>3, <2>1, SettledGrows DEF ReadCount, Inv, TypeOK
  <2> QED BY <1>1, <2>2 DEF Inv
<1> QED BY <1>2, <1>3

LEMMA StepInv ==
    ASSUME Inv, UsesAssumption, [Next]_vars
    PROVE  Inv'
<1> USE DEF Inv, Once
<1>1. CASE UNCHANGED vars
  BY <1>1 DEF TypeOK, CountBehind, Settled
<1>2. ASSUME NEW u \in Uses, Price(u) \/ Refuse(u) \/ Sell(u) \/ SellFails(u)
      PROVE  Inv'
  <2>1. TypeOK' /\ Once'
    <3>1. CASE Price(u)
      BY <3>1 DEF Price, TypeOK
    <3>2. CASE Refuse(u)
      BY <3>2 DEF Refuse, TypeOK
    <3>3. CASE Sell(u)
      BY <3>3 DEF Sell, TypeOK
    <3>4. CASE SellFails(u)
      BY <3>4 DEF SellFails, TypeOK
    <3> QED BY <1>2, <3>1, <3>2, <3>3, <3>4
  <2>2. Settled' = Settled
    BY <1>2 DEF Price, Refuse, Sell, SellFails, Settled, TypeOK
  <2>3. CountBehind'
    BY <1>2, <2>1, <2>2, SettledGrows DEF Price, Refuse, Sell, SellFails, TypeOK
  <2> QED BY <2>1, <2>3
<1>3. ASSUME NEW u \in Uses, SellFree(u) \/ Uncounted(u)
      PROVE  Inv'
  <2>1. TypeOK' /\ Once'
    <3>1. CASE SellFree(u)
      BY <3>1 DEF SellFree, TypeOK
    <3>2. CASE Uncounted(u)
      BY <3>2 DEF Uncounted, TypeOK
    <3> QED BY <1>3, <3>1, <3>2
  <2>2. Settled \subseteq Settled'
    BY <1>3 DEF SellFree, Uncounted, Settled, TypeOK
  <2>3. CountBehind'
    BY <1>3, <2>1, <2>2, SettledGrows DEF SellFree, Uncounted, TypeOK
  <2> QED BY <2>1, <2>3
<1>4. ASSUME NEW u \in Uses, ReadCount(u)
      PROVE  Inv'
  BY <1>4, ReadInv
<1>5. ASSUME NEW u \in Uses, SaveCount(u)
      PROVE  Inv'
  BY <1>5, SaveInv
<1>6. ASSUME (\E u \in Uses : Pay(u)) \/ SetActive \/ CheckTickets \/ Destroy
      PROVE  Inv'
  <2>1. TypeOK' /\ Once'
    BY <1>6 DEF Pay, SetActive, CheckTickets, Destroy, TypeOK
  <2>2. Settled' = Settled /\ uses' = uses /\ promo'.count = promo.count
    BY <1>6 DEF Pay, SetActive, CheckTickets, Destroy, Settled, TypeOK
  <2>3. CountBehind'
    BY <2>1, <2>2, SettledGrows
  <2> QED BY <2>1, <2>3
<1> QED BY <1>1, <1>2, <1>3, <1>4, <1>5, <1>6 DEF Next, Step

LEMMA Always == Spec => []Inv
<1>1. Init => Inv
  BY InitInv, UsesAssumption
<1>2. Inv /\ [Next]_vars => Inv'
  BY StepInv, UsesAssumption
<1> QED BY <1>1, <1>2, PTL DEF Spec

\* The promotion, its requests and its tickets have their types, the counter never passes
\* the number of requests, and no ticket keeps the id of a deleted promotion.
THEOREM TypeCorrect == Spec => []TypeOK
<1>1. Inv => TypeOK
  BY DEF Inv
<1> QED BY <1>1, Always, PTL

\* For any number of requests that overlap, fail or die, usageCount never exceeds the uses
\* there were.
THEOREM CounterCovered == Spec => []NeverOvercounted
<1>1. Inv => NeverOvercounted
  <2> SUFFICES ASSUME Inv
               PROVE  promo.count <= Cardinality(granted)
    BY DEF NeverOvercounted
  <2>1. promo.count \in Nat /\ promo.count <= Cardinality(Settled)
    BY SettledIsFinite, UsesAssumption DEF Inv, TypeOK, CountBehind
  <2> QED BY <2>1, SettledIsFinite, UsesAssumption DEF Inv
<1> QED BY <1>1, Always, PTL

HIDE DEF Goto

\* Of requests that come one after the other: the one under way had its price below the
\* limit, what it counts is what it read, and everything granted before it is counted.
InTurn ==
    /\ \A u, v \in UnderWay : u = v
    /\ Cardinality(granted) <= Limit
    /\ \A u \in UnderWay :
          /\ uses[u].step = "sell" => uses[u].kind # "apply"
          /\ u \in granted <=> uses[u].step # "sell" /\ uses[u].kind # "apply"
          /\ u \notin granted => Cardinality(granted) < Limit
          /\ promo.exists /\ u \in granted => promo.count + 1 = Cardinality(granted)
          /\ promo.exists /\ u \notin granted => promo.count = Cardinality(granted)
          /\ promo.exists /\ uses[u].step = "count" => uses[u].copy = promo.count
    /\ promo.exists /\ UnderWay = {} => promo.count = Cardinality(granted)

AloneInv == ~disturbed => InTurn

\* The request that goes to a step is the only one that moves.
LEMMA Went ==
    ASSUME TypeOK, NEW u \in Uses, NEW step \in Steps, Goto(u, step)
    PROVE  /\ UnderWay' = IF step \in {"sell", "read", "count"} THEN UnderWay \cup {u}
                                                              ELSE UnderWay \ {u}
           /\ uses'[u].step = step /\ uses'[u].kind = uses[u].kind
           /\ uses'[u].copy = uses[u].copy
           /\ \A v \in Uses \ {u} : uses'[v] = uses[v]
<1>1. /\ uses'[u].step = step /\ uses'[u].kind = uses[u].kind
      /\ uses'[u].copy = uses[u].copy
      /\ \A v \in Uses \ {u} : uses'[v] = uses[v]
  BY DEF TypeOK, Goto
<1>2. CASE step \in {"sell", "read", "count"}
  BY <1>1, <1>2 DEF UnderWay
<1>3. CASE step \notin {"sell", "read", "count"}
  BY <1>1, <1>3 DEF UnderWay
<1> QED BY <1>1, <1>2, <1>3

LEMMA Only ==
    ASSUME InTurn, NEW u \in UnderWay
    PROVE  UnderWay = {u}
BY DEF InTurn

LEMMA AloneStep ==
    ASSUME Inv, AloneInv, [Next]_vars, UsesAssumption, LimitAssumption, ~disturbed'
    PROVE  InTurn'
<1>0. ~disturbed
  <2>1. CASE \E u \in Uses : Price(u)
    BY <2>1 DEF Price
  <2>2. CASE \E u \in Uses : Uncounted(u)
    BY <2>2 DEF Uncounted
  <2>3. CASE \E u \in Uses : SellFree(u)
    BY <2>3 DEF SellFree
  <2>4. CASE UNCHANGED disturbed
    BY <2>4
  <2>5. ASSUME NEW u \in Uses, Refuse(u) \/ Sell(u) \/ SellFails(u) \/ ReadCount(u) \/ SaveCount(u)
                               \/ Pay(u)
        PROVE  UNCHANGED disturbed
    BY <2>5 DEF Refuse, Sell, SellFails, ReadCount, SaveCount, Pay
  <2>6. CASE SetActive \/ CheckTickets \/ Destroy \/ UNCHANGED vars
    BY <2>6 DEF SetActive, CheckTickets, Destroy
  <2> QED BY <2>1, <2>2, <2>3, <2>4, <2>5, <2>6 DEF Next, Step
<1>1. /\ InTurn /\ TypeOK /\ Once
      /\ IsFiniteSet(granted) /\ Cardinality(granted) \in Nat /\ Limit \in Nat /\ Limit > 0
      /\ promo.count \in Nat
  BY <1>0, SettledIsFinite DEF AloneInv, Inv, LimitAssumption, TypeOK
<1>2. ASSUME NEW u \in Uses, Price(u) PROVE InTurn'
  <2>0. UnderWay = {}
    BY <1>0, <1>2 DEF Price
  <2>1. /\ UnderWay' = {u} /\ u \notin granted
        /\ UNCHANGED <<promo, granted>> /\ promo.exists /\ promo.count < Limit
        /\ uses'[u].step = (IF uses[u].kind = "apply" THEN "read" ELSE "sell")
        /\ uses'[u].kind = uses[u].kind
    BY <1>1, <1>2, <2>0, Went DEF Price, Valid, Once
  <2> QED BY <1>1, <2>0, <2>1 DEF InTurn
<1>3. ASSUME NEW u \in Uses, Refuse(u) PROVE InTurn'
  <2>1. /\ UnderWay' = UnderWay /\ UNCHANGED <<promo, granted>>
        /\ \A v \in UnderWay : uses'[v] = uses[v]
    BY <1>1, <1>3, Went DEF Refuse, UnderWay
  <2> QED BY <1>1, <2>1 DEF InTurn
<1>4. ASSUME NEW u \in Uses, Sell(u) PROVE InTurn'
  <2>0. UnderWay = {u}
    BY <1>1, <1>4, Only DEF Sell, UnderWay
  <2>1. /\ UnderWay' = {u} /\ promo' = promo /\ granted' = granted \cup {u}
        /\ uses'[u].step = "read" /\ uses'[u].kind = uses[u].kind
    BY <1>1, <1>4, <2>0, Went DEF Sell
  <2>2. u \notin granted /\ uses[u].kind # "apply"
    BY <1>1, <1>4, <2>0 DEF Sell, Once, InTurn
  <2>3. Cardinality(granted') = Cardinality(granted) + 1
    BY <1>1, <2>1, <2>2, FS_AddElement
  <2> QED BY <1>1, <2>0, <2>1, <2>2, <2>3 DEF InTurn
<1>5. ASSUME NEW u \in Uses, SellFails(u) PROVE InTurn'
  <2>0. UnderWay = {u}
    BY <1>1, <1>5, Only DEF SellFails, UnderWay
  <2>1. /\ UnderWay' = {} /\ promo' = promo /\ granted' = granted
        /\ uses[u].step = "sell"
    BY <1>1, <1>5, <2>0, Went DEF SellFails
  <2> QED BY <1>1, <2>0, <2>1 DEF InTurn
<1>6. ASSUME NEW u \in Uses, ReadCount(u) PROVE InTurn'
  <2>0. UnderWay = {u}
    BY <1>1, <1>6, Only DEF ReadCount, UnderWay
  <2>1. /\ promo' = promo /\ granted' = granted /\ uses[u].step = "read"
    BY <1>1, <1>6, <2>0, Went DEF ReadCount
  <2>2. CASE promo.exists /\ (uses[u].kind = "apply" => promo.active)
    <3>1. /\ uses'[u].step = "count" /\ uses'[u].kind = uses[u].kind
          /\ uses'[u].copy = promo.count
          /\ \A v \in Uses \ {u} : uses'[v] = uses[v]
      BY <1>1, <1>6, <2>2 DEF ReadCount, TypeOK
    <3>2. UnderWay' = {u}
      BY <2>0, <3>1 DEF UnderWay
    <3> QED BY <1>1, <2>0, <2>1, <3>1, <3>2 DEF InTurn
  <2>3. CASE ~(promo.exists /\ (uses[u].kind = "apply" => promo.active))
    <3>1. UnderWay' = {}
      BY <1>1, <1>6, <2>0, <2>3, Went DEF ReadCount
    <3> QED BY <1>1, <2>0, <2>1, <2>3, <3>1 DEF InTurn
  <2> QED BY <2>2, <2>3
<1>7. ASSUME NEW u \in Uses, SaveCount(u) PROVE InTurn'
  <2>0. UnderWay = {u}
    BY <1>1, <1>7, Only DEF SaveCount, UnderWay
  <2>1. /\ UnderWay' = {} /\ granted' = granted \cup {u}
        /\ uses[u].step = "count" /\ promo'.exists = promo.exists
        /\ promo.exists => promo'.count = uses[u].copy + 1
    BY <1>1, <1>7, <2>0, Went DEF SaveCount
  <2>2. CASE u \in granted
    <3>1. granted' = granted
      BY <2>1, <2>2
    <3> QED BY <1>1, <2>0, <2>1, <2>2, <3>1 DEF InTurn
  <2>3. CASE u \notin granted
    <3>1. Cardinality(granted') = Cardinality(granted) + 1
      BY <1>1, <2>0, <2>1, <2>3, FS_AddElement
    <3> QED BY <1>1, <2>0, <2>1, <2>3, <3>1 DEF InTurn
  <2> QED BY <2>2, <2>3
<1>8. ASSUME NEW u \in Uses, Uncounted(u) PROVE InTurn'
  <2>0. UnderWay = {u}
    BY <1>1, <1>8, Only DEF Uncounted, UnderWay
  <2>1. /\ UnderWay' = {} /\ promo' = promo /\ granted' = granted
    BY <1>1, <1>8, <2>0, Went DEF Uncounted
  <2>2. uses[u].kind = "apply"
    BY <1>8 DEF Uncounted
  <2>3. u \notin granted
    BY <1>1, <2>0, <2>2 DEF InTurn
  <2> QED BY <1>1, <2>0, <2>1, <2>3 DEF InTurn
<1>9. CASE (\E u \in Uses : Pay(u)) \/ SetActive \/ CheckTickets \/ Destroy \/ UNCHANGED vars
  <2>1. /\ UNCHANGED <<uses, granted>> /\ UnderWay' = UnderWay
        /\ promo'.count = promo.count /\ (promo'.exists => promo.exists)
    BY <1>1, <1>9 DEF Pay, SetActive, CheckTickets, Destroy, UnderWay, TypeOK
  <2> QED BY <1>1, <2>1 DEF InTurn
<1>10. ASSUME NEW u \in Uses PROVE ~SellFree(u)
  BY DEF SellFree
<1> QED BY <1>2, <1>3, <1>4, <1>5, <1>6, <1>7, <1>8, <1>9, <1>10 DEF Next, Step

\* The limit holds for requests that come one after the other, however many there are and
\* whatever fails or is deleted between their steps.
THEOREM LimitKept == Spec => []LimitKeptAlone
<1>1. Init => AloneInv
  <2> SUFFICES ASSUME Init PROVE InTurn
    BY DEF AloneInv
  <2>1. UnderWay = {} /\ Cardinality(granted) = 0 /\ promo.count = 0
    BY FS_EmptySet DEF Init, UnderWay
  <2> QED BY <2>1, LimitAssumption DEF InTurn, LimitAssumption
<1>2. Inv /\ AloneInv /\ [Next]_vars => AloneInv'
  BY AloneStep, UsesAssumption, LimitAssumption DEF AloneInv
<1>3. AloneInv => LimitKeptAlone
  BY DEF AloneInv, InTurn, LimitKeptAlone
<1> QED BY <1>1, <1>2, <1>3, Always, PTL DEF Spec

-----------------------------------------------------------------------------
(* Fares.                                                                  *)

HIDE DEF vars, Kinds, Steps

LEMMA LeastIndex ==
    ASSUME NEW T, T \subseteq Nat, T # {}
    PROVE  \E x \in T : \A y \in T : x <= y
<1> DEFINE R == OpToRel(<, Nat)
<1>1. IsWellFoundedOn(R, Nat)
  BY NatLessThanWellFounded
<1>2. PICK x \in T : \A y \in T : <<y, x>> \notin R
  <2> HIDE DEF R
  <2> QED BY <1>1, WFMin
<1>3. \A y \in T : ~(y < x)
  BY <1>2 DEF OpToRel
<1> QED BY <1>3

\* The first element in a set is an element of the sequence in the set, if there is one.
LEMMA FirstIsIn ==
    ASSUME NEW S, NEW seq \in Seq(S), NEW set, ToSet(seq) \cap set # {}
    PROVE  FirstIn(seq, set) \in ToSet(seq) \cap set
<1> DEFINE T == {i \in DOMAIN seq : seq[i] \in set}
<1>1. T \subseteq Nat /\ T # {}
  BY DEF ToSet
<1> HIDE DEF T
<1>2. Min(T) \in T
  BY <1>1, LeastIndex DEF Min
<1>3. Min(T) \in DOMAIN seq /\ seq[Min(T)] \in set
  BY <1>2 DEF T
<1> QED BY <1>3 DEF FirstIn, ToSet, T

LegSet == [route : DOMAIN net, from : StationsOf(net), to : StationsOf(net), count : Int]

\* What planJourney leaves behind, and counting keeps: with a common route one ride on
\* it, else with a route that meets the first one two, that meet.
Planned ==
    legs # << >> =>
       /\ Len(legs) \in {1, 2}
       /\ Common # {} => Len(legs) = 1 /\ RidesFrom(ask.from, ask.to)
       /\ Common = {} /\ Meeting # {} => RidesFrom(ask.from, ask.to)

Found ==
    /\ fromRoutes # << >> /\ toRoutes # << >>
    /\ ToSet(fromRoutes) \subseteq Serving(ask.from)
    /\ ToSet(toRoutes) \subseteq Serving(ask.to)

PlanInv ==
    /\ net \in Networks
    /\ pc \in {"idle", "find", "plan", "count", "price", "quoted", "failed"}
    /\ fromRoutes \in Seq(DOMAIN net) /\ toRoutes \in Seq(DOMAIN net)
    /\ legs \in Seq(LegSet)
    /\ pc \in {"count", "price", "quoted"} => legs # << >>
    /\ pc \in {"idle", "find", "plan"} => legs = << >>
    /\ pc \notin {"idle", "failed"} =>
          {ask.from, ask.to} \subseteq StationsOf(net)
    /\ pc = "plan" \/ legs # << >> => Found
    /\ Planned

LEMMA PlanInit == ASSUME FareInit PROVE PlanInv
BY DEF FareInit, PlanInv, Planned

LEMMA RouteStations ==
    ASSUME net \in Networks, NEW id \in DOMAIN net
    PROVE  /\ net[id] \in Seq(StationsOf(net))
           /\ ToSet(net[id]) \subseteq StationsOf(net)
BY NetworkAssumption DEF StationsOf

LEMMA LegIsOne ==
    ASSUME NEW route \in DOMAIN net, NEW from \in StationsOf(net), NEW to \in StationsOf(net)
    PROVE  /\ Leg(route, from, to) \in LegSet
           /\ Leg(route, from, to).route = route
           /\ Leg(route, from, to).from = from
           /\ Leg(route, from, to).to = to
BY DEF Leg, LegSet, Unknown

\* As long as the map, the journey and the routes found are the same.
LEMMA SameJourney ==
    ASSUME UNCHANGED <<net, ask, fromRoutes, toRoutes>>
    PROVE  /\ LegSet' = LegSet /\ Found' = Found
           /\ Common' = Common /\ Meeting' = Meeting
           /\ \A leg : Rides(leg)' = Rides(leg)
<1>1. LegSet' = LegSet
  BY DEF LegSet
<1>2. Found' = Found
  BY DEF Found, Serving
<1>3. Common' = Common /\ Meeting' = Meeting
  BY DEF Common, Meeting, FindConnections
<1>4. \A leg : Rides(leg)' = Rides(leg)
  BY DEF Rides
<1> QED BY <1>1, <1>2, <1>3, <1>4

LEMMA PlanDirectInv ==
    ASSUME PlanInv, PlanDirect
    PROVE  PlanInv'
<1> DEFINE r == FirstIn(fromRoutes, Common)
           leg == Leg(r, ask.from, ask.to)
<1>1. /\ Found /\ pc' = "count" /\ legs' = <<leg>> /\ Common # {}
      /\ UNCHANGED <<net, ask, fromRoutes, toRoutes>>
      /\ {ask.from, ask.to} \subseteq StationsOf(net)
  BY DEF PlanInv, PlanDirect, world
<1>2. r \in Common
  <2>1. ToSet(fromRoutes) \cap Common # {}
    BY <1>1 DEF Common
  <2> QED BY <2>1, FirstIsIn DEF PlanInv
<1>3. r \in DOMAIN net /\ {ask.from, ask.to} \subseteq ToSet(net[r])
  BY <1>1, <1>2 DEF Found, Serving, Common
<1> HIDE DEF r
<1>4. leg \in LegSet /\ leg.route = r /\ leg.from = ask.from /\ leg.to = ask.to
  BY <1>1, <1>3, LegIsOne
<1> HIDE DEF leg
<1>5. legs' \in Seq(LegSet) /\ Len(legs') = 1 /\ legs' # << >> /\ legs'[1] = leg /\ DOMAIN legs' = {1}
  BY <1>1, <1>4
<1>6. RidesFrom(ask.from, ask.to)'
  BY <1>1, <1>3, <1>4, <1>5 DEF RidesFrom, Rides
<1>7. Found' /\ LegSet' = LegSet
  BY <1>1, SameJourney
<1>8. Planned'
  BY <1>1, <1>5, <1>6 DEF Planned, Common, ToSet
<1> QED BY <1>1, <1>5, <1>7, <1>8 DEF PlanInv, StationsOf, ToSet

LEMMA PlanTransferInv ==
    ASSUME PlanInv, PlanTransfer
    PROVE  PlanInv'
<1> DEFINE r1 == fromRoutes[1]
           r2 == FirstIn(toRoutes, Meeting)
           hub == Connection(r1, r2)
           S == StationsOf(net)
<1>1. /\ Found /\ pc' = "count" /\ Common = {}
      /\ UNCHANGED <<net, ask, fromRoutes, toRoutes>>
      /\ {ask.from, ask.to} \subseteq S /\ net \in Networks
      /\ legs' = IF Meeting = {} THEN << Leg(r1, ask.from, ask.to) >>
                 ELSE TwoLegs(r1, r2)
  BY DEF PlanInv, PlanTransfer, world
<1>2. r1 \in DOMAIN net /\ r1 \in ToSet(fromRoutes)
  BY <1>1 DEF PlanInv, Found, ToSet
<1>3. /\ fromRoutes' = fromRoutes /\ toRoutes' = toRoutes /\ LegSet' = LegSet
      /\ Common' = Common /\ Meeting' = Meeting /\ Found'
      /\ \A leg : Rides(leg)' = Rides(leg)
  BY <1>1, SameJourney
<1>4. CASE Meeting = {}
  <2>1. Leg(r1, ask.from, ask.to) \in LegSet /\ legs' = << Leg(r1, ask.from, ask.to) >>
    BY <1>1, <1>2, <1>4, LegIsOne
  <2>2. legs' \in Seq(LegSet) /\ Len(legs') = 1 /\ legs' # << >>
    BY <2>1
  <2> QED BY <1>1, <1>3, <1>4, <2>2 DEF PlanInv, Planned, StationsOf, ToSet
<1>5. CASE Meeting # {}
  <2>1. r2 \in Meeting
    <3>1. ToSet(toRoutes) \cap Meeting # {}
      BY <1>5 DEF Meeting
    <3> QED BY <3>1, FirstIsIn DEF PlanInv
  <2>2. /\ r2 \in DOMAIN net /\ r2 \in ToSet(toRoutes)
        /\ FindConnections(r1, r2) # {}
    BY <1>1, <2>1 DEF Meeting, Found, Serving
  <2> HIDE DEF r2, r1
  <2>3. hub \in ToSet(net[r1]) /\ hub \in ToSet(net[r2]) /\ hub \in S
    <3>1. ToSet(net[r1]) \cap FindConnections(r1, r2) # {}
      BY <2>2 DEF FindConnections
    <3>2. hub \in ToSet(net[r1]) \cap FindConnections(r1, r2)
      BY <1>1, <1>2, <3>1, FirstIsIn, RouteStations DEF Connection
    <3> QED BY <1>1, <1>2, <3>2, RouteStations DEF FindConnections
  <2> HIDE DEF hub
  <2> DEFINE a == Leg(r1, ask.from, hub)
             b == Leg(r2, hub, ask.to)
  <2>4. legs' = <<a, b>>
    BY <1>1, <1>5 DEF TwoLegs, hub
  <2>5. /\ a \in LegSet /\ a.route = r1 /\ a.from = ask.from /\ a.to = hub
        /\ b \in LegSet /\ b.route = r2 /\ b.from = hub /\ b.to = ask.to
    BY <1>1, <1>2, <2>2, <2>3, LegIsOne
  <2>6. Rides(a) /\ Rides(b)
    BY <1>1, <1>2, <2>2, <2>3, <2>5 DEF Rides, Found, Serving
  <2> HIDE DEF a, b
  <2>7. /\ legs' \in Seq(LegSet) /\ Len(legs') = 2 /\ legs' # << >>
        /\ legs'[1] = a /\ legs'[2] = b /\ DOMAIN legs' = {1, 2}
    BY <2>4, <2>5
  <2>8. RidesFrom(ask.from, ask.to)'
    <3>1. \A i \in 1..(Len(legs') - 1) : i = 1
      BY <2>7
    <3> QED BY <1>1, <1>3, <2>5, <2>6, <2>7, <3>1 DEF RidesFrom
  <2> QED BY <1>1, <1>3, <2>7, <2>8 DEF PlanInv, Planned, StationsOf, ToSet
<1> QED BY <1>4, <1>5

\* The stations between two of a route are a natural number.
LEMMA ApartIsNatural ==
    ASSUME net \in Networks, NEW leg, leg.route \in DOMAIN net, Rides(leg)
    PROVE  Apart(leg) \in Nat
<1> DEFINE S == net[leg.route]
<1>1. DOMAIN S \subseteq Nat
  BY RouteStations
<1>2. ASSUME NEW s \in ToSet(S) PROVE Position(leg.route, s) \in DOMAIN S
  BY DEF Position, ToSet
<1>3. Position(leg.route, leg.from) \in Nat /\ Position(leg.route, leg.to) \in Nat
  BY <1>1, <1>2 DEF Rides
<1> QED BY <1>3 DEF Apart

LEMMA CountInv ==
    ASSUME PlanInv, NEW how \in {"call", "here", "estimate"}, Count(how)
    PROVE  PlanInv'
<1>1. PICK i \in DOMAIN legs :
         /\ how # "estimate" => Rides(legs[i])
         /\ legs' = [legs EXCEPT ![i].count =
                        CASE how = "call"     -> Counted(legs[i])
                          [] how = "here"     -> CountedHere(legs[i])
                          [] how = "estimate" -> Estimated(legs[i])]
  BY DEF Count
<1>2. legs[i] \in LegSet /\ net \in Networks /\ legs \in Seq(LegSet)
  BY DEF PlanInv
<1>3. PICK n \in Int : legs' = [legs EXCEPT ![i].count = n]
  <2> DEFINE n == CASE how = "call"     -> Counted(legs[i])
                    [] how = "here"     -> CountedHere(legs[i])
                    [] how = "estimate" -> Estimated(legs[i])
  <2>1. how # "estimate" => Apart(legs[i]) \in Nat
    BY <1>1, <1>2, ApartIsNatural DEF LegSet
  <2>2. /\ how = "call" => n = Apart(legs[i]) + 1
        /\ how = "here" => n = Apart(legs[i])
        /\ how = "estimate" => n = 1 \/ n = 5
    BY DEF Counted, CountedHere, Estimated
  <2>3. legs' = [legs EXCEPT ![i].count = n]
    BY <1>1
  <2> HIDE DEF n
  <2>4. n \in Int
    BY <2>1, <2>2
  <2> QED BY <2>3, <2>4
<1>4. /\ legs' \in Seq(LegSet) /\ Len(legs') = Len(legs) /\ DOMAIN legs' = DOMAIN legs
      /\ \A k \in DOMAIN legs : /\ legs'[k].route = legs[k].route
                                /\ legs'[k].from = legs[k].from /\ legs'[k].to = legs[k].to
  <2>1. [legs[i] EXCEPT !.count = n] \in LegSet
    BY <1>2, <1>3 DEF LegSet
  <2>2. legs' = [legs EXCEPT ![i] = [legs[i] EXCEPT !.count = n]]
    BY <1>2, <1>3
  <2>3. \A k \in DOMAIN legs : legs[k] \in LegSet
    BY <1>2
  <2>4. legs' \in Seq(LegSet) /\ Len(legs') = Len(legs) /\ DOMAIN legs' = DOMAIN legs
    <3> HIDE DEF LegSet
    <3> QED BY <1>2, <2>1, <2>2
  <2> QED BY <2>2, <2>3, <2>4 DEF LegSet
<1>5. /\ pc = "count" /\ pc' \in {"count", "price"} /\ legs # << >> /\ legs' # << >>
      /\ UNCHANGED <<net, ask, fromRoutes, toRoutes>>
  BY <1>2, <1>4 DEF Count, world, PlanInv
<1>6. /\ LegSet' = LegSet /\ Found' = Found
      /\ Common' = Common /\ Meeting' = Meeting
  BY <1>5, SameJourney
<1>7. RidesFrom(ask.from, ask.to) => RidesFrom(ask.from, ask.to)'
  <2>1. Len(legs) \in Nat /\ DOMAIN legs = 1..Len(legs) /\ Len(legs) >= 1
    BY <1>2, <1>5
  <2>2. \A k \in DOMAIN legs : Rides(legs[k]) => Rides(legs[k])' /\ Rides(legs'[k])
    BY <1>4, <1>5 DEF Rides
  <2>3. \A k \in 1..(Len(legs) - 1) : k \in DOMAIN legs /\ k + 1 \in DOMAIN legs
    BY <2>1
  <2>4. 1 \in DOMAIN legs /\ Len(legs) \in DOMAIN legs
    BY <2>1
  <2> QED BY <1>4, <1>5, <2>2, <2>3, <2>4 DEF RidesFrom, Rides
<1>8. Planned'
  BY <1>4, <1>5, <1>6, <1>7 DEF Planned, PlanInv
<1> QED BY <1>4, <1>5, <1>6, <1>8 DEF PlanInv, StationsOf, ToSet

LEMMA OrdersAreSeqs ==
    ASSUME net \in Networks, NEW found \in Orders(DOMAIN net)
    PROVE  found \in Seq(DOMAIN net)
<1>1. PICK ids \in SUBSET DOMAIN net : found \in SetToSeqs(ids)
  BY DEF Orders
<1>2. IsFiniteSet(ids)
  BY FS_Subset, NetworkAssumption
<1>3. Cardinality(ids) \in Nat
  BY <1>2, FS_CardinalityType
<1>4. found \in [1..Cardinality(ids) -> ids]
  BY <1>1 DEF SetToSeqs
<1> QED BY <1>3, <1>4

LEMMA FindRoutesInv ==
    ASSUME PlanInv, NEW foundFrom \in Orders(DOMAIN net),
           NEW foundTo \in Orders(DOMAIN net), FindRoutes(foundFrom, foundTo)
    PROVE  PlanInv'
<1>1. /\ pc = "find" /\ pc' \in {"failed", "plan"} /\ legs = << >> /\ legs' = << >>
      /\ fromRoutes' = foundFrom /\ toRoutes' = foundTo
      /\ UNCHANGED <<net, ask>>
      /\ {ask.from, ask.to} \subseteq StationsOf(net)
  BY DEF FindRoutes, world, PlanInv
<1>2. foundFrom \in Seq(DOMAIN net) /\ foundTo \in Seq(DOMAIN net)
  BY OrdersAreSeqs DEF PlanInv
<1>3. pc' = "plan" => Found'
  BY <1>1 DEF FindRoutes, Found, Serving
<1> QED BY <1>1, <1>2, <1>3 DEF PlanInv, Planned

LEMMA PlanStep == PlanInv /\ [FareNext]_fareVars => PlanInv'
<1> SUFFICES ASSUME PlanInv, [FareNext]_fareVars PROVE PlanInv'
  OBVIOUS
\* The plan is left as it is.
<1>1. ASSUME UNCHANGED <<net, ask, fromRoutes, toRoutes, legs>>,
             pc \notin {"idle", "failed"} \/ UNCHANGED pc,
             pc' \in {pc, "failed"} \/ (pc = "price" /\ pc' = "quoted")
      PROVE  PlanInv'
  <2>1. Planned' = Planned
    BY <1>1, SameJourney DEF Planned, RidesFrom
  <2> QED BY <1>1, <2>1, SameJourney DEF PlanInv
<1>2. ASSUME NEW from \in StationsOf(net), NEW to \in StationsOf(net),
             NEW trip, NEW group, Ask(from, to, trip, group)
      PROVE  PlanInv'
  <2>1. ask'.from = from /\ ask'.to = to
    BY <1>2 DEF Ask
  <2>2. /\ pc = "idle" /\ pc' \in {"failed", "find"} /\ legs' = << >>
        /\ UNCHANGED <<net, fromRoutes, toRoutes, legs>>
    BY <1>2 DEF Ask, world, PlanInv
  <2> QED BY <2>1, <2>2 DEF PlanInv, Planned
<1>3. CASE Return
  <2>1. /\ pc' = "idle" /\ fromRoutes' = << >> /\ toRoutes' = << >> /\ legs' = << >>
        /\ UNCHANGED net
    BY <1>3 DEF Return, world
  <2> QED BY <2>1 DEF PlanInv, Planned
<1>4. CASE PlanFails \/ PriceFails
  BY <1>1, <1>4 DEF PlanFails, PriceFails, Fails, world
<1>5. ASSUME NEW paid, PriceJourney(paid)
      PROVE  PlanInv'
  BY <1>1, <1>5 DEF PriceJourney, world
<1>6. CASE UNCHANGED fareVars
  BY <1>1, <1>6 DEF fareVars
<1> QED BY <1>2, <1>3, <1>4, <1>5, <1>6, FindRoutesInv, PlanDirectInv, PlanTransferInv, CountInv
        DEF FareNext

LEMMA PlanInvariant == FareSpec => []PlanInv
<1>1. FareInit => PlanInv
  BY PlanInit
<1>2. PlanInv /\ [FareNext]_fareVars => PlanInv'
  BY PlanStep
<1> QED BY <1>1, <1>2, PTL DEF FareSpec

\* On every map, whatever the order of the routes: who can stay on one route is charged
\* for one ride on it, unless a call to transport-service failed.
THEOREM DirectWhenPossible == FareSpec => []NoNeedlessTransfer
<1>1. PlanInv => NoNeedlessTransfer
  <2> SUFFICES ASSUME PlanInv, pc \in {"count", "price", "quoted"},
                      ToSet(fromRoutes) = Serving(ask.from),
                      ToSet(toRoutes) = Serving(ask.to),
                      Serving(ask.from) \cap Serving(ask.to) # {}
               PROVE  Len(legs) = 1 /\ Rides(legs[1])
    BY DEF NoNeedlessTransfer
  <2>1. Len(legs) = 1 /\ RidesFrom(ask.from, ask.to)
    BY DEF PlanInv, Planned, Common
  <2>2. 1 \in DOMAIN legs
    BY <2>1 DEF PlanInv
  <2> QED BY <2>1, <2>2 DEF RidesFrom
<1> QED BY <1>1, PlanInvariant, PTL

\* On every map, and whichever calls failed: what is charged is a ride from the origin to
\* the destination whose legs join, if the first route found meets any of the others.
THEOREM ChargedForARide == FareSpec => []LegsAreARide
<1>1. PlanInv => LegsAreARide
  <2> SUFFICES ASSUME PlanInv, legs # << >>,
                      NEW r \in ToSet(toRoutes),
                      \/ r \in ToSet(fromRoutes)
                      \/ FindConnections(fromRoutes[1], r) # {}
               PROVE  RidesFrom(ask.from, ask.to)
    BY DEF LegsAreARide
  <2>1. Common # {} \/ Meeting # {}
    BY DEF Common, Meeting
  <2> QED BY <2>1 DEF PlanInv, Planned
<1> QED BY <1>1, PlanInvariant, PTL

\* The counts of the legs: an estimate is in the first tier, and a count is not more than
\* that of the stations of the ride.
CountsFavour ==
    \A i \in DOMAIN legs :
       legs[i].count <= 5 \/ (Rides(legs[i]) /\ legs[i].count <= Counted(legs[i]))

LEMMA TierGrows ==
    ASSUME NEW a \in Int, NEW b \in Int, a <= b \/ a <= 5
    PROVE  Tier(a) <= Tier(b)
<1> DEFINE Over(n) == {limit \in {5, 10, 15, 20, 25} : n > limit}
<1>1. ASSUME NEW n \in Int PROVE IsFiniteSet(Over(n)) /\ Cardinality(Over(n)) \in Nat
  <2>1. IsFiniteSet(5..25)
    BY FS_Interval, 5 \in Int, 25 \in Int
  <2>2. Over(n) \subseteq 5..25
    OBVIOUS
  <2> QED BY <2>1, <2>2, FS_Subset, FS_CardinalityType
<1>2. Over(a) \subseteq Over(b)
  OBVIOUS
<1>3. Cardinality(Over(a)) <= Cardinality(Over(b))
  BY <1>1, <1>2, FS_Subset
<1>4. \A n \in Int : Tier(n) = 10 + 2 * Cardinality(Over(n))
  BY DEF Tier
<1> HIDE DEF Over
<1> QED BY <1>1, <1>3, <1>4

LEMMA CountsStep ==
    ASSUME PlanInv, CountsFavour, [FareNext]_fareVars
    PROVE  CountsFavour'
<1>1. ASSUME UNCHANGED <<net, legs>> PROVE CountsFavour'
  BY <1>1 DEF CountsFavour, Rides, Counted, Apart, Position
<1>2. ASSUME NEW a, NEW b, a.count = Unknown, b.count = Unknown,
             legs' = <<a>> \/ legs' = <<a, b>>
      PROVE  CountsFavour'
  <2>1. \A i \in DOMAIN legs' : legs'[i].count = -1
    <3>1. CASE legs' = <<a>>
      BY <1>2, <3>1 DEF Unknown
    <3>2. CASE legs' = <<a, b>>
      BY <1>2, <3>2 DEF Unknown
    <3> QED BY <1>2, <3>1, <3>2
  <2>2. \A i \in DOMAIN legs' : legs'[i].count <= 5
    BY <2>1
  <2> QED BY <2>2 DEF CountsFavour
<1>3. \A route, from, to : Leg(route, from, to).count = Unknown
  BY DEF Leg
<1>4. CASE PlanDirect \/ PlanTransfer
  BY <1>2, <1>3, <1>4 DEF PlanDirect, PlanTransfer, TwoLegs
<1>5. ASSUME NEW how \in {"call", "here", "estimate"}, Count(how)
      PROVE  CountsFavour'
  <2> DEFINE Value(leg) == CASE how = "call"     -> Counted(leg)
                             [] how = "here"     -> CountedHere(leg)
                             [] how = "estimate" -> Estimated(leg)
  <2>1. PICK i \in DOMAIN legs :
           /\ how # "estimate" => Rides(legs[i])
           /\ legs' = [legs EXCEPT ![i].count = Value(legs[i])]
    BY <1>5 DEF Count
  <2>2. legs[i] \in LegSet /\ legs \in Seq(LegSet) /\ net \in Networks /\ UNCHANGED net
    BY <1>5 DEF PlanInv, Count, world
  <2>3. Rides(legs[i]) => Apart(legs[i]) \in Nat
    BY <2>2, ApartIsNatural DEF LegSet
  <2>4. Value(legs[i]) <= 5 \/ (Rides(legs[i]) /\ Value(legs[i]) <= Counted(legs[i]))
    BY <2>1, <2>3 DEF Counted, CountedHere, Estimated
  <2> HIDE DEF Value
  <2>5. /\ DOMAIN legs' = DOMAIN legs
        /\ legs'[i].count = Value(legs[i])
        /\ legs'[i].route = legs[i].route /\ legs'[i].from = legs[i].from
        /\ legs'[i].to = legs[i].to
        /\ \A k \in DOMAIN legs \ {i} : legs'[k] = legs[k]
    BY <2>1, <2>2 DEF LegSet
  <2>6. ASSUME NEW k \in DOMAIN legs
        PROVE  /\ (Rides(legs[k]))' <=> Rides(legs[k])
               /\ (Counted(legs[k]))' = Counted(legs[k])
    <3>1. /\ legs'[k].route = legs[k].route /\ legs'[k].from = legs[k].from
          /\ legs'[k].to = legs[k].to
      BY <2>5
    <3> QED BY <2>2, <3>1 DEF Rides, Counted, Apart, Position
  <2> QED BY <2>4, <2>5, <2>6 DEF CountsFavour
<1>6. CASE Return
  BY <1>6 DEF Return, CountsFavour
<1>7. CASE \/ \E from, to \in StationsOf(net), trip \in Trips, g \in Groups :
                 Ask(from, to, trip, g)
           \/ \E foundFrom, foundTo \in Orders(DOMAIN net) : FindRoutes(foundFrom, foundTo)
           \/ PlanFails \/ PriceFails \/ UNCHANGED fareVars
           \/ \E paid \in {Multipliers, FullRates} : PriceJourney(paid)
  BY <1>1, <1>7 DEF Ask, FindRoutes, PlanFails, PriceFails, Fails,
                    PriceJourney, fareVars, world
<1> QED BY <1>4, <1>5, <1>6, <1>7 DEF FareNext

-----------------------------------------------------------------------------
(* Prices.                                                                 *)

LEMMA RateIsPercent ==
    ASSUME discounts \in DiscountTables, NEW t
    PROVE  Rate(t) \in 0..100
<1>1. CASE t \notin DOMAIN discounts \/ ~discounts[t].valid
  BY <1>1 DEF Rate
<1>2. CASE t \in DOMAIN discounts /\ discounts[t].valid
  <2>1. discounts[t].kind \in {"percentage", "fixed_amount", "free"} /\ discounts[t].value \in 0..100
    BY <1>2, DiscountAssumption
  <2> QED BY <1>2, <2>1 DEF Rate
<1> QED BY <1>1, <1>2

\* What the rates of a quote can be.
Percents == [Types -> 0..100]

LEMMA RatesArePercents ==
    ASSUME discounts \in DiscountTables
    PROVE  Multipliers \in Percents /\ FullRates \in Percents
BY RateIsPercent DEF Multipliers, FullRates, Percents

LEMMA ProductGrows ==
    ASSUME NEW a \in Nat, NEW b \in Nat, a <= b, NEW c \in Nat
    PROVE  a * c \in Nat /\ b * c \in Nat /\ a * c <= b * c
OBVIOUS

LEMMA RoundedGrows ==
    ASSUME NEW a \in Nat, NEW b \in Nat, a <= b
    PROVE  Rounded(a) \in Nat /\ Rounded(b) \in Nat /\ Rounded(a) <= Rounded(b)
<1>1. (a + 1000000) \div 2000000 \in Nat /\ (b + 1000000) \div 2000000 \in Nat
  OBVIOUS
<1>2. (a + 1000000) \div 2000000 <= (b + 1000000) \div 2000000
  OBVIOUS
<1> QED BY <1>1, <1>2 DEF Rounded

\* One leg or two on routes with a fare, of so many stations that count is known.
Priceable(ls) ==
    /\ Len(ls) \in {1, 2}
    /\ \A i \in 1..Len(ls) : ls[i].route \in DOMAIN fares /\ ls[i].count \in Nat

\* ls costs no more than ms.
NoDearer(ls, ms) ==
    /\ Len(ls) = Len(ms)
    /\ \A i \in 1..Len(ls) : ls[i].route = ms[i].route /\ Tier(ls[i].count) <= Tier(ms[i].count)

LEMMA TierIsNatural ==
    ASSUME NEW n
    PROVE  Tier(n) \in Nat
<1>1. IsFiniteSet(5..25)
  BY FS_Interval, 5 \in Int, 25 \in Int
<1>2. {limit \in {5, 10, 15, 20, 25} : n > limit} \subseteq 5..25
  OBVIOUS
<1>3. Cardinality({limit \in {5, 10, 15, 20, 25} : n > limit}) \in Nat
  BY <1>1, <1>2, FS_Subset, FS_CardinalityType
<1> QED BY <1>3 DEF Tier

LEMMA LegsPriceGrows ==
    ASSUME fares \in FareTables, NEW ls, NEW ms, Priceable(ls), Priceable(ms), NoDearer(ls, ms)
    PROVE  LegsPrice(ls) \in Nat /\ LegsPrice(ms) \in Nat /\ LegsPrice(ls) <= LegsPrice(ms)
<1>1. ASSUME NEW i \in 1..Len(ls)
      PROVE  /\ LegPrice(ls[i]) \in Nat /\ LegPrice(ms[i]) \in Nat
             /\ LegPrice(ls[i]) <= LegPrice(ms[i])
  <2>1. /\ fares[ls[i].route] \in Nat /\ ms[i].route = ls[i].route
        /\ Tier(ls[i].count) \in Nat /\ Tier(ms[i].count) \in Nat
        /\ Tier(ls[i].count) <= Tier(ms[i].count)
    BY TierIsNatural, FareAssumption DEF Priceable, NoDearer
  <2> QED BY <2>1, ProductGrows DEF LegPrice
<1>2. CASE Len(ls) = 1
  BY <1>1, <1>2 DEF LegsPrice, NoDearer
<1>3. CASE Len(ls) = 2
  BY <1>1, <1>3 DEF LegsPrice, NoDearer
<1> QED BY <1>2, <1>3 DEF Priceable

LEMMA TotalGrows ==
    ASSUME fares \in FareTables, NEW ls, NEW ms, Priceable(ls), Priceable(ms), NoDearer(ls, ms),
           NEW trip, NEW group \in Groups, NEW paid \in Percents
    PROVE  /\ TotalPrice(ls, trip, group, paid) \in Nat
           /\ TotalPrice(ls, trip, group, paid) <= TotalPrice(ms, trip, group, paid)
<1> DEFINE P(t) == PricePerPerson(ls, trip, paid[t])
           Q(t) == PricePerPerson(ms, trip, paid[t])
<1>1. ASSUME NEW t \in Types
      PROVE  P(t) \in Nat /\ Q(t) \in Nat /\ P(t) <= Q(t)
  <2>1. /\ LegsPrice(ls) \in Nat /\ LegsPrice(ms) \in Nat
        /\ LegsPrice(ls) <= LegsPrice(ms) /\ TripFactor(trip) \in Nat /\ paid[t] \in Nat
    BY LegsPriceGrows DEF TripFactor, Percents
  <2>2. /\ LegsPrice(ls) * TripFactor(trip) \in Nat /\ LegsPrice(ms) * TripFactor(trip) \in Nat
        /\ LegsPrice(ls) * TripFactor(trip) <= LegsPrice(ms) * TripFactor(trip)
    BY <2>1, ProductGrows
  <2>3. /\ LegsPrice(ls) * TripFactor(trip) * paid[t] \in Nat
        /\ LegsPrice(ms) * TripFactor(trip) * paid[t] \in Nat
        /\ LegsPrice(ls) * TripFactor(trip) * paid[t] <= LegsPrice(ms) * TripFactor(trip) * paid[t]
    BY <2>1, <2>2, ProductGrows
  <2> QED BY <2>3, RoundedGrows DEF PricePerPerson
<1> HIDE DEF P, Q
<1>2. ASSUME NEW t \in Types
      PROVE  /\ group[t] * P(t) \in Nat /\ group[t] * Q(t) \in Nat
             /\ group[t] * P(t) <= group[t] * Q(t)
  <2>1. group[t] \in Nat
    BY GroupAssumption
  <2>2. P(t) * group[t] \in Nat /\ Q(t) * group[t] \in Nat /\ P(t) * group[t] <= Q(t) * group[t]
    BY <1>1, <2>1, ProductGrows
  <2> QED BY <1>1, <2>1, <2>2
<1> DEFINE A(t) == group[t] * P(t)
           B(t) == group[t] * Q(t)
<1>3. /\ TotalPrice(ls, trip, group, paid)
            = A("adult") + A("elder") + A("teenager") + A("child") + A("student") + A("senior")
      /\ TotalPrice(ms, trip, group, paid)
            = B("adult") + B("elder") + B("teenager") + B("child") + B("student") + B("senior")
  BY DEF TotalPrice, P, Q
<1>4. \A t \in Types : A(t) \in Nat /\ B(t) \in Nat /\ A(t) <= B(t)
  BY <1>2
<1> HIDE DEF A, B
<1> QED BY <1>3, <1>4 DEF Types

\* The numbers a price is made of, and the quote as long as it is shown.  A count is the
\* number of a leg's stations or not known yet; a price has legs that are all counted.
PriceInv ==
    /\ fares \in FareTables /\ discounts \in DiscountTables
    /\ pc \notin {"idle", "failed"} => ask.group \in Groups
    /\ \A i \in DOMAIN legs : legs[i].count \in Nat \cup {Unknown}
    /\ pc \in {"price", "quoted"} => \A i \in DOMAIN legs : legs[i].count # Unknown
    /\ pc = "quoted" =>
          /\ \A i \in DOMAIN legs : legs[i].route \in DOMAIN fares
          /\ quote.rates \in {Multipliers, FullRates}
          /\ quote.total = TotalPrice(legs, ask.trip, ask.group, quote.rates)
    /\ pc # "quoted" => quote = None

LEMMA PriceInvInit == ASSUME FareInit PROVE PriceInv
BY DEF FareInit, PriceInv

\* As long as the tables and the journey are the same, so are their prices.
LEMMA SamePrices ==
    ASSUME UNCHANGED <<fares, discounts, ask, legs, quote>>
    PROVE  /\ Multipliers' = Multipliers
           /\ TotalPrice(legs, ask.trip, ask.group, quote.rates)'
                  = TotalPrice(legs, ask.trip, ask.group, quote.rates)
<1>1. Multipliers' = Multipliers
  BY DEF Multipliers, Rate
<1>2. TotalPrice(legs, ask.trip, ask.group, quote.rates)'
         = TotalPrice(legs, ask.trip, ask.group, quote.rates)
  BY DEF TotalPrice, PricePerPerson, LegsPrice, LegPrice
<1> QED BY <1>1, <1>2

LEMMA PriceInvCount ==
    ASSUME PlanInv, PriceInv, NEW how \in {"call", "here", "estimate"}, Count(how)
    PROVE  PriceInv'
<1> DEFINE Value(leg) == CASE how = "call"     -> Counted(leg)
                           [] how = "here"     -> CountedHere(leg)
                           [] how = "estimate" -> Estimated(leg)
<1>1. PICK i \in DOMAIN legs :
         /\ how # "estimate" => Rides(legs[i])
         /\ legs' = [legs EXCEPT ![i].count = Value(legs[i])]
  BY DEF Count
<1>2. legs[i] \in LegSet /\ legs \in Seq(LegSet) /\ net \in Networks
  BY DEF PlanInv
<1>3. Rides(legs[i]) => Apart(legs[i]) \in Nat
  BY <1>2, ApartIsNatural DEF LegSet
<1>4. Value(legs[i]) \in Nat
  BY <1>1, <1>3 DEF Counted, CountedHere, Estimated
<1> HIDE DEF Value
<1>5. /\ DOMAIN legs' = DOMAIN legs /\ legs'[i].count = Value(legs[i])
      /\ \A k \in DOMAIN legs \ {i} : legs'[k] = legs[k]
  BY <1>1, <1>2 DEF LegSet
<1>6. \A k \in DOMAIN legs' : legs'[k].count \in Nat \cup {Unknown}
  BY <1>4, <1>5 DEF PriceInv
<1>7. pc' = "price" => \A k \in DOMAIN legs' : legs'[k].count # Unknown
  BY DEF Count
<1>8. pc = "count" /\ pc' \in {"count", "price"} /\ UNCHANGED <<fares, discounts, ask, quote>>
  BY DEF Count, world
<1> QED BY <1>6, <1>7, <1>8 DEF PriceInv

LEMMA PriceInvQuote ==
    ASSUME PriceInv, NEW paid \in {Multipliers, FullRates}, PriceJourney(paid)
    PROVE  PriceInv'
<1>1. /\ pc = "price" /\ pc' = "quoted" /\ UNCHANGED <<fares, discounts, ask, legs>>
      /\ quote' = [total |-> TotalPrice(legs, ask.trip, ask.group, paid), rates |-> paid]
      /\ \A i \in DOMAIN legs : legs[i].route \in DOMAIN fares
  BY DEF PriceJourney, world
<1>2. Multipliers' = Multipliers
  BY <1>1 DEF Multipliers, Rate
<1>3. quote'.rates = paid
      /\ quote'.total = TotalPrice(legs, ask.trip, ask.group, paid)
  BY <1>1
<1>4. TotalPrice(legs, ask.trip, ask.group, quote.rates)'
          = TotalPrice(legs, ask.trip, ask.group, paid)
  BY <1>1, <1>3 DEF TotalPrice, PricePerPerson, LegsPrice, LegPrice
<1> QED BY <1>1, <1>2, <1>3, <1>4 DEF PriceInv

LEMMA PriceInvStep ==
    ASSUME PlanInv, PriceInv, [FareNext]_fareVars
    PROVE  PriceInv'
<1>1. CASE \E from, to \in StationsOf(net), trip \in Trips, g \in Groups : Ask(from, to, trip, g)
  BY <1>1 DEF Ask, PriceInv, world
<1>2. CASE \E foundFrom, foundTo \in Orders(DOMAIN net) : FindRoutes(foundFrom, foundTo)
  BY <1>2 DEF FindRoutes, PriceInv, world
<1>3. CASE PlanDirect \/ PlanTransfer
  <2>1. PICK a, b : legs' = <<a>> \/ legs' = <<a, b>>
    BY <1>3 DEF PlanDirect, PlanTransfer, TwoLegs
  <2>2. \A i \in DOMAIN legs' : legs'[i].count = Unknown
    BY <1>3 DEF PlanDirect, PlanTransfer, TwoLegs, Leg
  <2>3. pc = "plan" /\ pc' = "count" /\ UNCHANGED <<fares, discounts, ask, quote>>
    BY <1>3 DEF PlanDirect, PlanTransfer, world
  <2> QED BY <2>2, <2>3 DEF PriceInv
<1>4. CASE \E how \in {"call", "here", "estimate"} : Count(how)
  BY <1>4, PriceInvCount
<1>5. CASE \E paid \in {Multipliers, FullRates} : PriceJourney(paid)
  BY <1>5, PriceInvQuote
<1>6. CASE PlanFails \/ PriceFails
  BY <1>6 DEF PlanFails, PriceFails, Fails, PriceInv, world
<1>7. CASE Return
  BY <1>7 DEF Return, PriceInv, world
<1>8. CASE UNCHANGED fareVars
  <2>1. UNCHANGED <<fares, discounts, ask, legs, quote, pc>>
    BY <1>8 DEF fareVars
  <2> QED BY <2>1, SamePrices DEF PriceInv
<1> QED BY <1>1, <1>2, <1>3, <1>4, <1>5, <1>6, <1>7, <1>8 DEF FareNext

LEMMA PricesAlways == FareSpec => [](PlanInv /\ CountsFavour /\ PriceInv)
<1>1. FareInit => PlanInv /\ CountsFavour /\ PriceInv
  BY PlanInit, PriceInvInit DEF FareInit, CountsFavour
<1>2. PlanInv /\ CountsFavour /\ PriceInv /\ [FareNext]_fareVars
         => (PlanInv /\ CountsFavour /\ PriceInv)'
  BY PlanStep, CountsStep, PriceInvStep
<1> QED BY <1>1, <1>2, PTL DEF FareSpec

LEMMA QuotedIsPriceable ==
    ASSUME PlanInv, PriceInv, pc \in {"quoted"}
    PROVE  /\ Priceable(legs) /\ fares \in FareTables /\ ask.group \in Groups
           /\ quote.rates \in Percents
           /\ quote.total = TotalPrice(legs, ask.trip, ask.group, quote.rates)
           /\ DOMAIN legs = 1..Len(legs)
<1>1. Len(legs) \in {1, 2} /\ DOMAIN legs = 1..Len(legs)
  BY DEF PlanInv, Planned
<1>2. quote.rates \in Percents
  BY RatesArePercents DEF PriceInv
<1> QED BY <1>1, <1>2 DEF PriceInv, Priceable

\* The legs are one or two, on routes and stations of the map; what is priced has been
\* counted; a price is shown exactly when there is one, and is never negative.
THEOREM FareTypeCorrect == FareSpec => []FareTypeOK
<1>1. PlanInv /\ PriceInv => FareTypeOK
  <2> SUFFICES ASSUME PlanInv, PriceInv
               PROVE  FareTypeOK
    OBVIOUS
  <2>1. ToSet(fromRoutes) \cup ToSet(toRoutes) \subseteq DOMAIN net
    BY DEF PlanInv, ToSet
  <2>2. Len(legs) <= 2
    <3>1. CASE legs = << >>
      BY <3>1
    <3>2. CASE legs # << >>
      <4>1. Planned
        BY DEF PlanInv
      <4>2. Len(legs) = 1 \/ Len(legs) = 2
        BY <3>2, <4>1 DEF Planned
      <4>3. ASSUME NEW n, n = 1 \/ n = 2 PROVE n <= 2
        BY <4>3
      <4> QED BY <4>2, <4>3
    <3> QED BY <3>1, <3>2
  <2>3. ToSet(legs) \subseteq Legs(DOMAIN net)
    <3>1. \A i \in DOMAIN legs : legs[i] \in LegSet
      BY DEF PlanInv
    <3>2. \A leg \in LegSet : leg \in [route : {leg.route}, from : StationsOf(net),
                                       to : StationsOf(net), count : Int]
      BY DEF LegSet
    <3> QED BY <3>1, <3>2 DEF Legs, LegSet, ToSet
  <2>4. pc \in {"price", "quoted"} => \A i \in DOMAIN legs : legs[i].count >= 0
    BY DEF PriceInv
  <2>5. CASE pc = "quoted"
    <3>1. quote.total \in Nat
      <4>1. NoDearer(legs, legs)
        <5>1. \A i \in 1..Len(legs) : Tier(legs[i].count) \in Nat
          BY <2>5, QuotedIsPriceable, TierIsNatural DEF Priceable
        <5> QED BY <5>1 DEF NoDearer
      <4> QED BY <2>5, <4>1, QuotedIsPriceable, TotalGrows
    <3> QED BY <2>1, <2>2, <2>3, <2>4, <2>5, <3>1 DEF FareTypeOK, PlanInv
  <2>6. CASE pc # "quoted"
    <3>1. ~(quote.total >= 0)
      BY <2>6 DEF PriceInv, None
    <3> QED BY <2>1, <2>2, <2>3, <2>4, <2>6, <3>1 DEF FareTypeOK, PlanInv
  <2> QED BY <2>5, <2>6
<1> QED BY <1>1, PricesAlways, PTL

\* Calls that fail never make a journey dearer: with the discounts read, the price, rounded
\* and summed over all passengers, is at most that of the stations there really are.
THEOREM FailuresAreFree == FareSpec => []FailureFavoursPassenger
<1>1. PlanInv /\ CountsFavour /\ PriceInv => FailureFavoursPassenger
  <2> DEFINE real == [i \in DOMAIN legs |-> [legs[i] EXCEPT !.count = Counted(legs[i])]]
  <2> SUFFICES ASSUME PlanInv, CountsFavour, PriceInv, pc = "quoted", quote.rates = Multipliers,
                      \A i \in DOMAIN legs : Rides(legs[i])
               PROVE  quote.total <= TotalPrice(real, ask.trip, ask.group, Multipliers)
    BY DEF FailureFavoursPassenger
  <2>1. /\ Priceable(legs) /\ DOMAIN legs = 1..Len(legs) /\ Len(legs) \in Nat
        /\ legs \in Seq(LegSet) /\ net \in Networks
    BY QuotedIsPriceable DEF Priceable, PlanInv
  <2>2. ASSUME NEW i \in 1..Len(legs)
        PROVE  /\ real[i].route = legs[i].route /\ real[i].count = Counted(legs[i])
               /\ Counted(legs[i]) \in Nat
               /\ Tier(legs[i].count) <= Tier(Counted(legs[i]))
    <3>1. legs[i] \in LegSet /\ Rides(legs[i])
      BY <2>1
    <3>2. real[i].route = legs[i].route /\ real[i].count = Counted(legs[i])
      BY <2>1, <3>1 DEF LegSet
    <3>3. Counted(legs[i]) \in Nat
      BY <2>1, <3>1, ApartIsNatural DEF LegSet, Counted
    <3>4. legs[i].count \in Int /\ (legs[i].count <= 5 \/ legs[i].count <= Counted(legs[i]))
      BY <2>1, <3>1 DEF LegSet, CountsFavour
    <3> QED BY <3>2, <3>3, <3>4, TierGrows
  <2>3. Len(real) = Len(legs)
    BY <2>1
  <2> HIDE DEF real
  <2>4. Priceable(real) /\ NoDearer(legs, real)
    BY <2>1, <2>2, <2>3 DEF Priceable, NoDearer
  <2> QED BY <2>1, <2>4, QuotedIsPriceable, TotalGrows
<1> QED BY <1>1, PricesAlways, PTL

=============================================================================
