------------------------------ MODULE MCJourney ------------------------------
(* What a journey is and costs: RouteSearch for four stations and three routes  *)
(* (a trunk, every line of two or three stations beside it, and a shuttle or    *)
(* none), FarePricing on three maps (a line with two branches, a route of which *)
(* all its stations lie on another one, and three routes in a row), and         *)
(* PromotionUsage for three requests of any kind and a limit of two.            *)
EXTENDS RouteSearch, FarePricing, PromotionUsage

CONSTANTS s1, s2, s3, s4, red, blue, shuttle, u1, u2, u3

FourStations == {s1, s2, s3, s4}
ThreeRoutes == {red, blue, shuttle}

Distinct(s) == \A i, j \in DOMAIN s : i # j => s[i] # s[j]
Lines == {s \in UNION {[1..n -> FourStations] : n \in 2..3} : Distinct(s)}

Table(a, b, c) == [r \in ThreeRoutes |-> IF r = red THEN a ELSE IF r = blue THEN b ELSE c]

\* With the short trunk there are stations no ride joins.
SomeTables ==
    {Table(<<s1, s2, s3, s4>>, b, c) : b \in Lines, c \in {<< >>, <<s1, s4>>}}
        \cup {Table(<<s1, s2>>, b, << >>) : b \in Lines}

SomePenalties == {-1, 2}

MCNetworks == {
    [A |-> <<1, 2, 3, 4, 5, 6, 7>>, B |-> <<8, 5, 2, 9>>, C |-> <<9, 10>>],
    [A |-> <<1, 2, 3, 4, 5, 6>>, B |-> <<6, 4, 1>>],
    [A |-> <<1, 2>>, B |-> <<2, 3>>, C |-> <<3, 4>>] }

\* A base price whose discounts leave odd hundreds, and a route nobody has priced.
MCFareTables == {[A |-> 8000, B |-> 10000, C |-> 15000], [A |-> 12000, B |-> 0]}

Row(type, value, valid) == [kind |-> type, value |-> value, valid |-> valid]
MCDiscountTables == {
    [child |-> Row("percentage", 50, TRUE)],
    [adult |-> Row("fixed_amount", 15, TRUE), child |-> Row("free", 0, TRUE)],
    [adult |-> Row("percentage", 35, TRUE), child |-> Row("free", 0, FALSE)] }
Family(adults, children) ==
    [t \in Types |-> CASE t = "adult" -> adults [] t = "child" -> children [] OTHER -> 0]
MCGroups == {Family(1, 0), Family(2, 1), Family(0, 0)}

ThreeUses == {u1, u2, u3}

(* The three share no state, so each is looked at while the others are as they   *)
(* began, on one network, one map and with one kind of request.                  *)

SearchAtRest ==
    /\ phase = "idle" /\ goal = Start
    /\ origin = s1 /\ destination = s1 /\ penalty = 2
    /\ lines[red] = <<s1, s2>> /\ lines[blue] = <<s3, s4>>

FaresAtRest ==
    /\ pc = "idle"
    /\ net = [A |-> <<1, 2>>, B |-> <<2, 3>>, C |-> <<3, 4>>]
    /\ fares = [A |-> 12000, B |-> 0]
    /\ discounts = [child |-> Row("percentage", 50, TRUE)]

PromotionAtRest ==
    /\ \A u \in Uses : uses[u].step = "new" /\ uses[u].kind = "short"
    /\ promo = [exists |-> TRUE, active |-> TRUE, count |-> 0] /\ deletion = "idle"

JourneySpec ==
    /\ \/ FareInit /\ FaresAtRest /\ Init /\ PromotionAtRest /\ SearchInit
       \/ SearchInit /\ SearchAtRest /\ Init /\ PromotionAtRest /\ FareInit
       \/ SearchInit /\ SearchAtRest /\ FareInit /\ FaresAtRest /\ Init
    /\ [][\/ FaresAtRest /\ PromotionAtRest /\ SearchNext /\ UNCHANGED <<fareVars, vars>>
          \/ SearchAtRest /\ PromotionAtRest /\ FareNext /\ UNCHANGED <<searchVars, vars>>
          \/ SearchAtRest /\ FaresAtRest /\ Next /\ UNCHANGED <<searchVars, fareVars>>
         ]_<<searchVars, fareVars, vars>>
    /\ SearchFairness
=============================================================================
