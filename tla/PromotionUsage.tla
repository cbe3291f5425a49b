---------------------------- MODULE PromotionUsage ----------------------------
(***************************************************************************)
(* One promotion code with a usage limit, and everybody who uses it: short *)
(* tickets and passes bought with it, and the apply route.  Each looks at  *)
(* the promotion, sells, and counts the use with a later read and write.   *)
(***************************************************************************)
EXTENDS Naturals, FiniteSets

CONSTANTS
    Uses,          \* requests that name the code, each with an id of its own
    Limit          \* usageLimit

ASSUME LimitAssumption == Limit \in Nat \ {0}
ASSUME UsesAssumption == IsFiniteSet(Uses)

VARIABLES
    promo,         \* the row of promotions
    uses,          \* per request, how far it is
    tickets,       \* the requests that made a ticket at the lower price, by what
                   \* became of it
    deletion,      \* delete of the repository: begun, its count of tickets done
    granted,       \* history: requests that had the promotion's benefit
    disturbed      \* history: two requests overlapped, or one ended uncounted

vars == <<promo, uses, tickets, deletion, granted, disturbed>>

Kinds == {"short", "pass", "apply"}
Steps == {"new", "sell", "read", "count", "done"}

TypeOK ==
    /\ promo \in [exists : BOOLEAN, active : BOOLEAN, count : 0..Cardinality(Uses)]
    /\ uses \in [Uses -> [step : Steps, kind : Kinds, copy : 0..Cardinality(Uses)]]
    /\ tickets \in [Uses -> {"none", "pending", "active", "detached"}]
    /\ \A u \in Uses : tickets[u] \in {"pending", "active"} => promo.exists
    /\ deletion \in {"idle", "clear"}
    /\ granted \subseteq Uses
    /\ disturbed \in BOOLEAN

Init ==
    /\ promo = [exists |-> TRUE, active |-> TRUE, count |-> 0]
    /\ uses \in [Uses -> [step : {"new"}, kind : Kinds, copy : {0}]]
    /\ tickets = [u \in Uses |-> "none"]
    /\ deletion = "idle"
    /\ granted = {}
    /\ disturbed = FALSE

Goto(u, step) == uses' = [uses EXCEPT ![u].step = step]

\* Mutant: one use beyond the limit.
Valid_AtLimit == promo.exists /\ promo.active /\ promo.count <= Limit

\* isCurrentlyValid; active stands for isActive and for the dates.
Valid == promo.exists /\ promo.active /\ promo.count < Limit

UnderWay == {u \in Uses : uses[u].step \in {"sell", "read", "count"}}

-----------------------------------------------------------------------------
(* A request.                                                              *)

\* The price with the promotion; without one the request is none of its uses.
Price(u) ==
    /\ uses[u].step = "new" /\ Valid
    /\ Goto(u, IF uses[u].kind = "apply" THEN "read" ELSE "sell")
    /\ disturbed' = (disturbed \/ UnderWay # {})
    /\ UNCHANGED <<promo, tickets, deletion, granted>>

Refuse(u) ==
    /\ uses[u].step = "new" /\ ~Valid
    /\ Goto(u, "done")
    /\ UNCHANGED <<promo, tickets, deletion, granted, disturbed>>

\* Mutant: the use is counted before there is a ticket.
Sell_Counted(u) ==
    /\ uses[u].step = "sell" /\ promo.exists
    /\ Goto(u, "done")
    /\ \/ tickets' = [tickets EXCEPT ![u] = "pending"] /\ granted' = granted \cup {u}
       \/ UNCHANGED <<tickets, granted>>
    /\ promo' = [promo EXCEPT !.count = IF @ < Cardinality(Uses) THEN @ + 1 ELSE @]
    /\ UNCHANGED <<deletion, disturbed>>

\* The ticket row, with the promotion's id.
Sell(u) ==
    /\ uses[u].step = "sell" /\ promo.exists
    /\ Goto(u, "read")
    /\ tickets' = [tickets EXCEPT ![u] = "pending"]
    /\ granted' = granted \cup {u}
    /\ UNCHANGED <<promo, deletion, disturbed>>

\* A short ticket the promotion makes free is created without the id, active at once,
\* and the use is not counted.
SellFree(u) ==
    /\ uses[u].step = "sell" /\ uses[u].kind = "short"
    /\ Goto(u, "done")
    /\ granted' = granted \cup {u}
    /\ disturbed' = TRUE
    /\ UNCHANGED <<promo, tickets, deletion>>

\* The promotion is gone (the foreign key refuses the ticket) or the database fails.
SellFails(u) ==
    /\ uses[u].step = "sell"
    /\ Goto(u, "done")
    /\ UNCHANGED <<promo, tickets, deletion, granted, disturbed>>

\* findByPk, and for the apply route a second findByCode, which wants an active code.
ReadCount(u) ==
    /\ uses[u].step = "read"
    /\ IF promo.exists /\ (uses[u].kind = "apply" => promo.active)
       THEN uses' = [uses EXCEPT ![u].step = "count", ![u].copy = promo.count]
       ELSE Goto(u, "done")
    /\ UNCHANGED <<promo, tickets, deletion, granted, disturbed>>

\* incrementUsage saves one more than the copy has; of a deleted row, nothing.  The apply
\* route answers after it.
SaveCount(u) ==
    /\ uses[u].step = "count"
    /\ Goto(u, "done")
    /\ promo' = IF promo.exists THEN [promo EXCEPT !.count = uses[u].copy + 1] ELSE promo
    /\ granted' = granted \cup {u}
    /\ UNCHANGED <<tickets, deletion, disturbed>>

\* An error is logged only, or the process dies: the ticket is there, its use is not.
\* The apply route passes the error on.
Uncounted(u) ==
    /\ uses[u].step \in {"read", "count"}
    /\ Goto(u, "done")
    /\ disturbed' = (disturbed \/ uses[u].kind # "apply")
    /\ UNCHANGED <<promo, tickets, deletion, granted>>

-----------------------------------------------------------------------------
(* The surroundings.                                                       *)

\* A pending ticket is paid for.
Pay(u) ==
    /\ tickets[u] = "pending"
    /\ tickets' = [tickets EXCEPT ![u] = "active"]
    /\ UNCHANGED <<promo, uses, deletion, granted, disturbed>>

\* expirePromotions, or an administrator's update of isActive or the dates.
SetActive ==
    /\ promo.exists
    /\ promo' = [promo EXCEPT !.active = ~@]
    /\ UNCHANGED <<uses, tickets, deletion, granted, disturbed>>

\* delete counts the promotion's active tickets ...
CheckTickets ==
    /\ deletion = "idle" /\ promo.exists
    /\ \A u \in Uses : tickets[u] # "active"
    /\ deletion' = "clear"
    /\ UNCHANGED <<promo, uses, tickets, granted, disturbed>>

\* ... and destroys the row some time later; tickets that had it then have none.
Destroy ==
    /\ deletion = "clear"
    /\ deletion' = "idle"
    /\ promo' = [promo EXCEPT !.exists = FALSE]
    /\ tickets' = [u \in Uses |-> IF tickets[u] = "none" THEN "none" ELSE "detached"]
    /\ UNCHANGED <<uses, granted, disturbed>>

Step(u) ==
    \/ Price(u) \/ Refuse(u)
    \/ Sell(u) \/ SellFree(u) \/ SellFails(u)
    \/ ReadCount(u) \/ SaveCount(u) \/ Uncounted(u)
    \/ Pay(u)

Next == (\E u \in Uses : Step(u)) \/ SetActive \/ CheckTickets \/ Destroy

Spec == Init /\ [][Next]_vars

-----------------------------------------------------------------------------

\* However requests overlap, fail or die, usageCount never exceeds the uses there were:
\* no passenger is refused because of uses that nobody had.
NeverOvercounted == promo.exists => promo.count <= Cardinality(granted)

\* The limit can be passed only by requests that overlap, by one that is not counted
\* after its ticket exists, or by short tickets the promotion makes free.
LimitKeptAlone == ~disturbed => Cardinality(granted) <= Limit
=============================================================================
