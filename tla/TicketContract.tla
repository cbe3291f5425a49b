---------------------------- MODULE TicketContract ----------------------------
(***************************************************************************)
(* What ticket-service promises of a ticket (the states in its README and  *)
(* its table of transitions), without rows, handlers or messages: it is    *)
(* sold, paid, becomes valid, is ridden within the allowance of its kind,  *)
(* is closed or voided, and is removed.  A void ticket is never ridden or  *)
(* reopened, nor is a closed one.                                          *)
(*                                                                         *)
(* The code keeps all of this but one thing, RideUnpaid, which is no part  *)
(* of Spec: LenientSpec is the contract with that exception.               *)
(***************************************************************************)
EXTENDS Naturals

CONSTANT Tickets

VARIABLES phase,    \* where each ticket is in its life
          kind,     \* what was sold
          rides     \* rides granted

cvars == <<phase, kind, rides>>

ShortTerm == {"oneway", "return"}
Kinds == ShortTerm \cup {"pass"}
\* "reserved" waits for its payment; "paid" waits for its activation.
Phases == {"unsold", "reserved", "paid", "valid", "closed", "void", "gone"}

Allowance == [oneway |-> 1, return |-> 2]
MayRide(t) == kind[t] \in ShortTerm => rides[t] < Allowance[kind[t]]
LastRide(t) == kind[t] \in ShortTerm /\ rides[t] + 1 = Allowance[kind[t]]

Init ==
    /\ phase = [t \in Tickets |-> "unsold"]
    /\ kind \in [Tickets -> Kinds]
    /\ rides = [t \in Tickets |-> 0]

Move(t, from, to) ==
    /\ phase[t] \in from
    /\ phase' = [phase EXCEPT ![t] = to]

\* A pass that costs nothing has nothing to wait for.
Sell(t, k) ==
    /\ \/ Move(t, {"unsold"}, "reserved")
       \/ k = "pass" /\ Move(t, {"unsold"}, "paid")
    /\ kind' = [kind EXCEPT ![t] = k]
    /\ UNCHANGED rides

Credit(t) == Move(t, {"reserved"}, "paid") /\ UNCHANGED <<kind, rides>>

Validate(t) == Move(t, {"reserved", "paid"}, "valid") /\ UNCHANGED <<kind, rides>>

RideFrom(t, from) ==
    /\ phase[t] \in from
    /\ MayRide(t)
    /\ rides' = [rides EXCEPT ![t] = @ + 1]
    /\ phase' = [phase EXCEPT ![t] = IF LastRide(t) THEN "closed" ELSE @]
    /\ UNCHANGED kind

\* A pass has to be valid; a short-term ticket may be used as soon as it is paid.
Ride(t) == RideFrom(t, IF kind[t] \in ShortTerm THEN {"paid", "valid"} ELSE {"valid"})

\* The exception, which no document allows: the gates also accept a short-term ticket
\* that still waits for its payment.
RideUnpaid(t) == kind[t] \in ShortTerm /\ RideFrom(t, {"reserved"})

\* An operator marks the ticket used: one ride, whatever was left is lost.
Redeem(t) ==
    /\ Move(t, {"valid"}, "closed")
    /\ MayRide(t)
    /\ rides' = [rides EXCEPT ![t] = @ + 1]
    /\ UNCHANGED kind

\* Tickets run out together when a batch expires them.
Close(ts) ==
    /\ \A t \in ts : phase[t] = "valid"
    /\ phase' = [t \in Tickets |-> IF t \in ts THEN "closed" ELSE phase[t]]
    /\ UNCHANGED <<kind, rides>>

Void(t) ==
    /\ Move(t, {"reserved", "paid", "valid", "closed"}, "void")
    /\ UNCHANGED <<kind, rides>>

Remove(t) ==
    /\ Move(t, Phases \ {"unsold", "gone"}, "gone")
    /\ UNCHANGED <<kind, rides>>

Next ==
    \/ \E t \in Tickets :
          \/ \E k \in Kinds : Sell(t, k)
          \/ Credit(t) \/ Validate(t) \/ Ride(t) \/ Redeem(t) \/ Void(t) \/ Remove(t)
    \/ \E ts \in SUBSET Tickets : Close(ts)

Spec == Init /\ [][Next]_cvars

LenientNext == Next \/ \E t \in Tickets : RideUnpaid(t)

LenientSpec == Init /\ [][LenientNext]_cvars
=============================================================================
