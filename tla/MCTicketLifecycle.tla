-------------------------- MODULE MCTicketLifecycle --------------------------
(* TicketLifecycle on small sets of tickets and request handlers.           *)
EXTENDS TicketLifecycle, TLC

CONSTANTS p1, p2, t1, consumer

OneTicket == {t1}
OneHandler == {p1}
TwoHandlers == {p1, p2}

\* What an operator may ask for: anything, anything but "active", nothing.
AnyStatus == ValidStatuses
AllButActive == ValidStatuses \ {"active"}
NoStatus == {}

HandlerSymmetry == Permutations(Procs)
=============================================================================
