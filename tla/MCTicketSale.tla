----------------------------- MODULE MCTicketSale -----------------------------
(* TicketSale for a bought ticket and a further SePay order for it.            *)
EXTENDS TicketSale

CONSTANTS p1, p2

TwoPayments == {p1, p2}
=============================================================================
