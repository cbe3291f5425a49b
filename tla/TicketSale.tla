----------------------------- MODULE TicketSale -----------------------------
(***************************************************************************)
(* The sale of one ticket across services: the payment service of          *)
(* PaymentSettlement, and the consumer in the ticket service that settles  *)
(* or cancels the ticket by the outcomes it announces.  An outcome stands  *)
(* in its topic once announced, and the two topics are read in any order,  *)
(* each message at least once.  What passengers, operators and batches do  *)
(* to the ticket meanwhile is in TicketLifecycle.                          *)
(***************************************************************************)
EXTENDS PaymentSettlement

VARIABLE
    ticket         \* its status in the ticket service, by this sale

saleVars == <<vars, ticket>>

TicketStatuses == {"pending_payment", "paid", "cancelled"}

SaleTypeOK ==
    /\ TypeOK
    /\ ticket \in TicketStatuses

SaleInit == Init /\ ticket = "pending_payment"

Delivered(outcome, p) == <<outcome, p>> \in announced /\ UNCHANGED vars

\* payment.completed settles a ticket that waits for its payment, and no other.
CreditTicket(p) ==
    /\ Delivered("completed", p)
    /\ ticket' = IF ticket = "pending_payment" THEN "paid" ELSE ticket

\* payment.failed cancels the ticket, whichever of its payments failed, and a paid
\* ticket as well: the table of transitions allows it.
CancelUnpaid(p) ==
    /\ Delivered("failed", p)
    /\ ticket' = "cancelled"

Consume == \E p \in Payments : CreditTicket(p) \/ CancelUnpaid(p)

SaleNext == (Next /\ UNCHANGED ticket) \/ Consume

SaleSpec == SaleInit /\ [][SaleNext]_saleVars

\* The payment service's PayPal consumer handles its messages and its calls return,
\* and so does the ticket service's consumer.  Nothing is assumed of the others.
SaleLiveSpec ==
    SaleSpec /\ WF_vars(PaypalStep) /\ WF_saleVars(Consume)

-----------------------------------------------------------------------------
(* From the provider to the ticket.                                        *)

StopsEnd == <>[][~ \E w \in Workers : Stop(w)]_vars

\* A ticket is cancelled for its payment's failure only with a cause, as long as
\* nothing in the payment service stops or fails: the passenger chose a method that
\* has no strategy, or PayPal denied a capture.  With a stop, a redelivered
\* ticket.created is enough to cancel a ticket that was paid.
CancelledWithCause ==
    ticket = "cancelled" => method = "other" \/ "denied" \in received \/ ~sound

\* A ticket is settled only when a provider has notified the full amount of one of
\* its payments, whatever stops in between.
PaidWithMoney ==
    ticket = "paid" => \E p \in Payments : Worth(p) \in received

\* A capture that PayPal notified as completed reaches the ticket, however often the
\* payment service stopped before: the ticket does not wait for its payment for ever.
CaptureReachesTicket ==
    StopsEnd => ((\E i \in 1..Len(queue["paypal"]) : queue["paypal"][i] = "completed")
                    ~> (ticket # "pending_payment"))
=============================================================================
