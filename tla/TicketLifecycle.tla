--------------------------- MODULE TicketLifecycle ---------------------------
(***************************************************************************)
(* The ticket rows of ticket-service and every handler that writes them:   *)
(* purchase, the payment consumer, cancellation, the status route, manual  *)
(* and scheduled activation, expiry, gate use by id and by QR code, abuse  *)
(* locking and deletion.                                                   *)
(*                                                                         *)
(* A handler reads a row with findByPk, decides on that copy and writes it *)
(* back with instance.update after an await, without a transaction or a    *)
(* version column, so other handlers run in between.  A handler in flight  *)
(* is a job: its program counter and the copy of the row it holds.         *)
(***************************************************************************)
EXTENDS Naturals, Sequences

CONSTANTS
    Tickets,      \* ticket ids
    Procs,        \* request handlers that may be in flight at once
    Consumer,     \* the payment consumer, which handles one message at a time
    MaxSpent,     \* bound: no new use of a ticket begins at this many uses
    MaxBacklog,   \* bound: messages waiting in one topic
    Operator,     \* statuses an operator asks for on PUT /:id/status
    ExpiryJob,    \* TRUE when something calls TicketService.expireTickets
    DbFaults      \* TRUE when the database may refuse a write

ASSUME ConsumerAssumption == Consumer \notin Procs
ASSUME BoundAssumption == MaxSpent \in Nat /\ MaxBacklog \in Nat
ASSUME FlagAssumption == ExpiryJob \in BOOLEAN /\ DbFaults \in BOOLEAN

VARIABLES
    tickets,      \* the rows of table "tickets"
    jobs,         \* handlers in flight
    cronDue,      \* ids activateDueTickets has read and not yet written
    expiring,     \* ids expireTickets has read and not yet written
    topics,       \* per payment topic, the messages not yet committed, in order
    settled,      \* history: tickets whose payment was ever completed
    spent         \* history: uses granted, at a gate or by an operator

vars == <<tickets, jobs, cronDue, expiring, topics, settled, spent>>

-----------------------------------------------------------------------------
(* Rows and jobs.                                                          *)

ShortTerm == {"oneway", "return"}
Kinds == ShortTerm \cup {"pass"}     \* "pass": the five long-term types

ValidStatuses ==
    {"active", "inactive", "pending_payment", "used", "expired", "cancelled"}

RowStatuses == ValidStatuses \cup {"abused"}
NoRow == {"absent", "deleted"}

\* validTransitions of TicketStatusService; 'abused' is missing from the table.
ValidTransitions(s) ==
    CASE s = "pending_payment" -> {"active", "cancelled"}
      [] s = "inactive"        -> {"active", "cancelled"}
      [] s = "active"          -> {"used", "expired", "cancelled"}
      [] s = "used"            -> {"cancelled"}
      [] s = "expired"         -> {"cancelled"}
      [] OTHER                 -> {}

Row == [status    : RowStatuses \cup NoRow,
        kind      : Kinds,
        free      : BOOLEAN,                         \* finalPrice is zero
        fare      : BOOLEAN,                         \* fareId is not null
        isActive  : BOOLEAN,
        uses      : Nat,                             \* length of usedList
        validity  : {"none", "running", "over"},     \* validFrom, validUntil
        countdown : {"none", "running", "due"}]      \* activatedAt

AbsentRow == [status |-> "absent", kind |-> "oneway", free |-> FALSE,
              fare |-> FALSE, isActive |-> TRUE, uses |-> 0,
              validity |-> "none", countdown |-> "none"]

Outcomes == {"completed", "failed", "cancelled"}   \* payment.<outcome>

UseOps == {"useTicket", "useTicketByQRCode"}
Ops == UseOps \cup {"cancelTicket", "updateTicketStatus", "activateTicket",
                    "processPaymentCompletion"}

Job == [proc   : Procs \cup {Consumer},
        op     : Ops,
        pc     : {"read", "write", "stamp", "track", "recheck", "relock"},
        ticket : Tickets,
        mem    : Row,                    \* the Sequelize instance in memory
        to     : RowStatuses,            \* the status it is about to write
        msg    : Outcomes \cup {"none"}] \* the message it is handling

TypeOK ==
    /\ tickets \in [Tickets -> Row]
    /\ jobs \in SUBSET Job
    /\ cronDue \in SUBSET Tickets
    /\ expiring \in SUBSET Tickets
    /\ topics \in [Outcomes -> Seq(Tickets)]
    /\ settled \in SUBSET Tickets
    /\ spent \in [Tickets -> Nat]

Init ==
    /\ tickets = [t \in Tickets |-> AbsentRow]
    /\ jobs = {}
    /\ cronDue = {}
    /\ expiring = {}
    /\ topics = [outcome \in Outcomes |-> <<>>]
    /\ settled = {}
    /\ spent = [t \in Tickets |-> 0]

-----------------------------------------------------------------------------
(* Helpers.                                                                *)

HasRow(t) == tickets[t].status \notin NoRow
Idle(p) == \A j \in jobs : j.proc # p

\* A process of P begins op on ticket t at pc: it holds row and will write s.
Start(P, op, pc, t, row, s, m) ==
    \E p \in P :
        /\ Idle(p)
        /\ jobs' = jobs \cup {[proc |-> p, op |-> op, pc |-> pc, ticket |-> t,
                               mem |-> row, to |-> s, msg |-> m]}

Serve(op, pc, t, s) == Start(Procs, op, pc, t, tickets[t], s, "none")
Consume(op, t, s, m) == Start({Consumer}, op, "write", t, tickets[t], s, m)

Continue(j, next) == jobs' = (jobs \ {j}) \cup {next}

\* The offset of the message at the head of a topic is committed.
Commit(outcome) == topics' = [topics EXCEPT ![outcome] = Tail(@)]

\* The handler returns, and with it the message it was called for.
Finish(j) ==
    /\ jobs' = jobs \ {j}
    /\ IF j.msg = "none" THEN UNCHANGED topics ELSE Commit(j.msg)

\* eachMessage is called with the next message of a topic.
Delivers(outcome, t) == topics[outcome] # <<>> /\ Head(topics[outcome]) = t

\* An UPDATE keyed by the id: nothing happens when the row is gone.
Store(t, row) ==
    tickets' = IF HasRow(t) THEN [tickets EXCEPT ![t] = row] ELSE tickets

\* instance.update writes only the columns that differ from the instance.
NewStatus(j, s) ==
    IF j.mem.status = s THEN tickets[j.ticket].status ELSE s

-----------------------------------------------------------------------------
(* Purchase.                                                               *)

\* Mutant: a ticket without a fare is left as it was.
StatusAfterPayment_OnlyFares(row) == IF row.fare THEN "active" ELSE row.status

\* determineTicketStatusAfterPayment
StatusAfterPayment(row) == IF row.fare THEN "active" ELSE "inactive"

\* _createShortTermTicketInternal: a zero price is settled in the same request
\* and may have found no fare; a paid ticket always carries one.
CreateShortTerm(t, k, free, fare) ==
    LET row == [AbsentRow EXCEPT !.status = "pending_payment", !.kind = k,
                   !.free = free, !.fare = fare, !.validity = "running"]
    IN  /\ tickets[t].status = "absent"
        /\ free \/ fare
        /\ tickets' = [tickets EXCEPT ![t] = row]
        /\ IF free
           THEN Start(Procs, "processPaymentCompletion", "write", t, row,
                      StatusAfterPayment(row), "none")
           ELSE UNCHANGED jobs
        /\ UNCHANGED <<cronDue, expiring, topics, settled, spent>>

\* _createLongTermTicketInternal: a free pass is born inactive, and activatedAt
\* is null until a payment completes.
CreateLongTerm(t, free) ==
    /\ tickets[t].status = "absent"
    /\ tickets' = [tickets EXCEPT ![t] =
          [AbsentRow EXCEPT !.status = IF free THEN "inactive" ELSE "pending_payment",
                            !.kind = "pass", !.free = free]]
    /\ UNCHANGED <<jobs, cronDue, expiring, topics, settled, spent>>

-----------------------------------------------------------------------------
(* Payment messages.                                                       *)

\* payment-service publishes an outcome, possibly more than once.
PublishOutcome(t, outcome) ==
    /\ tickets[t].status # "absent"
    /\ ~tickets[t].free
    /\ Len(topics[outcome]) < MaxBacklog
    /\ topics' = [topics EXCEPT ![outcome] = Append(@, t)]
    /\ settled' = IF outcome = "completed" THEN settled \cup {t} ELSE settled
    /\ UNCHANGED <<tickets, jobs, cronDue, expiring, spent>>

\* Mutant: validateTicketForCompletion is not asked.
HandleCompleted_AnyStatus(t) ==
    /\ Delivers("completed", t)
    /\ Idle(Consumer)
    /\ HasRow(t)
    /\ Consume("processPaymentCompletion", t, StatusAfterPayment(tickets[t]), "completed")
    /\ UNCHANGED <<tickets, cronDue, expiring, topics, settled, spent>>

\* Mutant: the offset is committed before the message is handled.
HandleCompleted_AtMostOnce(t) ==
    /\ Delivers("completed", t)
    /\ Idle(Consumer)
    /\ HasRow(t)
    /\ Commit("completed")
    /\ IF tickets[t].status = "pending_payment"
       THEN Consume("processPaymentCompletion", t, StatusAfterPayment(tickets[t]), "none")
       ELSE UNCHANGED jobs
    /\ UNCHANGED <<tickets, cronDue, expiring, settled, spent>>

\* processPaymentCompletedEvent: only a pending ticket is settled.  For a deleted
\* one getTicketById throws, so the message stays where it is.
HandleCompleted(t) ==
    /\ Delivers("completed", t)
    /\ Idle(Consumer)
    /\ HasRow(t)
    /\ IF tickets[t].status = "pending_payment"
       THEN /\ Consume("processPaymentCompletion", t,
                       StatusAfterPayment(tickets[t]), "completed")
            /\ UNCHANGED topics
       ELSE /\ Commit("completed")
            /\ UNCHANGED jobs
    /\ UNCHANGED <<tickets, cronDue, expiring, settled, spent>>

\* processPaymentFailedEvent and processPaymentCancelledEvent: the table of
\* transitions decides, and every error is swallowed.
HandleNotPaid(t, outcome) ==
    /\ outcome # "completed"
    /\ Delivers(outcome, t)
    /\ Idle(Consumer)
    /\ IF "cancelled" \in ValidTransitions(tickets[t].status)
       THEN /\ Consume("updateTicketStatus", t, "cancelled", outcome)
            /\ UNCHANGED topics
       ELSE /\ Commit(outcome)
            /\ UNCHANGED jobs
    /\ UNCHANGED <<tickets, cronDue, expiring, settled, spent>>

\* The update of processPaymentCompletion, computed from the copy.  The consumer
\* then stamps the purchase date, unless reload found no row.
WriteCompletion(j) ==
    /\ j.op = "processPaymentCompletion" /\ j.pc = "write"
    /\ Store(j.ticket,
             [tickets[j.ticket] EXCEPT
                !.status = NewStatus(j, j.to),
                !.countdown = IF j.to = "active" THEN "due" ELSE "running"])
    /\ IF j.msg # "none" /\ HasRow(j.ticket)
       THEN Continue(j, [j EXCEPT !.pc = "stamp"]) /\ UNCHANGED topics
       ELSE Finish(j)
    /\ UNCHANGED <<cronDue, expiring, settled, spent>>

\* updateTicket throws for a row that has gone, and the message is not committed.
StampPurchase(j) ==
    /\ j.pc = "stamp"
    /\ IF HasRow(j.ticket) THEN Finish(j)
                           ELSE jobs' = jobs \ {j} /\ UNCHANGED topics
    /\ UNCHANGED <<tickets, cronDue, expiring, settled, spent>>

-----------------------------------------------------------------------------
(* Cancellation and the status route.                                      *)

CancelTicket(t) ==
    /\ HasRow(t)
    /\ tickets[t].status \notin {"used", "cancelled"}
    /\ Serve("cancelTicket", "write", t, "cancelled")
    /\ UNCHANGED <<tickets, cronDue, expiring, topics, settled, spent>>

UpdateTicketStatus(t, s) ==
    /\ s \in ValidTransitions(tickets[t].status)
    /\ Serve("updateTicketStatus", "write", t, s)
    /\ UNCHANGED <<tickets, cronDue, expiring, topics, settled, spent>>

WriteCancel(j) ==
    /\ j.op = "cancelTicket"
    /\ Store(j.ticket, [tickets[j.ticket] EXCEPT
                          !.status = NewStatus(j, "cancelled"),
                          !.isActive = FALSE])
    /\ Finish(j)
    /\ UNCHANGED <<cronDue, expiring, settled, spent>>

\* Mutant: "used" does not append to usedList.
WriteStatus_NoLedger(j) ==
    /\ j.op = "updateTicketStatus"
    /\ Store(j.ticket, [tickets[j.ticket] EXCEPT !.status = NewStatus(j, j.to)])
    /\ spent' = IF j.to = "used" THEN [spent EXCEPT ![j.ticket] = @ + 1] ELSE spent
    /\ Finish(j)
    /\ UNCHANGED <<cronDue, expiring, settled>>

\* _addStatusSpecificFields: activating starts the validity only of a copy that
\* was inactive and had none.
WriteStatus(j) ==
    LET row == tickets[j.ticket]
        starts == j.to = "active" /\ j.mem.status = "inactive"
                                  /\ j.mem.validity = "none"
    IN  /\ j.op = "updateTicketStatus"
        /\ Store(j.ticket,
             [row EXCEPT
                !.status = NewStatus(j, j.to),
                !.uses = IF j.to = "used" THEN j.mem.uses + 1 ELSE row.uses,
                !.isActive = IF j.to = "cancelled" THEN FALSE ELSE row.isActive,
                !.validity = IF starts THEN "running" ELSE row.validity,
                !.countdown = IF starts THEN "due" ELSE row.countdown])
        /\ spent' = IF j.to = "used"
                    THEN [spent EXCEPT ![j.ticket] = @ + 1] ELSE spent
        /\ Finish(j)
        /\ UNCHANGED <<cronDue, expiring, settled>>

-----------------------------------------------------------------------------
(* Activation and expiry.                                                  *)

\* Mutant: a pass may be activated whatever its status.
ActivateTicket_AnyStatus(t) ==
    /\ HasRow(t) /\ tickets[t].kind = "pass"
    /\ Serve("activateTicket", "write", t, "active")
    /\ UNCHANGED <<tickets, cronDue, expiring, topics, settled, spent>>

\* activateTicket, through startCountDown and activateLongTermTicket.
ActivateTicket(t) ==
    /\ tickets[t].kind = "pass"
    /\ tickets[t].status = "inactive"
    /\ Serve("activateTicket", "write", t, "active")
    /\ UNCHANGED <<tickets, cronDue, expiring, topics, settled, spent>>

WriteActivation(j) ==
    /\ j.op = "activateTicket"
    /\ Store(j.ticket, [tickets[j.ticket] EXCEPT
                          !.status = NewStatus(j, "active"),
                          !.validity = "running", !.countdown = "due"])
    /\ Finish(j)
    /\ UNCHANGED <<cronDue, expiring, settled, spent>>

\* Mutant: the comparison of activatedAt with now is the wrong way round.
CronScan_NotDue ==
    LET due == {t \in Tickets : /\ tickets[t].status = "inactive"
                                /\ tickets[t].countdown = "running"
                                /\ tickets[t].kind = "pass"}
    IN  /\ cronDue = {} /\ due # {}
        /\ cronDue' = due
        /\ UNCHANGED <<tickets, jobs, expiring, topics, settled, spent>>

\* activateDueTickets: one query, then one update per ticket it returned.
CronScan ==
    LET due == {t \in Tickets : /\ tickets[t].status = "inactive"
                                /\ tickets[t].countdown = "due"
                                /\ tickets[t].kind = "pass"}
    IN  /\ cronDue = {}
        /\ due # {}
        /\ cronDue' = due
        /\ UNCHANGED <<tickets, jobs, expiring, topics, settled, spent>>

CronActivate(t) ==
    /\ t \in cronDue
    /\ cronDue' = cronDue \ {t}
    /\ \/ Store(t, [tickets[t] EXCEPT !.status = "active", !.validity = "running"])
       \/ DbFaults /\ UNCHANGED tickets
    /\ UNCHANGED <<jobs, expiring, topics, settled, spent>>

\* expireTickets: a query, then one UPDATE over the ids it returned.
ExpireScan ==
    LET over == {t \in Tickets : /\ tickets[t].status = "active"
                                 /\ tickets[t].validity = "over"
                                 /\ tickets[t].isActive}
    IN  /\ ExpiryJob
        /\ expiring = {}
        /\ over # {}
        /\ expiring' = over
        /\ UNCHANGED <<tickets, jobs, cronDue, topics, settled, spent>>

ExpireWrite ==
    /\ expiring # {}
    /\ expiring' = {}
    /\ tickets' = [t \in Tickets |->
                     IF t \in expiring /\ HasRow(t)
                     THEN [tickets[t] EXCEPT !.status = "expired"]
                     ELSE tickets[t]]
    /\ UNCHANGED <<jobs, cronDue, topics, settled, spent>>

-----------------------------------------------------------------------------
(* Use at a gate.                                                          *)

\* The status checks of useTicket.
UseTicket(t) ==
    /\ HasRow(t)
    /\ tickets[t].status \notin {"abused", "used", "cancelled", "expired"}
    /\ spent[t] < MaxSpent
    /\ Serve("useTicket", "read", t, "used")
    /\ UNCHANGED <<tickets, cronDue, expiring, topics, settled, spent>>

\* useTicketByQRCode also admits an abused ticket shown with its rotating code.
UseTicketByQRCode(t) ==
    /\ HasRow(t)
    /\ tickets[t].status \notin {"used", "cancelled", "expired"}
    /\ spent[t] < MaxSpent
    /\ Serve("useTicketByQRCode", "read", t, "used")
    /\ UNCHANGED <<tickets, cronDue, expiring, topics, settled, spent>>

\* Mutant: a return ticket's usedList is not looked at.
Admits_AnyReturn(row) == row.kind = "pass" => row.validity = "running"

\* handleUseShortTermTicket and handleUseLongTermTicket read the row again and
\* look at everything but its status.
Admits(row) ==
    CASE row.kind = "oneway" -> TRUE
      [] row.kind = "return" -> row.uses < 2
      [] row.kind = "pass"   -> row.validity = "running"

\* Mutant: the use is recorded before it is admitted.
ReadForUse_RecordFirst(j) ==
    LET row == tickets[j.ticket]
    IN  /\ j.op \in UseOps /\ j.pc = "read"
        /\ Store(j.ticket, [row EXCEPT !.uses = @ + 1])
        /\ IF HasRow(j.ticket) /\ Admits(row)
           THEN Continue(j, [j EXCEPT !.pc = "write", !.mem = row])
           ELSE jobs' = jobs \ {j}
        /\ UNCHANGED <<cronDue, expiring, topics, settled, spent>>

ReadForUse(j) ==
    LET row == tickets[j.ticket]
    IN  /\ j.op \in UseOps /\ j.pc = "read"
        /\ IF HasRow(j.ticket) /\ Admits(row)
           THEN Continue(j, [j EXCEPT !.pc = "write", !.mem = row])
           ELSE jobs' = jobs \ {j}
        /\ UNCHANGED <<tickets, cronDue, expiring, topics, settled, spent>>

\* Does this use exhaust the ticket?
LastUse(row) == row.kind = "oneway" \/ (row.kind = "return" /\ row.uses = 1)

WriteUse(j) ==
    LET row  == tickets[j.ticket]
        last == LastUse(j.mem)
    IN  /\ j.op \in UseOps /\ j.pc = "write"
        /\ Store(j.ticket, [row EXCEPT
                              !.uses = j.mem.uses + 1,
                              !.status = IF last THEN NewStatus(j, "used")
                                         ELSE row.status])
        /\ spent' = [spent EXCEPT ![j.ticket] = @ + 1]
        /\ Continue(j, [j EXCEPT !.pc = "track", !.mem.uses = @ + 1,
                                 !.mem.status = IF last THEN "used" ELSE @])
        /\ UNCHANGED <<cronDue, expiring, topics, settled>>

\* trackAndDetectAbuse: two uses close in time lock the ticket; how close they
\* were is left open.
Suspicious(row) == row.uses >= 2

TrackAbuse(j) ==
    /\ j.op \in UseOps /\ j.pc = "track"
    /\ \/ UNCHANGED tickets
       \/ /\ Suspicious(j.mem)
          /\ Store(j.ticket, [tickets[j.ticket] EXCEPT
                                !.status = NewStatus(j, "abused")])
    /\ IF j.op = "useTicket" THEN Continue(j, [j EXCEPT !.pc = "recheck"])
                             ELSE jobs' = jobs \ {j}
    /\ UNCHANGED <<cronDue, expiring, topics, settled, spent>>

\* useTicket reads the row a third time and tracks it again.
RecheckAbuse(j) ==
    LET row == tickets[j.ticket]
    IN  /\ j.pc = "recheck"
        /\ \/ jobs' = jobs \ {j}
           \/ /\ HasRow(j.ticket) /\ Suspicious(row)
              /\ Continue(j, [j EXCEPT !.pc = "relock", !.mem = row])
        /\ UNCHANGED <<tickets, cronDue, expiring, topics, settled, spent>>

RelockAbuse(j) ==
    /\ j.pc = "relock"
    /\ Store(j.ticket, [tickets[j.ticket] EXCEPT !.status = NewStatus(j, "abused")])
    /\ jobs' = jobs \ {j}
    /\ UNCHANGED <<cronDue, expiring, topics, settled, spent>>

-----------------------------------------------------------------------------
(* Deletion, time, faults and crashes.                                     *)

DeleteTicket(t) ==
    /\ HasRow(t)
    /\ tickets' = [tickets EXCEPT ![t].status = "deleted"]
    /\ UNCHANGED <<jobs, cronDue, expiring, topics, settled, spent>>

ValidityEnds(t) ==
    /\ HasRow(t) /\ tickets[t].validity = "running"
    /\ tickets' = [tickets EXCEPT ![t].validity = "over"]
    /\ UNCHANGED <<jobs, cronDue, expiring, topics, settled, spent>>

CountdownEnds(t) ==
    /\ HasRow(t) /\ tickets[t].countdown = "running"
    /\ tickets' = [tickets EXCEPT ![t].countdown = "due"]
    /\ UNCHANGED <<jobs, cronDue, expiring, topics, settled, spent>>

\* A write the database refuses.  Every handler turns the error into a result or
\* swallows it, the consumer's too, whose message is committed all the same; only
\* the purchase date's update lets it through.
WriteFails(j) ==
    /\ DbFaults
    /\ \/ j.pc = "write" /\ Finish(j)
       \/ j.pc = "stamp" /\ jobs' = jobs \ {j} /\ UNCHANGED topics
    /\ UNCHANGED <<tickets, cronDue, expiring, settled, spent>>

\* The process dies: what was in flight is gone, uncommitted messages are not.
Crash ==
    /\ jobs # {} \/ cronDue # {} \/ expiring # {}
    /\ jobs' = {} /\ cronDue' = {} /\ expiring' = {}
    /\ UNCHANGED <<tickets, topics, settled, spent>>

-----------------------------------------------------------------------------
Purchase(t) ==
    \/ \E k \in ShortTerm, free, fare \in BOOLEAN : CreateShortTerm(t, k, free, fare)
    \/ \E free \in BOOLEAN : CreateLongTerm(t, free)

Deliver(outcome) ==
    \E t \in Tickets : IF outcome = "completed" THEN HandleCompleted(t)
                                                ELSE HandleNotPaid(t, outcome)

Request(t) ==
    \/ CancelTicket(t)
    \/ \E s \in Operator : UpdateTicketStatus(t, s)
    \/ ActivateTicket(t)
    \/ UseTicket(t)
    \/ UseTicketByQRCode(t)
    \/ DeleteTicket(t)

Step(j) ==
    \/ WriteCompletion(j) \/ StampPurchase(j)
    \/ WriteCancel(j) \/ WriteStatus(j) \/ WriteActivation(j)
    \/ ReadForUse(j) \/ WriteUse(j) \/ TrackAbuse(j) \/ RecheckAbuse(j)
    \/ RelockAbuse(j)

\* Work that begins.
Arrive ==
    \/ \E t \in Tickets : Purchase(t) \/ Request(t)
    \/ \E outcome \in Outcomes : Deliver(outcome)
    \/ CronScan \/ ExpireScan

\* Work that goes on, payment-service, and time.
Proceed ==
    \/ \E j \in jobs : Step(j) \/ WriteFails(j)
    \/ \E t \in Tickets : CronActivate(t) \/ ValidityEnds(t) \/ CountdownEnds(t)
    \/ \E t \in Tickets, outcome \in Outcomes : PublishOutcome(t, outcome)
    \/ ExpireWrite \/ Crash

Next == Arrive \/ Proceed

Spec == Init /\ [][Next]_vars

\* Handlers one at a time: nothing begins while another is in flight.
Alone == jobs = {} /\ cronDue = {} /\ expiring = {}
SerialNext == (Alone /\ Arrive) \/ Proceed
SerialSpec == Init /\ [][SerialNext]_vars

\* The consumer's fetch loop takes the topics in turn and its handler returns; the
\* scheduler calls the activation job for ever, and a countdown comes to its end.
\* Nothing is assumed of passengers, operators, payments or validity periods.
LiveSpec ==
    /\ Spec
    /\ \A outcome \in Outcomes : SF_vars(Deliver(outcome))
    /\ WF_vars(\E j \in jobs : j.proc = Consumer /\ Step(j))
    /\ WF_vars(CronScan)
    /\ \A t \in Tickets : WF_vars(CronActivate(t)) /\ WF_vars(CountdownEnds(t))

-----------------------------------------------------------------------------
(* Handlers one at a time: what each of them promises.                     *)

Phase(row) ==
    CASE row.status = "absent"                         -> "unsold"
      [] row.status = "pending_payment"                -> "reserved"
      [] row.status = "inactive"                       -> "paid"
      [] row.status = "active"                         -> "valid"
      [] row.status = "abused" -> IF row.kind = "pass" THEN "valid" ELSE "closed"
      [] row.status \in {"used", "expired"}            -> "closed"
      [] row.status = "cancelled"                      -> "void"
      [] row.status = "deleted"                        -> "gone"

Contract == INSTANCE TicketContract
            WITH phase <- [t \in Tickets |-> Phase(tickets[t])],
                 kind  <- [t \in Tickets |-> tickets[t].kind],
                 rides <- spent

\* One handler at a time, the code keeps the contract of a ticket but for one thing,
\* whatever the order of purchases, payment messages, cancellations, gate scans, abuse
\* locks, batches and crashes: no ride beyond the allowance, none on a cancelled, used
\* or expired ticket, none on a pass that is not valid, and nothing brings a void or
\* closed ticket back.  The exception is RideUnpaid, which UnpaidNeverRides is about.
ImplementsContract == Contract!LenientSpec

\* "ticket created but not paid" (the states of ticket-service/README.md), and "Ticket
\* is not active and cannot be used" of any other status (ticket-usage.test.js): a gate
\* lets nobody through on a ticket whose price was never paid.
UnpaidNeverRides ==
    \A t \in Tickets : spent[t] > 0 /\ ~tickets[t].free => t \in settled

\* One handler at a time, usedList has one entry per use that was granted, also
\* when the use was an operator's and when a scan crashed half-way.
LedgerExact ==
    \A t \in Tickets : tickets[t].uses = spent[t]

-----------------------------------------------------------------------------
(* Any interleaving of handlers.                                           *)

\* usedList is rewritten from the copy a handler holds, so of two overlapping uses the
\* later write drops the entries made since its copy.  What every interleaving of scans,
\* operators, refused writes and crashes leaves intact: no entry stands for a use that
\* nobody was granted, and a ticket that was used is never written back as unused.
LedgerBounded ==
    \A t \in Tickets :
        /\ tickets[t].uses <= spent[t]
        /\ HasRow(t) /\ spent[t] > 0 => tickets[t].uses > 0

\* A ticket with a price is activated, or waits for its activation, only if its
\* payment was completed at some time: no race of the consumer, the routes and
\* the batches gives it away.  (An operator may activate it unpaid, on purpose.)
UnpaidNeverActive ==
    \A t \in Tickets :
        tickets[t].status \in {"active", "inactive", "expired"} /\ ~tickets[t].free
            => t \in settled

\* No handler, query or batch holds an older copy of the cancelled ticket t.
QuietlyCancelled(t) ==
    /\ tickets[t].status = "cancelled"
    /\ \A j \in jobs : j.ticket # t
    /\ t \notin cronDue \cup expiring

\* "No transitions from cancelled" (TicketStatusService.js): once what read the
\* ticket before its cancellation has ended, it stays cancelled until it is
\* deleted, and nothing starts to work on it.
CancelledStaysWhenQuiet ==
    [][\A t \in Tickets :
          QuietlyCancelled(t) => QuietlyCancelled(t)' \/ tickets'[t].status = "deleted"]_vars

\* payment.completed is delivered at least once: its handling is idempotent.  A
\* duplicate, or a redelivery after a crash, never puts a countdown that is over
\* back to 30 days.
CountdownNeverRewinds ==
    [][\A t \in Tickets :
          tickets[t].countdown = "due" => tickets'[t].countdown = "due"]_vars

\* The offset of a payment.completed message is committed only when its ticket no
\* longer waits for that payment.
NoPaymentDropped ==
    [][\A t \in Tickets :
          /\ Delivers("completed", t)
          /\ Len(topics'["completed"]) < Len(topics["completed"])
          => tickets'[t].status # "pending_payment"]_vars

\* A one-way ticket is good for one ride and a return ticket for two.
AllowanceKept ==
    \A t \in Tickets :
        tickets[t].kind \in ShortTerm => spent[t] <= Contract!Allowance[tickets[t].kind]

-----------------------------------------------------------------------------
(* What must happen.                                                       *)

CrashesStop == <>[][~Crash]_vars

\* A payment that was completed is credited to its ticket: a ticket with a message
\* in payment.completed does not wait for its payment for ever.  (A message whose
\* ticket was deleted is never committed and holds back those behind it.)
PaidIsSettled ==
    CrashesStop /\ [](\A t \in Tickets : tickets[t].status # "deleted")
    => \A t \in Tickets :
          (\E i \in 1..Len(topics["completed"]) : topics["completed"][i] = t)
                /\ tickets[t].status = "pending_payment"
          ~> tickets[t].status # "pending_payment"

\* A pass whose countdown was started is activated, by its passenger or by
\* activateDueTickets when the 30 days are over, unless it is cancelled or deleted.
PaidPassActivates ==
    CrashesStop
    => \A t \in Tickets :
          tickets[t].status = "inactive" /\ tickets[t].kind = "pass"
                /\ tickets[t].countdown # "none"
          ~> tickets[t].status # "inactive"
=============================================================================
