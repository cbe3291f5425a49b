------------------------ MODULE TicketLifecycleProofs ------------------------
(***************************************************************************)
(* What holds of TicketLifecycle for any set of tickets, any number of     *)
(* handlers in flight and any bounds:                                      *)
(*   types, and a handled message is still at the head of its topic         *)
(*   what a step does to a row, to a handler, to the topics and batches     *)
(*   under any interleaving: the ledger, cancellation, payment before       *)
(*   activation, and the payment consumer                                   *)
(*   handlers one at a time: the exact ledger and the contract of a ticket  *)
(***************************************************************************)
EXTENDS TicketLifecycle, TLAPS

PCs == {"read", "write", "stamp", "track", "recheck", "relock"}

\* A handler in flight is alone in its process, and the message it handles is
\* still the next of its topic: what makes it safe to commit that message.
OneJobEach == \A i, j \in jobs : i.proc = j.proc => i = j

MessageHeld ==
    \A j \in jobs : j.msg # "none" => j.proc = Consumer /\ Delivers(j.msg, j.ticket)

IInv == TypeOK /\ OneJobEach /\ MessageHeld

\* The part of IInv about jobs and topics.
Plumbing ==
    /\ jobs \in SUBSET Job
    /\ topics \in [Outcomes -> Seq(Tickets)]
    /\ OneJobEach
    /\ MessageHeld

-----------------------------------------------------------------------------
(* The helpers keep the types of what they change, and the plumbing.       *)

\* A row that is stored leaves a table of rows.
LEMMA StoreType ==
    ASSUME TypeOK, NEW t \in Tickets, NEW row \in Row, Store(t, row)
    PROVE  tickets' \in [Tickets -> Row]
BY DEF TypeOK, Store

\* A row updated in some of its columns is stored.
LEMMA NewStatusType ==
    ASSUME TypeOK, NEW j \in jobs, NEW s \in RowStatuses
    PROVE  NewStatus(j, s) \in RowStatuses \cup NoRow
BY DEF TypeOK, Job, Row, NewStatus

\* A request that starts a handler.
LEMMA ServePlumbing ==
    ASSUME IInv, NEW op \in Ops, NEW pc \in PCs, NEW t \in Tickets, NEW row \in Row,
           NEW s \in RowStatuses, Start(Procs, op, pc, t, row, s, "none"),
           UNCHANGED topics
    PROVE  Plumbing'
<1>1. PICK p \in Procs :
        /\ Idle(p)
        /\ jobs' = jobs \cup {[proc |-> p, op |-> op, pc |-> pc, ticket |-> t,
                               mem |-> row, to |-> s, msg |-> "none"]}
  BY DEF Start
<1>2. jobs' \in SUBSET Job /\ topics' \in [Outcomes -> Seq(Tickets)]
  BY <1>1 DEF IInv, TypeOK, Job, PCs
<1>3. OneJobEach'
  BY <1>1 DEF IInv, OneJobEach, Idle
<1>4. MessageHeld'
  BY <1>1 DEF IInv, MessageHeld, Delivers
<1> QED
  BY <1>2, <1>3, <1>4 DEF Plumbing

\* A message that starts a handler of the consumer.
LEMMA ConsumePlumbing ==
    ASSUME IInv, NEW op \in Ops, NEW t \in Tickets, NEW s \in RowStatuses,
           NEW m \in Outcomes, Delivers(m, t), Consume(op, t, s, m), UNCHANGED topics
    PROVE  Plumbing'
<1> DEFINE new == [proc |-> Consumer, op |-> op, pc |-> "write", ticket |-> t,
                   mem |-> tickets[t], to |-> s, msg |-> m]
<1>1. Idle(Consumer) /\ jobs' = jobs \cup {new}
  BY DEF Consume, Start
<1>2. new \in Job
  BY DEF IInv, TypeOK, Job
<1>3. jobs' \in SUBSET Job /\ topics' \in [Outcomes -> Seq(Tickets)]
  BY <1>1, <1>2 DEF IInv, TypeOK
<1>4. OneJobEach'
  BY <1>1 DEF IInv, OneJobEach, Idle
<1>5. MessageHeld'
  BY <1>1 DEF IInv, MessageHeld, Delivers
<1> QED
  BY <1>3, <1>4, <1>5 DEF Plumbing

\* The consumer commits a message it did not have to work on.
LEMMA SkipPlumbing ==
    ASSUME IInv, NEW m \in Outcomes, NEW t \in Tickets, Delivers(m, t),
           Idle(Consumer), Commit(m), UNCHANGED jobs
    PROVE  Plumbing'
<1>1. topics[m] \in Seq(Tickets) /\ topics[m] # <<>>
  BY DEF IInv, TypeOK, Delivers
<1>2. Tail(topics[m]) \in Seq(Tickets)
  BY <1>1
<1>3. topics' \in [Outcomes -> Seq(Tickets)]
  BY <1>2 DEF IInv, TypeOK, Commit
<1>4. \A j \in jobs : j.msg = "none"
  BY DEF IInv, MessageHeld, Idle
<1> QED
  BY <1>3, <1>4 DEF Plumbing, IInv, TypeOK, OneJobEach, MessageHeld

\* A handler goes on.
LEMMA ContinuePlumbing ==
    ASSUME IInv, NEW j \in jobs, NEW next \in Job, next.proc = j.proc,
           next.msg = j.msg, next.ticket = j.ticket, Continue(j, next),
           UNCHANGED topics
    PROVE  Plumbing'
<1>1. jobs' \in SUBSET Job /\ topics' \in [Outcomes -> Seq(Tickets)]
  BY DEF IInv, TypeOK, Continue
<1>2. OneJobEach'
  BY DEF IInv, OneJobEach, Continue
<1>3. MessageHeld'
  BY DEF IInv, MessageHeld, Continue, Delivers
<1> QED
  BY <1>1, <1>2, <1>3 DEF Plumbing

\* A handler ends without committing anything.
LEMMA DropPlumbing ==
    ASSUME IInv, NEW j \in jobs, jobs' = jobs \ {j}, UNCHANGED topics
    PROVE  Plumbing'
BY DEF IInv, TypeOK, OneJobEach, MessageHeld, Plumbing, Delivers

\* A handler ends and its message, if it had one, is committed.
LEMMA FinishPlumbing ==
    ASSUME IInv, NEW j \in jobs, Finish(j)
    PROVE  Plumbing'
<1>1. CASE j.msg = "none"
  BY <1>1, DropPlumbing DEF Finish
<1>2. CASE j.msg # "none"
  <2>1. j.msg \in Outcomes /\ j.ticket \in Tickets
    BY <1>2 DEF IInv, TypeOK, Job
  <2>2. topics[j.msg] \in Seq(Tickets) /\ topics[j.msg] # <<>>
    BY <1>2, <2>1 DEF IInv, TypeOK, MessageHeld, Delivers
  <2>3. Tail(topics[j.msg]) \in Seq(Tickets)
    BY <2>2
  <2>4. topics' \in [Outcomes -> Seq(Tickets)] /\ jobs' = jobs \ {j}
    BY <1>2, <2>1, <2>3 DEF IInv, TypeOK, Finish, Commit
  <2>5. \A i \in jobs' : i.msg = "none"
    BY <1>2, <2>4 DEF IInv, OneJobEach, MessageHeld
  <2> QED
    BY <2>4, <2>5 DEF Plumbing, IInv, TypeOK, OneJobEach, MessageHeld
<1> QED
  BY <1>1, <1>2

-----------------------------------------------------------------------------
(* Every step keeps the types and the plumbing.                            *)

\* The part of TypeOK about everything but jobs and topics.
Tables ==
    /\ tickets \in [Tickets -> Row]
    /\ cronDue \in SUBSET Tickets
    /\ expiring \in SUBSET Tickets
    /\ settled \in SUBSET Tickets
    /\ spent \in [Tickets -> Nat]

LEMMA Split == IInv <=> Tables /\ Plumbing
BY DEF IInv, TypeOK, Tables, Plumbing

LEMMA SplitNext == IInv' <=> Tables' /\ Plumbing'
BY DEF IInv, TypeOK, Tables, Plumbing

\* A route, a consumed message or a batch that begins.
LEMMA ArriveIInv == IInv /\ Arrive => IInv'
<1> SUFFICES ASSUME IInv, Arrive
             PROVE  Tables' /\ Plumbing'
  BY SplitNext
<1> USE DEF Ops, UseOps, PCs
<1>0. Tables /\ Plumbing
  BY Split
<1>1. ASSUME NEW t \in Tickets, NEW k \in ShortTerm, NEW free \in BOOLEAN,
             NEW fare \in BOOLEAN, CreateShortTerm(t, k, free, fare)
      PROVE  Tables' /\ Plumbing'
  <2> DEFINE row == [AbsentRow EXCEPT !.status = "pending_payment", !.kind = k,
                        !.free = free, !.fare = fare, !.validity = "running"]
  <2>1. row \in Row
    BY DEF AbsentRow, Row, RowStatuses, ValidStatuses, Kinds
  <2>2. Tables'
    BY <1>0, <1>1, <2>1 DEF CreateShortTerm, Tables
  <2>3. CASE free
    <3>1. StatusAfterPayment(row) \in RowStatuses
      BY DEF StatusAfterPayment, RowStatuses, ValidStatuses
    <3>2. Start(Procs, "processPaymentCompletion", "write", t, row,
                StatusAfterPayment(row), "none")
      BY <1>1, <2>3 DEF CreateShortTerm
    <3>3. UNCHANGED topics
      BY <1>1 DEF CreateShortTerm
    <3>4. Plumbing'
      BY <2>1, <3>1, <3>2, <3>3, ServePlumbing
    <3> QED
      BY <2>2, <3>4
  <2>4. CASE ~free
    BY <1>0, <1>1, <2>2, <2>4
       DEF CreateShortTerm, Plumbing, OneJobEach, MessageHeld, Delivers
  <2> QED
    BY <2>3, <2>4
<1>2. ASSUME NEW t \in Tickets, NEW free \in BOOLEAN, CreateLongTerm(t, free)
      PROVE  Tables' /\ Plumbing'
  <2>1. tickets' \in [Tickets -> Row]
    BY <1>0, <1>2 DEF CreateLongTerm, Tables, AbsentRow, Row, RowStatuses,
                      ValidStatuses, Kinds
  <2> QED
    BY <1>0, <1>2, <2>1 DEF CreateLongTerm, Tables, Plumbing, OneJobEach,
                            MessageHeld, Delivers
<1>3. ASSUME NEW t \in Tickets, NEW op \in Ops, NEW pc \in PCs, NEW s \in RowStatuses,
             Serve(op, pc, t, s),
             UNCHANGED <<tickets, cronDue, expiring, topics, settled, spent>>
      PROVE  Tables' /\ Plumbing'
  <2>1. tickets[t] \in Row /\ Start(Procs, op, pc, t, tickets[t], s, "none")
    BY <1>0, <1>3 DEF Serve, Tables
  <2>2. Plumbing'
    BY <1>3, <2>1, ServePlumbing
  <2> QED
    BY <1>0, <1>3, <2>2 DEF Tables
<1>4. ASSUME NEW t \in Tickets, Request(t)
      PROVE  Tables' /\ Plumbing'
  <2>1. CASE CancelTicket(t)
    BY <1>3, <2>1 DEF CancelTicket, RowStatuses, ValidStatuses
  <2>2. ASSUME NEW s \in Operator, UpdateTicketStatus(t, s)
        PROVE  Tables' /\ Plumbing'
    <3>1. s \in RowStatuses
      BY <2>2 DEF UpdateTicketStatus, ValidTransitions, RowStatuses, ValidStatuses
    <3> QED
      BY <1>3, <2>2, <3>1 DEF UpdateTicketStatus
  <2>3. CASE ActivateTicket(t)
    BY <1>3, <2>3 DEF ActivateTicket, RowStatuses, ValidStatuses
  <2>4. CASE UseTicket(t)
    BY <1>3, <2>4 DEF UseTicket, RowStatuses, ValidStatuses
  <2>5. CASE UseTicketByQRCode(t)
    BY <1>3, <2>5 DEF UseTicketByQRCode, RowStatuses, ValidStatuses
  <2>6. CASE DeleteTicket(t)
    <3>1. tickets' \in [Tickets -> Row]
      BY <1>0, <2>6 DEF DeleteTicket, Tables, Row, NoRow
    <3> QED
      BY <1>0, <2>6, <3>1 DEF DeleteTicket, Tables, Plumbing, OneJobEach,
                              MessageHeld, Delivers
  <2> QED
    BY <1>4, <2>1, <2>2, <2>3, <2>4, <2>5, <2>6 DEF Request
<1>5. ASSUME NEW t \in Tickets, HandleCompleted(t)
      PROVE  Tables' /\ Plumbing'
  <2>1. Tables'
    BY <1>0, <1>5 DEF HandleCompleted, Tables
  <2>2. "completed" \in Outcomes /\ StatusAfterPayment(tickets[t]) \in RowStatuses
    BY DEF Outcomes, StatusAfterPayment, RowStatuses, ValidStatuses
  <2>3. CASE tickets[t].status = "pending_payment"
    BY <1>5, <2>1, <2>2, <2>3, ConsumePlumbing DEF HandleCompleted
  <2>4. CASE tickets[t].status # "pending_payment"
    BY <1>5, <2>1, <2>2, <2>4, SkipPlumbing DEF HandleCompleted
  <2> QED
    BY <2>3, <2>4
<1>6. ASSUME NEW t \in Tickets, NEW outcome \in Outcomes, HandleNotPaid(t, outcome)
      PROVE  Tables' /\ Plumbing'
  <2>1. Tables'
    BY <1>0, <1>6 DEF HandleNotPaid, Tables
  <2>2. "cancelled" \in RowStatuses
    BY DEF RowStatuses, ValidStatuses
  <2>3. CASE "cancelled" \in ValidTransitions(tickets[t].status)
    BY <1>6, <2>1, <2>2, <2>3, ConsumePlumbing DEF HandleNotPaid
  <2>4. CASE "cancelled" \notin ValidTransitions(tickets[t].status)
    BY <1>6, <2>1, <2>4, SkipPlumbing DEF HandleNotPaid
  <2> QED
    BY <2>3, <2>4
<1>7. CASE CronScan
  BY <1>0, <1>7 DEF CronScan, Tables, Plumbing, OneJobEach, MessageHeld, Delivers
<1>8. CASE ExpireScan
  BY <1>0, <1>8 DEF ExpireScan, Tables, Plumbing, OneJobEach, MessageHeld, Delivers
<1> QED
  BY <1>1, <1>2, <1>4, <1>5, <1>6, <1>7, <1>8 DEF Arrive, Purchase, Deliver

\* A step of a handler in flight.
LEMMA StepIInv == ASSUME IInv, NEW j \in jobs, Step(j)
                  PROVE  IInv'
<1> SUFFICES Tables' /\ Plumbing'
  BY SplitNext
<1>0. Tables /\ Plumbing
  BY Split
<1> DEFINE t == j.ticket
           row == tickets[t]
<1>a. j \in Job /\ t \in Tickets /\ row \in Row /\ j.mem \in Row /\ j.to \in RowStatuses
  BY <1>0 DEF Tables, Plumbing, Job
<1>b. \A s \in RowStatuses : NewStatus(j, s) \in RowStatuses \cup NoRow
  BY NewStatusType DEF IInv
<1>c. {"used", "active", "cancelled", "abused"} \subseteq RowStatuses
  BY DEF RowStatuses, ValidStatuses
<1>1. CASE WriteCompletion(j)
  <2>1. [row EXCEPT !.status = NewStatus(j, j.to),
                    !.countdown = IF j.to = "active" THEN "due" ELSE "running"] \in Row
    BY <1>a, <1>b DEF Row, Job
  <2>2. Tables'
    BY <1>0, <1>1, <1>a, <2>1, StoreType DEF WriteCompletion, Tables, IInv
  <2>3. CASE j.msg # "none" /\ HasRow(j.ticket)
    <3>1. [j EXCEPT !.pc = "stamp"] \in Job
      BY <1>a DEF Job
    <3>2. /\ [j EXCEPT !.pc = "stamp"].proc = j.proc
          /\ [j EXCEPT !.pc = "stamp"].msg = j.msg
          /\ [j EXCEPT !.pc = "stamp"].ticket = j.ticket
      BY <1>a DEF Job
    <3> QED
      BY <1>1, <2>2, <2>3, <3>1, <3>2, ContinuePlumbing DEF WriteCompletion
  <2>4. CASE ~(j.msg # "none" /\ HasRow(j.ticket))
    BY <1>1, <2>2, <2>4, FinishPlumbing DEF WriteCompletion
  <2> QED
    BY <2>3, <2>4
<1>2. CASE StampPurchase(j)
  <2>1. Tables'
    BY <1>0, <1>2 DEF StampPurchase, Tables
  <2> QED
    BY <1>2, <2>1, FinishPlumbing, DropPlumbing DEF StampPurchase
<1>3. CASE WriteCancel(j)
  <2>1. [row EXCEPT !.status = NewStatus(j, "cancelled"), !.isActive = FALSE] \in Row
    BY <1>a, <1>b, <1>c DEF Row
  <2>2. Tables'
    BY <1>0, <1>3, <1>a, <2>1, StoreType DEF WriteCancel, Tables, IInv
  <2> QED
    BY <1>3, <2>2, FinishPlumbing DEF WriteCancel
<1>4. CASE WriteStatus(j)
  <2> DEFINE starts == j.to = "active" /\ j.mem.status = "inactive"
                                       /\ j.mem.validity = "none"
             uses == IF j.to = "used" THEN j.mem.uses + 1 ELSE row.uses
             flag == IF j.to = "cancelled" THEN FALSE ELSE row.isActive
             validity == IF starts THEN "running" ELSE row.validity
             countdown == IF starts THEN "due" ELSE row.countdown
             new == [row EXCEPT !.status = NewStatus(j, j.to), !.uses = uses,
                                !.isActive = flag, !.validity = validity,
                                !.countdown = countdown]
  <2>a. uses \in Nat
    BY <1>a DEF Row
  <2>b. flag \in BOOLEAN
    BY <1>a DEF Row
  <2>c. validity \in {"none", "running", "over"}
    BY <1>a DEF Row
  <2>d. countdown \in {"none", "running", "due"}
    BY <1>a DEF Row
  <2>1. new \in Row
    <3> HIDE DEF uses, flag, validity, countdown
    <3> QED
      BY <1>a, <1>b, <2>a, <2>b, <2>c, <2>d DEF Row
  <2>2. Store(t, new)
    BY <1>4 DEF WriteStatus
  <2>3. spent' \in [Tickets -> Nat]
    BY <1>0, <1>4, <1>a DEF WriteStatus, Tables
  <2>4. Tables'
    BY <1>0, <1>4, <1>a, <2>1, <2>2, <2>3, StoreType DEF WriteStatus, Tables, IInv
  <2> QED
    BY <1>4, <2>4, FinishPlumbing DEF WriteStatus
<1>5. CASE WriteActivation(j)
  <2>1. [row EXCEPT !.status = NewStatus(j, "active"),
                    !.validity = "running", !.countdown = "due"] \in Row
    BY <1>a, <1>b, <1>c DEF Row
  <2>2. Tables'
    BY <1>0, <1>5, <1>a, <2>1, StoreType DEF WriteActivation, Tables, IInv
  <2> QED
    BY <1>5, <2>2, FinishPlumbing DEF WriteActivation
<1>6. CASE ReadForUse(j)
  <2>1. Tables'
    BY <1>0, <1>6 DEF ReadForUse, Tables
  <2>2. CASE HasRow(t) /\ Admits(row)
    <3> DEFINE next == [j EXCEPT !.pc = "write", !.mem = row]
    <3>1. next \in Job /\ next.proc = j.proc /\ next.msg = j.msg
                       /\ next.ticket = j.ticket
      BY <1>a DEF Job
    <3> QED
      BY <1>6, <2>1, <2>2, <3>1, ContinuePlumbing DEF ReadForUse
  <2>3. CASE ~(HasRow(t) /\ Admits(row))
    BY <1>6, <2>1, <2>3, DropPlumbing DEF ReadForUse
  <2> QED
    BY <2>2, <2>3
<1>7. CASE WriteUse(j)
  <2> DEFINE last == LastUse(j.mem)
             new == [row EXCEPT !.uses = j.mem.uses + 1,
                                !.status = IF last THEN NewStatus(j, "used")
                                           ELSE row.status]
             next == [j EXCEPT !.pc = "track", !.mem.uses = @ + 1,
                               !.mem.status = IF last THEN "used" ELSE @]
  <2>1. new \in Row
    <3>1. j.mem.uses + 1 \in Nat
      BY <1>a DEF Row
    <3>2. (IF last THEN NewStatus(j, "used") ELSE row.status) \in RowStatuses \cup NoRow
      BY <1>a, <1>b, <1>c DEF Row
    <3> QED
      BY <1>a, <3>1, <3>2 DEF Row
  <2>2. Store(t, new)
    BY <1>7 DEF WriteUse
  <2>3. spent' \in [Tickets -> Nat]
    BY <1>0, <1>7, <1>a DEF WriteUse, Tables
  <2>4. Tables'
    BY <1>0, <1>7, <1>a, <2>1, <2>2, <2>3, StoreType DEF WriteUse, Tables, IInv
  <2>5. next \in Job /\ next.proc = j.proc /\ next.msg = j.msg
                     /\ next.ticket = j.ticket
    <3> DEFINE mem == [j.mem EXCEPT !.uses = @ + 1,
                                    !.status = IF last THEN "used" ELSE @]
    <3>a. (IF last THEN "used" ELSE j.mem.status) \in RowStatuses \cup NoRow
      BY <1>a, <1>c DEF Row
    <3>b. j.mem.uses + 1 \in Nat
      BY <1>a DEF Row
    <3>c. mem = [j.mem EXCEPT !.uses = j.mem.uses + 1,
                              !.status = IF last THEN "used" ELSE j.mem.status]
      BY <1>a DEF Row
    <3>1. mem \in Row
      BY <1>a, <3>a, <3>b, <3>c DEF Row
    <3>2. next = [j EXCEPT !.pc = "track", !.mem = mem]
      BY <1>a DEF Job
    <3> QED
      BY <1>a, <3>1, <3>2 DEF Job
  <2> QED
    BY <1>7, <2>4, <2>5, ContinuePlumbing DEF WriteUse
<1>8. CASE TrackAbuse(j)
  <2>1. [row EXCEPT !.status = NewStatus(j, "abused")] \in Row
    BY <1>a, <1>b, <1>c DEF Row
  <2>2. Tables'
    BY <1>0, <1>8, <1>a, <2>1, StoreType DEF TrackAbuse, Tables, IInv
  <2>3. [j EXCEPT !.pc = "recheck"] \in Job
        /\ [j EXCEPT !.pc = "recheck"].proc = j.proc
        /\ [j EXCEPT !.pc = "recheck"].msg = j.msg
        /\ [j EXCEPT !.pc = "recheck"].ticket = j.ticket
    BY <1>a DEF Job
  <2> QED
    BY <1>8, <2>2, <2>3, ContinuePlumbing, DropPlumbing DEF TrackAbuse
<1>9. CASE RecheckAbuse(j)
  <2> DEFINE next == [j EXCEPT !.pc = "relock", !.mem = row]
  <2>1. Tables'
    BY <1>0, <1>9 DEF RecheckAbuse, Tables
  <2>2. next \in Job /\ next.proc = j.proc /\ next.msg = j.msg
                     /\ next.ticket = j.ticket
    BY <1>a DEF Job
  <2> QED
    BY <1>9, <2>1, <2>2, ContinuePlumbing, DropPlumbing DEF RecheckAbuse
<1>10. CASE RelockAbuse(j)
  <2>1. [row EXCEPT !.status = NewStatus(j, "abused")] \in Row
    BY <1>a, <1>b, <1>c DEF Row
  <2>2. Tables'
    BY <1>0, <1>10, <1>a, <2>1, StoreType DEF RelockAbuse, Tables, IInv
  <2> QED
    BY <1>10, <2>2, DropPlumbing DEF RelockAbuse
<1> QED
  BY <1>1, <1>2, <1>3, <1>4, <1>5, <1>6, <1>7, <1>8, <1>9, <1>10 DEF Step

\* What goes on besides the handlers: payment-service, time, batches and faults.
LEMMA ProceedIInv == IInv /\ Proceed => IInv'
<1> SUFFICES ASSUME IInv, Proceed
             PROVE  IInv'
  OBVIOUS
<1>0. Tables /\ Plumbing
  BY Split
<1>1. ASSUME NEW j \in jobs, WriteFails(j)
      PROVE  IInv'
  <2>1. Tables'
    BY <1>0, <1>1 DEF WriteFails, Tables
  <2>2. Plumbing'
    BY <1>1, FinishPlumbing, DropPlumbing DEF WriteFails
  <2> QED
    BY <2>1, <2>2 DEF IInv, TypeOK, Tables, Plumbing
<1>2. ASSUME NEW t \in Tickets, CronActivate(t)
      PROVE  IInv'
  <2>1. [tickets[t] EXCEPT !.status = "active", !.validity = "running"] \in Row
    BY <1>0 DEF Tables, Row, RowStatuses, ValidStatuses
  <2>2. tickets' \in [Tickets -> Row]
    BY <1>0, <1>2, <2>1, StoreType DEF CronActivate, Tables, IInv
  <2> QED
    BY <1>0, <1>2, <2>2 DEF CronActivate, Tables, Plumbing, IInv, TypeOK, OneJobEach,
                            MessageHeld, Delivers
<1>3. ASSUME NEW t \in Tickets, ValidityEnds(t) \/ CountdownEnds(t)
      PROVE  IInv'
  <2>1. tickets' \in [Tickets -> Row]
    BY <1>0, <1>3 DEF ValidityEnds, CountdownEnds, Tables, Row
  <2> QED
    BY <1>0, <1>3, <2>1 DEF ValidityEnds, CountdownEnds, Tables, Plumbing, IInv, TypeOK,
                            OneJobEach, MessageHeld, Delivers
<1>4. ASSUME NEW t \in Tickets, NEW outcome \in Outcomes, PublishOutcome(t, outcome)
      PROVE  IInv'
  <2>1. topics[outcome] \in Seq(Tickets)
    BY <1>0 DEF Plumbing
  <2>2. /\ Append(topics[outcome], t) \in Seq(Tickets)
        /\ topics[outcome] # <<>> => /\ Append(topics[outcome], t) # <<>>
                                     /\ Head(Append(topics[outcome], t)) = Head(topics[outcome])
    BY <2>1
  <2>3. topics' = [topics EXCEPT ![outcome] = Append(@, t)] /\ UNCHANGED jobs
    BY <1>4 DEF PublishOutcome
  <2>4. MessageHeld'
    BY <1>0, <2>2, <2>3 DEF Plumbing, MessageHeld, Delivers, Job
  <2>5. Tables'
    BY <1>0, <1>4 DEF PublishOutcome, Tables
  <2> QED
    BY <1>0, <2>2, <2>3, <2>4, <2>5 DEF Plumbing, Tables, IInv, TypeOK, OneJobEach
<1>5. CASE ExpireWrite
  <2>1. tickets' \in [Tickets -> Row]
    BY <1>0, <1>5 DEF ExpireWrite, Tables, Row, RowStatuses, ValidStatuses
  <2> QED
    BY <1>0, <1>5, <2>1 DEF ExpireWrite, Tables, Plumbing, IInv, TypeOK, OneJobEach,
                            MessageHeld, Delivers
<1>6. CASE Crash
  BY <1>0, <1>6 DEF Crash, Tables, Plumbing, IInv, TypeOK, OneJobEach, MessageHeld
<1> QED
  BY <1>1, <1>2, <1>3, <1>4, <1>5, <1>6, StepIInv DEF Proceed

\* TypeOK is not inductive as it stands: a handler commits the message at the head
\* of a topic, and only because the consumer handles one message at a time is there
\* one.  IInv adds that.
THEOREM TypeInvariant == Spec => [](TypeOK /\ OneJobEach /\ MessageHeld)
<1>1. Init => IInv
  BY DEF Init, IInv, TypeOK, OneJobEach, MessageHeld, AbsentRow, Row, RowStatuses,
         NoRow, Kinds, ShortTerm
<1>2. IInv /\ [Next]_vars => IInv'
  <2>1. CASE UNCHANGED vars
    BY <2>1 DEF vars, IInv, TypeOK, OneJobEach, MessageHeld, Delivers
  <2> QED
    BY <2>1, ArriveIInv, ProceedIInv DEF Next
<1> QED
  BY <1>1, <1>2, PTL DEF Spec, IInv

-----------------------------------------------------------------------------
(* What a step does to a row: the later proofs look at steps through these *)
(* lemmas and those of the next section.                                   *)

Completing(j) == j.op = "processPaymentCompletion" /\ j.pc = "write"

\* Columns that nothing but the purchase writes.
SameTicket(old, new) == new.kind = old.kind /\ new.free = old.free /\ new.fare = old.fare

\* A use of the ticket is granted.
Granted(u) == spent' = [spent EXCEPT ![u] = @ + 1]

\* The row of ticket u as handler j writes it.
WrittenBy(j, u) ==
    LET old == tickets[u]
        new == tickets'[u]
    IN  /\ j.ticket = u /\ HasRow(u) /\ SameTicket(old, new)
        /\ \/ /\ Completing(j)
              /\ new.status = NewStatus(j, j.to)
              /\ new.countdown = IF j.to = "active" THEN "due" ELSE "running"
              /\ new.uses = old.uses /\ new.validity = old.validity
           \/ /\ j.op = "cancelTicket"
              /\ new.status = NewStatus(j, "cancelled")
              /\ new.countdown = old.countdown
              /\ new.uses = old.uses /\ new.validity = old.validity
           \/ /\ j.op = "updateTicketStatus"
              /\ new.status = NewStatus(j, j.to)
              /\ \/ new.countdown = old.countdown /\ new.validity = old.validity
                 \/ /\ new.countdown = "due" /\ new.validity = "running"
                    /\ j.mem.status = "inactive" /\ j.to = "active"
              /\ \/ new.uses = old.uses /\ j.to # "used"
                 \/ new.uses = j.mem.uses + 1 /\ j.to = "used" /\ Granted(u)
           \/ /\ j.op = "activateTicket"
              /\ new.status = NewStatus(j, "active")
              /\ new.countdown = "due" /\ new.validity = "running"
              /\ new.uses = old.uses
           \/ /\ j.op \in UseOps /\ j.pc = "write"
              /\ new.status = IF LastUse(j.mem) THEN NewStatus(j, "used") ELSE old.status
              /\ new.countdown = old.countdown /\ new.validity = old.validity
              /\ new.uses = j.mem.uses + 1 /\ Granted(u)
           \/ /\ j.pc \in {"track", "relock"}
              /\ j.pc = "track" => j.op \in UseOps /\ Suspicious(j.mem)
              /\ new.status = NewStatus(j, "abused")
              /\ new.countdown = old.countdown /\ new.validity = old.validity
              /\ new.uses = old.uses

\* What becomes of the row of ticket u.
RowStep(u) ==
    LET old == tickets[u]
        new == tickets'[u]
    IN  \/ new = old
        \/ /\ old.status = "absent" /\ new.countdown = "none" /\ new.uses = 0
           /\ \/ new.status = "pending_payment" /\ (new.kind = "pass" => new.validity = "none")
              \/ new.status = "inactive" /\ new.free /\ new.validity = "none"
        \/ HasRow(u) /\ new = [old EXCEPT !.status = "deleted"]
        \/ /\ HasRow(u) /\ SameTicket(old, new)
           /\ new.status = old.status /\ new.uses = old.uses
           /\ \/ new.countdown = old.countdown /\ old.validity = "running"
              \/ /\ new.countdown = "due" /\ old.countdown = "running"
                 /\ new.validity = old.validity
        \/ \E j \in jobs : Step(j) /\ WrittenBy(j, u)
        \/ /\ HasRow(u) /\ u \in cronDue
           /\ new = [old EXCEPT !.status = "active", !.validity = "running"]
        \/ HasRow(u) /\ u \in expiring /\ new = [old EXCEPT !.status = "expired"]

\* A handler that has just read its row: the status checks it has passed.
Began(j) ==
    /\ j.mem = tickets'[j.ticket] /\ HasRow(j.ticket)'
    /\ \/ /\ j.op = "cancelTicket" /\ j.pc = "write" /\ j.msg = "none"
          /\ j.mem.status \notin {"used", "cancelled"}
          /\ j.to = "cancelled"
       \/ /\ j.op = "updateTicketStatus" /\ j.pc = "write" /\ j.msg # "completed"
          /\ j.to \in ValidTransitions(j.mem.status)
          /\ j.msg = "none" => j.to \in Operator
          /\ j.msg # "none" => j.to = "cancelled"
       \/ /\ j.op = "activateTicket" /\ j.pc = "write" /\ j.msg = "none"
          /\ j.mem.status = "inactive" /\ j.mem.kind = "pass"
          /\ j.to = "active"
       \/ /\ j.op \in UseOps /\ j.pc = "read" /\ j.msg = "none"
          /\ j.mem.status \notin {"used", "cancelled", "expired"}
          /\ j.to = "used"
       \/ /\ Completing(j)
          /\ j.mem.status = "pending_payment"
          /\ j.to = StatusAfterPayment(j.mem)
          /\ \/ j.proc = Consumer /\ j.msg = "completed" /\ Delivers("completed", j.ticket)
             \/ j.proc \in Procs /\ j.msg = "none" /\ j.mem.free /\ tickets[j.ticket].status = "absent"

\* Handler i goes on as j.
WentOn(i, j) ==
    /\ j.proc = i.proc /\ j.op = i.op /\ j.ticket = i.ticket /\ j.to = i.to /\ j.msg = i.msg
    /\ \/ /\ Completing(i) /\ j.pc = "stamp" /\ j.mem = i.mem
          /\ i.msg # "none" /\ HasRow(i.ticket)
          /\ tickets'[i.ticket].status = NewStatus(i, i.to)
       \/ /\ i.op \in UseOps /\ i.pc = "read" /\ j.pc = "write"
          /\ j.mem = tickets[i.ticket] /\ HasRow(i.ticket) /\ Admits(j.mem)
          /\ UNCHANGED tickets
       \/ /\ i.op \in UseOps /\ i.pc = "write" /\ j.pc = "track"
          /\ j.mem.kind = i.mem.kind /\ j.mem.uses = i.mem.uses + 1 /\ Granted(i.ticket)
          /\ j.mem.status = IF LastUse(i.mem) THEN "used" ELSE i.mem.status
       \/ /\ i.op \in UseOps /\ i.pc = "track" /\ j.pc = "recheck" /\ j.mem = i.mem
       \/ /\ i.pc = "recheck" /\ j.pc = "relock"
          /\ j.mem = tickets[i.ticket] /\ HasRow(i.ticket) /\ Suspicious(j.mem)
          /\ UNCHANGED tickets

\* A row after a store.
LEMMA StoredRow ==
    ASSUME TypeOK, NEW t \in Tickets, NEW row, Store(t, row)
    PROVE  \A u \in Tickets : tickets'[u] = IF u = t /\ HasRow(t) THEN row ELSE tickets[u]
BY DEF TypeOK, Store

\* What a handler in flight holds.
LEMMA JobParts ==
    ASSUME TypeOK, NEW j \in jobs
    PROVE  /\ j \in Job /\ j.ticket \in Tickets /\ j.mem \in Row /\ j.mem.uses \in Nat
           /\ j.to \in RowStatuses /\ tickets[j.ticket] \in Row
BY DEF TypeOK, Job, Row

\* A step of a handler leaves a row as it was or writes it, its own and no other.
LEMMA HandlerRows ==
    ASSUME TypeOK, NEW j \in jobs, Step(j), NEW u \in Tickets
    PROVE  /\ tickets'[u] = tickets[u] \/ WrittenBy(j, u)
           /\ u = j.ticket /\ HasRow(u) /\ j.pc = "write" => WrittenBy(j, u)
<1> DEFINE t == j.ticket
           row == tickets[t]
<1>0. t \in Tickets /\ row \in Row /\ j.mem \in Row
  BY JobParts
<1>1. CASE WriteCompletion(j)
  <2> DEFINE new == [row EXCEPT !.status = NewStatus(j, j.to),
                       !.countdown = IF j.to = "active" THEN "due" ELSE "running"]
  <2>1. /\ SameTicket(row, new) /\ new.status = NewStatus(j, j.to)
        /\ new.countdown = IF j.to = "active" THEN "due" ELSE "running"
        /\ new.uses = row.uses /\ new.validity = row.validity
    BY <1>0 DEF Row, SameTicket
  <2>2. Completing(j) /\ Store(t, new)
    BY <1>1 DEF WriteCompletion, Completing
  <2> HIDE DEF new
  <2> QED BY <1>0, <2>1, <2>2, StoredRow DEF WrittenBy
<1>2. CASE WriteCancel(j)
  <2> DEFINE new == [row EXCEPT !.status = NewStatus(j, "cancelled"), !.isActive = FALSE]
  <2>1. /\ SameTicket(row, new) /\ new.status = NewStatus(j, "cancelled")
        /\ new.countdown = row.countdown
        /\ new.uses = row.uses /\ new.validity = row.validity
    BY <1>0 DEF Row, SameTicket
  <2>2. j.op = "cancelTicket" /\ Store(t, new)
    BY <1>2 DEF WriteCancel
  <2> HIDE DEF new
  <2> QED BY <1>0, <2>1, <2>2, StoredRow DEF WrittenBy
<1>3. CASE WriteStatus(j)
  <2> DEFINE starts == j.to = "active" /\ j.mem.status = "inactive"
                                       /\ j.mem.validity = "none"
             uses == IF j.to = "used" THEN j.mem.uses + 1 ELSE row.uses
             flag == IF j.to = "cancelled" THEN FALSE ELSE row.isActive
             validity == IF starts THEN "running" ELSE row.validity
             countdown == IF starts THEN "due" ELSE row.countdown
             new == [row EXCEPT !.status = NewStatus(j, j.to), !.uses = uses,
                                !.isActive = flag, !.validity = validity,
                                !.countdown = countdown]
  <2>1. /\ SameTicket(row, new) /\ new.status = NewStatus(j, j.to)
        /\ new.countdown = countdown /\ new.validity = validity /\ new.uses = uses
    <3> HIDE DEF uses, flag, validity, countdown
    <3> QED BY <1>0 DEF Row, SameTicket
  <2>2. /\ j.op = "updateTicketStatus" /\ Store(t, new)
        /\ j.to = "used" => Granted(t)
    BY <1>3 DEF WriteStatus, Granted
  <2> HIDE DEF new
  <2> QED BY <1>0, <2>1, <2>2, StoredRow DEF WrittenBy
<1>4. CASE WriteActivation(j)
  <2> DEFINE new == [row EXCEPT !.status = NewStatus(j, "active"),
                                !.validity = "running", !.countdown = "due"]
  <2>1. /\ SameTicket(row, new) /\ new.status = NewStatus(j, "active")
        /\ new.countdown = "due" /\ new.validity = "running" /\ new.uses = row.uses
    BY <1>0 DEF Row, SameTicket
  <2>2. j.op = "activateTicket" /\ Store(t, new)
    BY <1>4 DEF WriteActivation
  <2> HIDE DEF new
  <2> QED BY <1>0, <2>1, <2>2, StoredRow DEF WrittenBy
<1>5. CASE WriteUse(j)
  <2> DEFINE new == [row EXCEPT !.uses = j.mem.uses + 1,
                       !.status = IF LastUse(j.mem) THEN NewStatus(j, "used")
                                  ELSE row.status]
  <2>1. /\ SameTicket(row, new)
        /\ new.status = IF LastUse(j.mem) THEN NewStatus(j, "used") ELSE row.status
        /\ new.countdown = row.countdown /\ new.validity = row.validity
        /\ new.uses = j.mem.uses + 1
    BY <1>0 DEF Row, SameTicket
  <2>2. j.op \in UseOps /\ j.pc = "write" /\ Store(t, new) /\ Granted(t)
    BY <1>5 DEF WriteUse, Granted
  <2> HIDE DEF new
  <2> QED BY <1>0, <2>1, <2>2, StoredRow DEF WrittenBy
<1>6. CASE TrackAbuse(j) \/ RelockAbuse(j)
  <2> DEFINE new == [row EXCEPT !.status = NewStatus(j, "abused")]
  <2>1. /\ SameTicket(row, new) /\ new.status = NewStatus(j, "abused")
        /\ new.countdown = row.countdown /\ new.validity = row.validity
        /\ new.uses = row.uses
    BY <1>0 DEF Row, SameTicket
  <2>2. /\ j.pc \in {"track", "relock"}
        /\ \/ UNCHANGED tickets
           \/ Store(t, new) /\ (j.pc = "track" => j.op \in UseOps /\ Suspicious(j.mem))
    BY <1>6 DEF TrackAbuse, RelockAbuse
  <2> HIDE DEF new
  <2> QED BY <1>0, <2>1, <2>2, StoredRow DEF WrittenBy
<1>7. CASE StampPurchase(j) \/ ReadForUse(j) \/ RecheckAbuse(j)
  BY <1>7 DEF StampPurchase, ReadForUse, RecheckAbuse
<1> QED BY <1>1, <1>2, <1>3, <1>4, <1>5, <1>6, <1>7 DEF Step

\* A purchase makes one row.
LEMMA PurchasedRows ==
    ASSUME TypeOK, NEW t \in Tickets, Purchase(t), NEW u \in Tickets
    PROVE  RowStep(u)
<1>1. ASSUME NEW k \in ShortTerm, NEW free \in BOOLEAN, NEW fare \in BOOLEAN,
             CreateShortTerm(t, k, free, fare)
      PROVE  RowStep(u)
  <2> DEFINE row == [AbsentRow EXCEPT !.status = "pending_payment", !.kind = k,
                        !.free = free, !.fare = fare, !.validity = "running"]
  <2>1. /\ row.status = "pending_payment" /\ row.kind # "pass"
        /\ row.countdown = "none" /\ row.uses = 0
    BY DEF AbsentRow, ShortTerm
  <2>2. tickets[t].status = "absent" /\ tickets' = [tickets EXCEPT ![t] = row]
    BY <1>1 DEF CreateShortTerm
  <2> HIDE DEF row
  <2>3. tickets'[u] = IF u = t THEN row ELSE tickets[u]
    BY <2>2 DEF TypeOK
  <2> QED BY <2>1, <2>2, <2>3 DEF RowStep
<1>2. ASSUME NEW free \in BOOLEAN, CreateLongTerm(t, free)
      PROVE  RowStep(u)
  <2> DEFINE row == [AbsentRow EXCEPT !.status = IF free THEN "inactive" ELSE "pending_payment",
                            !.kind = "pass", !.free = free]
  <2>1. /\ row.status = (IF free THEN "inactive" ELSE "pending_payment") /\ row.free = free
        /\ row.countdown = "none" /\ row.uses = 0 /\ row.validity = "none"
    BY DEF AbsentRow
  <2>2. tickets[t].status = "absent" /\ tickets' = [tickets EXCEPT ![t] = row]
    BY <1>2 DEF CreateLongTerm
  <2> HIDE DEF row
  <2>3. tickets'[u] = IF u = t THEN row ELSE tickets[u]
    BY <2>2 DEF TypeOK
  <2> QED BY <2>1, <2>2, <2>3 DEF RowStep
<1> QED BY <1>1, <1>2 DEF Purchase

\* Whatever a step does, it does one of a few things to a row.
LEMMA RowSteps ==
    ASSUME TypeOK, [Next]_vars, NEW u \in Tickets
    PROVE  RowStep(u)
<1>0. tickets[u] \in Row
  BY DEF TypeOK
<1>1. CASE UNCHANGED tickets
  BY <1>1 DEF RowStep
<1>2. ASSUME NEW t \in Tickets, Purchase(t)
      PROVE  RowStep(u)
  BY <1>2, PurchasedRows
<1>3. ASSUME NEW t \in Tickets, Request(t)
      PROVE  RowStep(u)
  <2>1. CASE DeleteTicket(t)
    BY <2>1 DEF DeleteTicket, TypeOK, RowStep
  <2> QED BY <1>1, <1>3, <2>1 DEF Request, CancelTicket, UpdateTicketStatus, ActivateTicket,
             UseTicket, UseTicketByQRCode
<1>4. ASSUME NEW j \in jobs, Step(j)
      PROVE  RowStep(u)
  BY <1>4, HandlerRows DEF RowStep
<1>5. ASSUME NEW t \in Tickets, CronActivate(t)
      PROVE  RowStep(u)
  <2> DEFINE new == [tickets[t] EXCEPT !.status = "active", !.validity = "running"]
  <2>1. t \in cronDue /\ (UNCHANGED tickets \/ Store(t, new))
    BY <1>5 DEF CronActivate
  <2>2. new = [tickets[t] EXCEPT !.status = "active", !.validity = "running"]
    OBVIOUS
  <2> HIDE DEF new
  <2>3. tickets'[u] = tickets[u] \/ (u = t /\ HasRow(t) /\ tickets'[u] = new)
    BY <2>1, StoredRow
  <2> QED BY <2>1, <2>2, <2>3 DEF RowStep
<1>6. ASSUME NEW t \in Tickets, ValidityEnds(t) \/ CountdownEnds(t)
      PROVE  RowStep(u)
  <2>1. CASE u = t /\ ValidityEnds(t)
    <3>1. HasRow(u) /\ tickets[u].validity = "running"
          /\ tickets'[u] = [tickets[u] EXCEPT !.validity = "over"]
      BY <2>1 DEF ValidityEnds, TypeOK
    <3> QED BY <1>0, <3>1 DEF RowStep, SameTicket, Row
  <2>2. CASE u = t /\ CountdownEnds(t)
    <3>1. HasRow(u) /\ tickets[u].countdown = "running"
          /\ tickets'[u] = [tickets[u] EXCEPT !.countdown = "due"]
      BY <2>2 DEF CountdownEnds, TypeOK
    <3> QED BY <1>0, <3>1 DEF RowStep, SameTicket, Row
  <2>3. CASE u # t
    BY <1>6, <2>3 DEF ValidityEnds, CountdownEnds, TypeOK, RowStep
  <2> QED BY <1>6, <2>1, <2>2, <2>3
<1>7. CASE ExpireWrite
  BY <1>7 DEF ExpireWrite, TypeOK, RowStep
<1>8. [Next]_vars =>
         \/ UNCHANGED tickets
         \/ \E t \in Tickets : \/ Purchase(t) \/ Request(t) \/ CronActivate(t)
                               \/ ValidityEnds(t) \/ CountdownEnds(t)
         \/ \E j \in jobs : Step(j)
         \/ ExpireWrite
  BY DEF Next, Arrive, Proceed, vars, Deliver, HandleCompleted, HandleNotPaid, CronScan,
         ExpireScan, WriteFails, PublishOutcome, Crash
<1> QED BY <1>1, <1>2, <1>3, <1>4, <1>5, <1>6, <1>7, <1>8

\* A row is never taken back to before its purchase.
LEMMA SoldStaysSold ==
    ASSUME TypeOK, [Next]_vars, NEW t \in Tickets, tickets'[t].status = "absent"
    PROVE  tickets'[t] = tickets[t]
<1>1. tickets[t] \in Row
  BY DEF TypeOK
<1>2. ASSUME NEW j \in jobs, WrittenBy(j, t)
      PROVE  FALSE
  BY <1>2, JobParts DEF WrittenBy, NewStatus, HasRow, NoRow, RowStatuses, ValidStatuses
<1> QED BY <1>1, <1>2, RowSteps DEF RowStep, HasRow, NoRow, Row

-----------------------------------------------------------------------------
(* What a step does to the handlers, the topics and the batches.           *)

\* What becomes of the handlers when j takes a step.
LEMMA HandlerJobs ==
    ASSUME TypeOK, NEW j \in jobs, Step(j)
    PROVE  j \notin jobs' /\ \A k \in jobs' : k \in jobs \/ WentOn(j, k)
<1> DEFINE row == tickets[j.ticket]
<1>0. j \in Job /\ j.ticket \in Tickets /\ j.mem \in Row /\ row \in Row /\ j.mem.uses \in Nat
  BY JobParts DEF TypeOK
<1>a. \A next : Continue(j, next) /\ next.pc # j.pc /\ WentOn(j, next)
        => j \notin jobs' /\ \A k \in jobs' : k \in jobs \/ WentOn(j, k)
  BY DEF Continue
<1>b. Finish(j) \/ jobs' = jobs \ {j}
        => j \notin jobs' /\ \A k \in jobs' : k \in jobs \/ WentOn(j, k)
  BY DEF Finish
<1>1. CASE WriteCompletion(j)
  <2> DEFINE next == [j EXCEPT !.pc = "stamp"]
  <2>1. CASE j.msg # "none" /\ HasRow(j.ticket)
    <3>1. /\ next.pc = "stamp" /\ next.proc = j.proc /\ next.op = j.op
          /\ next.ticket = j.ticket /\ next.to = j.to /\ next.msg = j.msg
          /\ next.mem = j.mem
      BY <1>0 DEF Job
    <3>2. Completing(j) /\ Continue(j, next)
      BY <1>1, <2>1 DEF WriteCompletion, Completing
    <3>3. tickets'[j.ticket].status = NewStatus(j, j.to)
      BY <1>0, <1>1, <2>1 DEF WriteCompletion, Store, TypeOK, Row
    <3> HIDE DEF next
    <3>4. WentOn(j, next)
      BY <2>1, <3>1, <3>2, <3>3 DEF WentOn
    <3> QED BY <1>a, <3>1, <3>2, <3>4 DEF Completing
  <2> QED BY <1>1, <1>b, <2>1 DEF WriteCompletion
<1>2. CASE \/ StampPurchase(j) \/ WriteCancel(j) \/ WriteStatus(j)
           \/ WriteActivation(j) \/ RelockAbuse(j)
  BY <1>2, <1>b DEF StampPurchase, WriteCancel, WriteStatus, WriteActivation, RelockAbuse
<1>3. CASE ReadForUse(j)
  <2> DEFINE next == [j EXCEPT !.pc = "write", !.mem = row]
  <2>1. CASE HasRow(j.ticket) /\ Admits(row)
    <3>1. /\ next.pc = "write" /\ next.proc = j.proc /\ next.op = j.op
          /\ next.ticket = j.ticket /\ next.to = j.to /\ next.msg = j.msg
          /\ next.mem = row
      BY <1>0 DEF Job
    <3>2. j.op \in UseOps /\ j.pc = "read" /\ UNCHANGED tickets /\ Continue(j, next)
      BY <1>3, <2>1 DEF ReadForUse
    <3> HIDE DEF next
    <3>3. WentOn(j, next)
      BY <2>1, <3>1, <3>2 DEF WentOn
    <3> QED BY <1>a, <3>1, <3>2, <3>3
  <2> QED BY <1>3, <1>b, <2>1 DEF ReadForUse
<1>4. CASE WriteUse(j)
  <2> DEFINE last == LastUse(j.mem)
             next == [j EXCEPT !.pc = "track", !.mem.uses = @ + 1,
                               !.mem.status = IF last THEN "used" ELSE @]
  <2>1. /\ next.pc = "track" /\ next.proc = j.proc /\ next.op = j.op
        /\ next.ticket = j.ticket /\ next.to = j.to /\ next.msg = j.msg
    BY <1>0 DEF Job
  <2>2. /\ next.mem.kind = j.mem.kind /\ next.mem.uses = j.mem.uses + 1
        /\ next.mem.status = IF last THEN "used" ELSE j.mem.status
    BY <1>0 DEF Job, Row
  <2>3. j.op \in UseOps /\ j.pc = "write" /\ Continue(j, next) /\ Granted(j.ticket)
    BY <1>4 DEF WriteUse, Granted
  <2> HIDE DEF next
  <2>4. WentOn(j, next)
    BY <2>1, <2>2, <2>3 DEF WentOn
  <2> QED BY <1>a, <2>1, <2>3, <2>4
<1>5. CASE TrackAbuse(j)
  <2> DEFINE next == [j EXCEPT !.pc = "recheck"]
  <2>1. /\ next.pc = "recheck" /\ next.proc = j.proc /\ next.op = j.op
        /\ next.ticket = j.ticket /\ next.to = j.to /\ next.msg = j.msg
        /\ next.mem = j.mem
    BY <1>0 DEF Job
  <2>2. j.op \in UseOps /\ j.pc = "track" /\ (Continue(j, next) \/ jobs' = jobs \ {j})
    BY <1>5 DEF TrackAbuse
  <2> HIDE DEF next
  <2>3. WentOn(j, next)
    BY <2>1, <2>2 DEF WentOn
  <2> QED BY <1>a, <1>b, <2>1, <2>2, <2>3
<1>6. CASE RecheckAbuse(j)
  <2> DEFINE next == [j EXCEPT !.pc = "relock", !.mem = row]
  <2>1. CASE HasRow(j.ticket) /\ Suspicious(row) /\ Continue(j, next)
    <3>1. /\ next.pc = "relock" /\ next.proc = j.proc /\ next.op = j.op
          /\ next.ticket = j.ticket /\ next.to = j.to /\ next.msg = j.msg
          /\ next.mem = row
      BY <1>0 DEF Job
    <3>2. j.pc = "recheck" /\ UNCHANGED tickets
      BY <1>6 DEF RecheckAbuse
    <3> HIDE DEF next
    <3>3. WentOn(j, next)
      BY <2>1, <3>1, <3>2 DEF WentOn
    <3> QED BY <1>a, <2>1, <3>1, <3>2, <3>3
  <2> QED BY <1>6, <1>b, <2>1 DEF RecheckAbuse
<1> QED BY <1>1, <1>2, <1>3, <1>4, <1>5, <1>6 DEF Step

\* A route, or a message, that starts a handler.
LEMMA StartedJobs ==
    ASSUME NEW P, NEW op, NEW pc, NEW t, NEW row, NEW s, NEW m, Start(P, op, pc, t, row, s, m)
    PROVE  \A j \in jobs' : \/ j \in jobs
                            \/ /\ j.proc \in P /\ j.op = op /\ j.pc = pc /\ j.ticket = t
                               /\ j.mem = row /\ j.to = s /\ j.msg = m
BY DEF Start

\* A route starts a handler with a row it has checked.
LEMMA RequestedJobs ==
    ASSUME TypeOK, NEW t \in Tickets, Request(t)
    PROVE  \A j \in jobs' : j \in jobs \/ Began(j)
<1>1. CASE CancelTicket(t)
  <2>1. /\ HasRow(t) /\ tickets[t].status \notin {"used", "cancelled"} /\ UNCHANGED tickets
        /\ Start(Procs, "cancelTicket", "write", t, tickets[t], "cancelled", "none")
    BY <1>1 DEF CancelTicket, Serve
  <2> QED BY <2>1, StartedJobs DEF Began, HasRow
<1>2. ASSUME NEW s \in Operator, UpdateTicketStatus(t, s)
      PROVE  \A j \in jobs' : j \in jobs \/ Began(j)
  <2>1. /\ s \in ValidTransitions(tickets[t].status) /\ UNCHANGED tickets
        /\ Start(Procs, "updateTicketStatus", "write", t, tickets[t], s, "none")
    BY <1>2 DEF UpdateTicketStatus, Serve
  <2>2. HasRow(t)
    BY <2>1 DEF HasRow, NoRow, ValidTransitions
  <2> QED BY <2>1, <2>2, StartedJobs DEF Began, HasRow
<1>3. CASE ActivateTicket(t)
  <2>1. /\ tickets[t].status = "inactive" /\ tickets[t].kind = "pass" /\ UNCHANGED tickets
        /\ Start(Procs, "activateTicket", "write", t, tickets[t], "active", "none")
    BY <1>3 DEF ActivateTicket, Serve
  <2> QED BY <2>1, StartedJobs DEF Began, HasRow, NoRow
<1>4. CASE UseTicket(t) \/ UseTicketByQRCode(t)
  <2>1. PICK op \in UseOps :
          /\ HasRow(t) /\ tickets[t].status \notin {"used", "cancelled", "expired"}
          /\ UNCHANGED tickets
          /\ Start(Procs, op, "read", t, tickets[t], "used", "none")
    BY <1>4 DEF UseTicket, UseTicketByQRCode, Serve, UseOps
  <2> QED BY <2>1, StartedJobs DEF Began, HasRow
<1> QED BY <1>1, <1>2, <1>3, <1>4 DEF Request, DeleteTicket

\* So does a message,
LEMMA DeliveredJobs ==
    ASSUME TypeOK, NEW outcome \in Outcomes, Deliver(outcome)
    PROVE  \A j \in jobs' : j \in jobs \/ Began(j)
<1>1. ASSUME NEW t \in Tickets, HandleCompleted(t)
      PROVE  \A j \in jobs' : j \in jobs \/ Began(j)
  <2>1. CASE tickets[t].status = "pending_payment"
    <3>1. /\ HasRow(t) /\ UNCHANGED tickets /\ Delivers("completed", t)
          /\ Start({Consumer}, "processPaymentCompletion", "write", t, tickets[t],
                   StatusAfterPayment(tickets[t]), "completed")
      BY <1>1, <2>1 DEF HandleCompleted, Consume
    <3> QED BY <2>1, <3>1, StartedJobs DEF Began, Completing, HasRow
  <2> QED BY <1>1, <2>1 DEF HandleCompleted
<1>2. ASSUME NEW t \in Tickets, outcome # "completed", HandleNotPaid(t, outcome)
      PROVE  \A j \in jobs' : j \in jobs \/ Began(j)
  <2>1. CASE "cancelled" \in ValidTransitions(tickets[t].status)
    <3>1. /\ UNCHANGED tickets
          /\ Start({Consumer}, "updateTicketStatus", "write", t, tickets[t], "cancelled", outcome)
      BY <1>2, <2>1 DEF HandleNotPaid, Consume
    <3>2. HasRow(t)
      BY <2>1 DEF HasRow, NoRow, ValidTransitions
    <3>3. outcome # "none"
      BY DEF Outcomes
    <3> QED BY <1>2, <2>1, <3>1, <3>2, <3>3, StartedJobs DEF Began, HasRow
  <2> QED BY <1>2, <2>1 DEF HandleNotPaid
<1> QED BY <1>1, <1>2 DEF Deliver

\* and the purchase of a free short-term ticket.
LEMMA PurchasedJobs ==
    ASSUME TypeOK, NEW t \in Tickets, Purchase(t)
    PROVE  \A j \in jobs' : j \in jobs \/ Began(j)
<1>1. ASSUME NEW k \in ShortTerm, NEW free \in BOOLEAN, NEW fare \in BOOLEAN,
             CreateShortTerm(t, k, free, fare)
      PROVE  \A j \in jobs' : j \in jobs \/ Began(j)
  <2> DEFINE row == [AbsentRow EXCEPT !.status = "pending_payment", !.kind = k,
                        !.free = free, !.fare = fare, !.validity = "running"]
  <2>1. row.status = "pending_payment" /\ row.free = free
    BY DEF AbsentRow
  <2>2. tickets[t].status = "absent" /\ tickets' = [tickets EXCEPT ![t] = row]
    BY <1>1 DEF CreateShortTerm
  <2>3. \/ UNCHANGED jobs
        \/ free /\ Start(Procs, "processPaymentCompletion", "write", t, row,
                         StatusAfterPayment(row), "none")
    BY <1>1 DEF CreateShortTerm
  <2> HIDE DEF row
  <2>4. tickets'[t] = row
    BY <2>2 DEF TypeOK
  <2> QED BY <2>1, <2>2, <2>3, <2>4, StartedJobs DEF Began, Completing, HasRow, NoRow
<1>2. ASSUME NEW free \in BOOLEAN, CreateLongTerm(t, free)
      PROVE  \A j \in jobs' : j \in jobs \/ Began(j)
  BY <1>2 DEF CreateLongTerm
<1> QED BY <1>1, <1>2 DEF Purchase

\* Every handler in flight was in flight before, has just begun, or went on.
LEMMA JobSteps ==
    ASSUME TypeOK, [Next]_vars, NEW j \in jobs'
    PROVE  j \in jobs \/ Began(j) \/ \E i \in jobs : WentOn(i, j)
<1>1. CASE jobs' \subseteq jobs
  BY <1>1
<1>2. ASSUME NEW i \in jobs, Step(i)
      PROVE  j \in jobs \/ \E k \in jobs : WentOn(k, j)
  BY <1>2, HandlerJobs
<1>3. [Next]_vars =>
         \/ jobs' \subseteq jobs
         \/ \E t \in Tickets : Purchase(t) \/ Request(t)
         \/ \E outcome \in Outcomes : Deliver(outcome)
         \/ \E i \in jobs : Step(i)
  BY DEF Next, Arrive, Proceed, vars, CronScan, ExpireScan, CronActivate, ValidityEnds,
         CountdownEnds, ExpireWrite, WriteFails, PublishOutcome, Crash, Finish
<1> QED BY <1>1, <1>2, <1>3, PurchasedJobs, RequestedJobs, DeliveredJobs

\* A message of ticket t waits in a topic.
Queued(outcome, t) == \E i \in 1..Len(topics[outcome]) : topics[outcome][i] = t

\* What waits after a message was committed waited before.
LEMMA CommitQueued ==
    ASSUME TypeOK, NEW m \in Outcomes, topics[m] # <<>>, Commit(m),
           NEW outcome \in Outcomes, NEW t, Queued(outcome, t)'
    PROVE  Queued(outcome, t)
<1>1. topics[outcome] \in Seq(Tickets) /\ topics[m] \in Seq(Tickets)
  BY DEF TypeOK
<1>2. topics'[outcome] = IF outcome = m THEN Tail(topics[m]) ELSE topics[outcome]
  BY DEF Commit, TypeOK
<1>3. CASE outcome = m
  <2>1. PICK i \in 1..Len(Tail(topics[m])) : Tail(topics[m])[i] = t
    BY <1>2, <1>3 DEF Queued
  <2>2. /\ Len(Tail(topics[m])) = Len(topics[m]) - 1
        /\ Tail(topics[m])[i] = topics[m][i + 1]
    BY <1>1, <2>1
  <2>3. i + 1 \in 1..Len(topics[m])
    BY <1>1, <2>1, <2>2
  <2> QED BY <1>3, <2>1, <2>2, <2>3 DEF Queued
<1>4. CASE outcome # m
  BY <1>2, <1>4 DEF Queued
<1> QED BY <1>3, <1>4

\* The message the consumer is given waits in its topic.
LEMMA HeadQueued ==
    ASSUME TypeOK, NEW outcome \in Outcomes, NEW t, Delivers(outcome, t)
    PROVE  Queued(outcome, t)
<1>1. topics[outcome] \in Seq(Tickets)
  BY DEF TypeOK
<1>2. Len(topics[outcome]) \in Nat /\ Len(topics[outcome]) >= 1 /\ topics[outcome][1] = t
  BY <1>1 DEF Delivers
<1> QED BY <1>2 DEF Queued

\* A step that takes a message off a topic takes the one the consumer was given.
LEMMA TopicMoves ==
    ASSUME IInv, [Next]_vars
    PROVE  \/ UNCHANGED topics
           \/ \E t \in Tickets, outcome \in Outcomes : PublishOutcome(t, outcome)
           \/ \E m \in Outcomes : topics[m] # <<>> /\ Commit(m)
<1>1. ASSUME NEW j \in jobs, Finish(j)
      PROVE  UNCHANGED topics \/ \E m \in Outcomes : topics[m] # <<>> /\ Commit(m)
  <2>1. j.msg \in Outcomes \cup {"none"}
    BY DEF IInv, TypeOK, Job
  <2>2. j.msg # "none" => topics[j.msg] # <<>>
    BY DEF IInv, MessageHeld, Delivers
  <2> QED BY <1>1, <2>1, <2>2 DEF Finish
<1>2. ASSUME NEW j \in jobs, Step(j) \/ WriteFails(j)
      PROVE  UNCHANGED topics \/ Finish(j)
  BY <1>2 DEF Step, WriteFails, WriteCompletion, StampPurchase, WriteCancel, WriteStatus,
     WriteActivation, ReadForUse, WriteUse, TrackAbuse, RecheckAbuse, RelockAbuse
<1>3. ASSUME NEW outcome \in Outcomes, Deliver(outcome)
      PROVE  UNCHANGED topics \/ \E m \in Outcomes : topics[m] # <<>> /\ Commit(m)
  BY <1>3 DEF Deliver, HandleCompleted, HandleNotPaid, Delivers
<1>4. [Next]_vars =>
         \/ UNCHANGED topics
         \/ \E t \in Tickets, outcome \in Outcomes : PublishOutcome(t, outcome)
         \/ \E outcome \in Outcomes : Deliver(outcome)
         \/ \E j \in jobs : Step(j) \/ WriteFails(j)
  BY DEF Next, Arrive, Proceed, vars, Purchase, CreateShortTerm, CreateLongTerm, Request,
     CancelTicket, UpdateTicketStatus, ActivateTicket, UseTicket, UseTicketByQRCode,
     DeleteTicket, CronScan, ExpireScan, CronActivate, ValidityEnds, CountdownEnds,
     ExpireWrite, Crash
<1> QED BY <1>1, <1>2, <1>3, <1>4

\* A message is of a ticket that was sold, for a price.
LEMMA TopicSteps ==
    ASSUME IInv, [Next]_vars, NEW outcome \in Outcomes, NEW t, Queued(outcome, t)'
    PROVE  \/ Queued(outcome, t)
           \/ /\ t \in Tickets /\ tickets[t].status # "absent" /\ ~tickets[t].free
              /\ UNCHANGED tickets
              /\ outcome = "completed" => t \in settled'
<1>1. CASE UNCHANGED topics
  BY <1>1 DEF Queued
<1>2. ASSUME NEW u \in Tickets, NEW m \in Outcomes, PublishOutcome(u, m)
      PROVE  \/ Queued(outcome, t)
             \/ /\ t \in Tickets /\ tickets[t].status # "absent" /\ ~tickets[t].free
                /\ UNCHANGED tickets
                /\ outcome = "completed" => t \in settled'
  <2>1. topics[m] \in Seq(Tickets) /\ topics[outcome] \in Seq(Tickets)
    BY DEF IInv, TypeOK
  <2>2. topics'[outcome] = IF outcome = m THEN Append(topics[m], u) ELSE topics[outcome]
    BY <1>2 DEF PublishOutcome, IInv, TypeOK
  <2>3. PICK i \in 1..Len(topics'[outcome]) : topics'[outcome][i] = t
    BY DEF Queued
  <2>4. \/ outcome = m /\ t = u
        \/ i \in 1..Len(topics[outcome]) /\ topics[outcome][i] = t
    BY <2>1, <2>2, <2>3
  <2> QED BY <1>2, <2>4 DEF PublishOutcome, Queued
<1>3. ASSUME NEW m \in Outcomes, topics[m] # <<>>, Commit(m)
      PROVE  Queued(outcome, t)
  BY <1>3, CommitQueued DEF IInv
<1> QED BY <1>1, <1>2, <1>3, TopicMoves

\* Nothing takes back that a payment was completed.
LEMMA SettledGrows ==
    ASSUME [Next]_vars
    PROVE  settled \subseteq settled'
<1>1. ASSUME NEW t \in Tickets, Purchase(t) \/ Request(t)
      PROVE  UNCHANGED settled
  BY <1>1 DEF Purchase, CreateShortTerm, CreateLongTerm, Request, CancelTicket,
     UpdateTicketStatus, ActivateTicket, UseTicket, UseTicketByQRCode, DeleteTicket
<1>2. ASSUME NEW j \in jobs, Step(j) \/ WriteFails(j)
      PROVE  UNCHANGED settled
  BY <1>2 DEF Step, WriteFails, WriteCompletion, StampPurchase, WriteCancel, WriteStatus,
     WriteActivation, ReadForUse, WriteUse, TrackAbuse, RecheckAbuse, RelockAbuse
<1>3. ASSUME NEW outcome \in Outcomes, Deliver(outcome)
      PROVE  UNCHANGED settled
  BY <1>3 DEF Deliver, HandleCompleted, HandleNotPaid
<1>4. ASSUME NEW t \in Tickets, NEW outcome \in Outcomes, PublishOutcome(t, outcome)
      PROVE  settled \subseteq settled'
  BY <1>4 DEF PublishOutcome
<1> QED BY <1>1, <1>2, <1>3, <1>4 DEF Next, Arrive, Proceed, vars, CronScan, ExpireScan,
     CronActivate, ValidityEnds, CountdownEnds, ExpireWrite, Crash

\* The two queries of the batches.
LEMMA BatchSteps ==
    ASSUME [Next]_vars, NEW t \in Tickets
    PROVE  /\ t \in cronDue' => \/ t \in cronDue
                                \/ tickets[t].status = "inactive" /\ tickets[t].kind = "pass"
           /\ t \in expiring' => \/ t \in expiring
                                 \/ tickets[t].status = "active"
<1>1. ASSUME NEW u \in Tickets, Purchase(u) \/ Request(u)
      PROVE  UNCHANGED <<cronDue, expiring>>
  BY <1>1 DEF Purchase, CreateShortTerm, CreateLongTerm, Request, CancelTicket,
     UpdateTicketStatus, ActivateTicket, UseTicket, UseTicketByQRCode, DeleteTicket
<1>2. ASSUME NEW j \in jobs, Step(j) \/ WriteFails(j)
      PROVE  UNCHANGED <<cronDue, expiring>>
  BY <1>2 DEF Step, WriteFails, WriteCompletion, StampPurchase, WriteCancel, WriteStatus,
     WriteActivation, ReadForUse, WriteUse, TrackAbuse, RecheckAbuse, RelockAbuse
<1>3. ASSUME NEW outcome \in Outcomes, Deliver(outcome)
      PROVE  UNCHANGED <<cronDue, expiring>>
  BY <1>3 DEF Deliver, HandleCompleted, HandleNotPaid
<1>4. CASE CronScan
  BY <1>4 DEF CronScan
<1>5. CASE ExpireScan
  BY <1>5 DEF ExpireScan
<1>6. ASSUME ~CronScan, ~ExpireScan
      PROVE  cronDue' \subseteq cronDue /\ expiring' \subseteq expiring
  <2>1. CASE UNCHANGED <<cronDue, expiring>>
    BY <2>1
  <2>2. ASSUME NEW u \in Tickets, CronActivate(u)
        PROVE  cronDue' \subseteq cronDue /\ expiring' \subseteq expiring
    BY <2>2 DEF CronActivate
  <2>3. CASE ExpireWrite
    BY <2>3 DEF ExpireWrite
  <2>4. CASE Crash
    BY <2>4 DEF Crash
  <2> QED BY <1>1, <1>2, <1>3, <1>6, <2>1, <2>2, <2>3, <2>4 DEF Next, Arrive, Proceed, vars,
     ValidityEnds, CountdownEnds, PublishOutcome
<1> QED BY <1>4, <1>5, <1>6

\* Handlers begin one at a time.
LEMMA OneNewHandler ==
    ASSUME [Next]_vars, NEW i \in jobs', NEW j \in jobs', i # j
    PROVE  i \in jobs \/ j \in jobs
<1>0. \A P, op, pc, t, row, s, m : Start(P, op, pc, t, row, s, m)
         => i \in jobs \/ j \in jobs
  BY DEF Start
<1>1. ASSUME NEW t \in Tickets, Purchase(t) \/ Request(t)
      PROVE  i \in jobs \/ j \in jobs
  BY <1>0, <1>1 DEF Purchase, CreateShortTerm, CreateLongTerm, Request, CancelTicket,
     UpdateTicketStatus, ActivateTicket, UseTicket, UseTicketByQRCode, DeleteTicket,
     Serve
<1>2. ASSUME NEW k \in jobs, Step(k) \/ WriteFails(k)
      PROVE  i \in jobs \/ j \in jobs
  BY <1>2 DEF Step, WriteFails, WriteCompletion, StampPurchase, WriteCancel, WriteStatus,
     WriteActivation, ReadForUse, WriteUse, TrackAbuse, RecheckAbuse, RelockAbuse,
     Continue, Finish
<1>3. ASSUME NEW outcome \in Outcomes, Deliver(outcome)
      PROVE  i \in jobs \/ j \in jobs
  BY <1>0, <1>3 DEF Deliver, HandleCompleted, HandleNotPaid, Consume
<1> QED BY <1>1, <1>2, <1>3 DEF Next, Arrive, Proceed, vars, CronScan, ExpireScan,
     CronActivate, ValidityEnds, CountdownEnds, ExpireWrite, Crash, PublishOutcome

-----------------------------------------------------------------------------
(* The ledger of uses.                                                     *)

\* A handler writes usedList from its copy, so the copies have to be covered too.
CopiesCovered == \A j \in jobs : j.mem.uses <= spent[j.ticket]

\* Uses are granted for tickets that were sold.
SoldOnly ==
    /\ \A t \in Tickets : tickets[t].status = "absent" => spent[t] = 0
    /\ \A j \in jobs : tickets[j.ticket].status # "absent"

LedgerInv == LedgerBounded /\ CopiesCovered /\ SoldOnly

\* No use that was granted is taken back.
LEMMA SpentGrows ==
    ASSUME TypeOK, [Next]_vars, NEW t \in Tickets
    PROVE  spent[t] <= spent'[t]
<1>0. spent \in [Tickets -> Nat] /\ \A j \in jobs : j.ticket \in Tickets
  BY DEF TypeOK, Job
<1>1. ASSUME NEW j \in jobs, Step(j)
      PROVE  UNCHANGED spent \/ Granted(j.ticket)
  BY <1>1 DEF Step, WriteCompletion, StampPurchase, WriteCancel, WriteStatus, Granted,
     WriteActivation, ReadForUse, WriteUse, TrackAbuse, RecheckAbuse, RelockAbuse
<1>2. ASSUME NEW u \in Tickets, Purchase(u) \/ Request(u)
      PROVE  UNCHANGED spent
  BY <1>2 DEF Purchase, CreateShortTerm, CreateLongTerm, Request, CancelTicket,
     UpdateTicketStatus, ActivateTicket, UseTicket, UseTicketByQRCode, DeleteTicket
<1>3. ASSUME NEW outcome \in Outcomes, Deliver(outcome)
      PROVE  UNCHANGED spent
  BY <1>3 DEF Deliver, HandleCompleted, HandleNotPaid
<1>4. UNCHANGED spent \/ \E j \in jobs : Step(j)
  BY <1>2, <1>3 DEF Next, Arrive, Proceed, vars, CronScan, ExpireScan, CronActivate,
     ValidityEnds, CountdownEnds, ExpireWrite, Crash, PublishOutcome, WriteFails
<1> QED BY <1>0, <1>1, <1>4 DEF Granted

\* A use is granted by a handler of that ticket, which writes an entry if there is a row.
LEMMA GrantWrites ==
    ASSUME TypeOK, [Next]_vars, NEW t \in Tickets, spent'[t] # spent[t]
    PROVE  \E j \in jobs : /\ j.ticket = t
                           /\ HasRow(t) => tickets'[t].uses = j.mem.uses + 1
<1>0. spent \in [Tickets -> Nat] /\ tickets[t] \in Row
  BY DEF TypeOK
<1>1. PICK j \in jobs : WriteUse(j) \/ (WriteStatus(j) /\ j.to = "used")
  <2>1. ASSUME NEW u \in Tickets, Purchase(u) \/ Request(u)
        PROVE  UNCHANGED spent
    BY <2>1 DEF Purchase, CreateShortTerm, CreateLongTerm, Request, CancelTicket,
       UpdateTicketStatus, ActivateTicket, UseTicket, UseTicketByQRCode, DeleteTicket
  <2>2. ASSUME NEW outcome \in Outcomes, Deliver(outcome)
        PROVE  UNCHANGED spent
    BY <2>2 DEF Deliver, HandleCompleted, HandleNotPaid
  <2>3. UNCHANGED spent \/ \E j \in jobs : Step(j)
    BY <2>1, <2>2 DEF Next, Arrive, Proceed, vars, CronScan, ExpireScan, CronActivate,
       ValidityEnds, CountdownEnds, ExpireWrite, Crash, PublishOutcome, WriteFails
  <2>4. ASSUME NEW j \in jobs, Step(j)
        PROVE  UNCHANGED spent \/ WriteUse(j) \/ (WriteStatus(j) /\ j.to = "used")
    BY <2>4 DEF Step, WriteCompletion, StampPurchase, WriteCancel, WriteStatus,
       WriteActivation, ReadForUse, TrackAbuse, RecheckAbuse, RelockAbuse
  <2> QED BY <2>3, <2>4
<1>2. j.ticket \in Tickets /\ tickets[j.ticket] \in Row
  BY JobParts
<1>3. j.ticket = t
  BY <1>0, <1>1, <1>2 DEF WriteUse, WriteStatus
<1>4. HasRow(t) => tickets'[t].uses = j.mem.uses + 1
  <2>1. CASE WriteUse(j)
    <3> DEFINE row == [tickets[t] EXCEPT !.uses = j.mem.uses + 1,
                         !.status = IF LastUse(j.mem) THEN NewStatus(j, "used")
                                    ELSE tickets[t].status]
    <3>1. Store(t, row) /\ row.uses = j.mem.uses + 1
      BY <1>0, <1>3, <2>1 DEF WriteUse, Row
    <3> HIDE DEF row
    <3> QED BY <3>1, StoredRow
  <2>2. CASE WriteStatus(j) /\ j.to = "used"
    <3> DEFINE starts == j.to = "active" /\ j.mem.status = "inactive"
                                         /\ j.mem.validity = "none"
               row == [tickets[t] EXCEPT
                         !.status = NewStatus(j, j.to),
                         !.uses = IF j.to = "used" THEN j.mem.uses + 1 ELSE tickets[t].uses,
                         !.isActive = IF j.to = "cancelled" THEN FALSE ELSE tickets[t].isActive,
                         !.validity = IF starts THEN "running" ELSE tickets[t].validity,
                         !.countdown = IF starts THEN "due" ELSE tickets[t].countdown]
    <3>1. Store(t, row)
      BY <1>3, <2>2 DEF WriteStatus
    <3>2. row.uses = j.mem.uses + 1
      BY <1>0, <2>2 DEF Row
    <3> HIDE DEF row
    <3> QED BY <3>1, <3>2, StoredRow
  <2> QED BY <1>1, <2>1, <2>2
<1> QED BY <1>3, <1>4

\* What is counted is of a ticket that was sold, and leaves an entry while there is a row.
LEMMA EntriesStay ==
    ASSUME TypeOK, TypeOK', LedgerInv, [Next]_vars
    PROVE  /\ SoldOnly'
           /\ \A t \in Tickets : HasRow(t)' /\ spent'[t] > 0 => tickets'[t].uses > 0
<1>0. /\ \A t \in Tickets : tickets[t] \in Row /\ tickets[t].uses \in Nat /\ spent[t] \in Nat
      /\ \A j \in jobs : j.ticket \in Tickets /\ j.mem.uses \in Nat
  BY JobParts DEF TypeOK, Row
<1>1. SoldOnly'
  <2>1. ASSUME NEW t \in Tickets, tickets'[t].status = "absent"
        PROVE  spent'[t] = 0
    BY <2>1, SoldStaysSold, GrantWrites DEF LedgerInv, SoldOnly
  <2>2. ASSUME NEW j \in jobs'
        PROVE  tickets'[j.ticket].status # "absent"
    <3>0. j.ticket \in Tickets
      BY JobParts DEF TypeOK, Job
    <3>1. CASE tickets[j.ticket].status # "absent"
      BY <3>0, <3>1, SoldStaysSold
    <3>2. CASE Began(j)
      BY <3>2 DEF Began, HasRow, NoRow
    <3>3. ASSUME NEW i \in jobs, WentOn(i, j)
          PROVE  tickets[j.ticket].status # "absent"
      BY <3>3 DEF WentOn, LedgerInv, SoldOnly
    <3> QED BY <3>1, <3>2, <3>3, JobSteps DEF LedgerInv, SoldOnly
  <2> QED BY <2>1, <2>2 DEF SoldOnly
<1>2. ASSUME NEW t \in Tickets, HasRow(t)', spent'[t] > 0
      PROVE  tickets'[t].uses > 0
  <2>1. CASE HasRow(t) /\ spent'[t] # spent[t]
    BY <1>0, <2>1, GrantWrites
  <2>2. CASE HasRow(t) /\ spent'[t] = spent[t]
    <3>1. tickets[t].uses > 0
      BY <1>2, <2>2 DEF LedgerInv, LedgerBounded
    <3>2. ASSUME NEW j \in jobs, WrittenBy(j, t)
          PROVE  tickets'[t].uses \in {tickets[t].uses, j.mem.uses + 1}
      BY <3>2 DEF WrittenBy
    <3>3. ASSUME NEW j \in jobs, WrittenBy(j, t)
          PROVE  tickets'[t].uses > 0
      <4>1. tickets[t].uses \in Nat /\ j.mem.uses \in Nat
        BY <1>0
      <4> QED BY <3>1, <3>2, <3>3, <4>1
    <3>4. \/ tickets'[t].uses = tickets[t].uses
          \/ \E j \in jobs : WrittenBy(j, t)
      BY <1>0, <2>2, RowSteps DEF RowStep, Row, HasRow, NoRow
    <3> QED BY <3>1, <3>3, <3>4
  <2>3. CASE tickets[t].status = "absent"
    BY <1>2, <2>3, <1>0, GrantWrites DEF LedgerInv, SoldOnly
  <2>4. CASE tickets[t].status = "deleted"
    <3>1. tickets'[t] = tickets[t]
      BY <2>4, RowSteps DEF RowStep, WrittenBy, HasRow, NoRow
    <3> QED BY <1>2, <2>4, <3>1 DEF HasRow, NoRow
  <2> QED BY <2>1, <2>2, <2>3, <2>4 DEF HasRow, NoRow
<1> QED BY <1>1, <1>2

\* A step keeps rows and copies covered by the uses granted.
LEMMA LedgerStep ==
    ASSUME TypeOK, TypeOK', LedgerInv, [Next]_vars
    PROVE  LedgerInv'
<1>0. \A t \in Tickets : /\ tickets[t] \in Row /\ tickets[t].uses \in Nat
                         /\ tickets'[t] \in Row /\ tickets'[t].uses \in Nat
                         /\ spent[t] \in Nat /\ spent'[t] \in Nat
                         /\ tickets[t].uses <= spent[t] /\ spent[t] <= spent'[t]
  BY SpentGrows DEF TypeOK, Row, LedgerInv, LedgerBounded
<1>1. \A j \in jobs : /\ j.ticket \in Tickets /\ j.mem.uses \in Nat
                      /\ j.mem.uses <= spent[j.ticket]
  BY JobParts DEF LedgerInv, CopiesCovered
<1>2. \A t \in Tickets : Granted(t) => spent'[t] = spent[t] + 1
  BY DEF Granted, TypeOK
<1>3. ASSUME NEW t \in Tickets
      PROVE  tickets'[t].uses <= spent'[t]
  <2>1. ASSUME NEW j \in jobs, WrittenBy(j, t)
        PROVE  tickets'[t].uses <= spent'[t]
    <3>1. \/ tickets'[t].uses = tickets[t].uses
          \/ tickets'[t].uses = j.mem.uses + 1 /\ Granted(t) /\ j.ticket = t
      BY <2>1 DEF WrittenBy
    <3>2. /\ tickets[t].uses \in Nat /\ spent[t] \in Nat /\ spent'[t] \in Nat
          /\ tickets[t].uses <= spent[t] /\ spent[t] <= spent'[t]
      BY <1>0
    <3>3. j.mem.uses \in Nat /\ (j.ticket = t => j.mem.uses <= spent[t])
      BY <1>1
    <3> QED BY <1>2, <3>1, <3>2, <3>3
  <2>2. \/ tickets'[t].uses \in {tickets[t].uses, 0}
        \/ \E j \in jobs : WrittenBy(j, t)
    <3>1. tickets[t] \in Row
      BY <1>0
    <3> QED BY <3>1, RowSteps DEF RowStep, Row
  <2>3. /\ tickets[t].uses \in Nat /\ spent[t] \in Nat /\ spent'[t] \in Nat
        /\ tickets[t].uses <= spent[t] /\ spent[t] <= spent'[t]
    BY <1>0
  <2> QED BY <2>1, <2>2, <2>3
<1>4. ASSUME NEW j \in jobs'
      PROVE  j.mem.uses <= spent'[j.ticket]
  <2>0. j.ticket \in Tickets /\ j.mem.uses \in Nat
    BY DEF TypeOK, Job, Row
  <2>1. CASE j \in jobs
    BY <1>0, <1>1, <2>0, <2>1
  <2>2. CASE Began(j)
    BY <1>3, <2>0, <2>2 DEF Began
  <2>3. ASSUME NEW i \in jobs, WentOn(i, j)
        PROVE  j.mem.uses <= spent'[j.ticket]
    <3>1. \/ j.mem = i.mem \/ j.mem = tickets[i.ticket]
          \/ j.mem.uses = i.mem.uses + 1 /\ Granted(i.ticket)
      BY <2>3 DEF WentOn
    <3> QED BY <1>0, <1>1, <1>2, <2>0, <2>3, <3>1 DEF WentOn
  <2> QED BY <2>1, <2>2, <2>3, JobSteps
<1>5. /\ SoldOnly'
      /\ \A t \in Tickets : HasRow(t)' /\ spent'[t] > 0 => tickets'[t].uses > 0
  BY EntriesStay
<1> QED BY <1>3, <1>4, <1>5 DEF LedgerInv, LedgerBounded, CopiesCovered

\* No interleaving of scans, operators, batches, failures and crashes leaves an entry
\* in usedList for a use that was not granted, or no entry at all after one that was.
THEOREM LedgerCovered == Spec => []LedgerBounded
<1>1. Init => LedgerInv
  BY DEF Init, LedgerInv, LedgerBounded, CopiesCovered, SoldOnly, AbsentRow
<1>2. TypeOK /\ TypeOK' /\ LedgerInv /\ [Next]_vars => LedgerInv'
  BY LedgerStep
<1>3. LedgerInv => LedgerBounded
  BY DEF LedgerInv
<1> QED
  BY <1>1, <1>2, <1>3, TypeInvariant, PTL DEF Spec

-----------------------------------------------------------------------------
(* Cancellation.                                                           *)

\* Nothing turns to a cancelled ticket that nothing is working on.
LEMMA QuietStep ==
    ASSUME TypeOK, [Next]_vars, NEW t \in Tickets, QuietlyCancelled(t)
    PROVE  QuietlyCancelled(t)' \/ tickets'[t].status = "deleted"
<1>0. /\ tickets[t] \in Row /\ tickets[t].status = "cancelled"
      /\ \A j \in jobs : j.ticket # t
      /\ t \notin cronDue /\ t \notin expiring
  BY DEF QuietlyCancelled, TypeOK
<1>1. tickets'[t].status \in {"cancelled", "deleted"}
  BY <1>0, RowSteps DEF RowStep, WrittenBy, Row
<1>2. ASSUME NEW j \in jobs', j.ticket = t
      PROVE  tickets'[t].status # "cancelled"
  <2>1. Began(j)
    BY <1>0, <1>2, JobSteps DEF WentOn
  <2> QED BY <1>2, <2>1 DEF Began, ValidTransitions
<1>3. t \notin cronDue' \cup expiring'
  BY <1>0, BatchSteps
<1> QED BY <1>1, <1>2, <1>3 DEF QuietlyCancelled

\* Only a handler or a batch that read a ticket before its cancellation can bring it
\* back: without one, cancelled is final.
THEOREM CancelledStays == Spec => CancelledStaysWhenQuiet
<1>1. TypeOK /\ [Next]_vars
      => [\A t \in Tickets : QuietlyCancelled(t)
             => QuietlyCancelled(t)' \/ tickets'[t].status = "deleted"]_vars
  BY QuietStep
<1> QED
  BY <1>1, TypeInvariant, PTL DEF Spec, CancelledStaysWhenQuiet

-----------------------------------------------------------------------------
(* Payment before activation.                                              *)

Paid(t) == tickets[t].free \/ t \in settled
Given == {"active", "inactive", "expired"}

PaidInv ==
    /\ UnpaidNeverActive
    /\ \A t \in Tickets : tickets[t].status = "absent" => ~tickets[t].free
    /\ \A j \in jobs : j.to \in Given => Paid(j.ticket)
    /\ \A j \in jobs : j.op = "activateTicket" => j.to = "active"
    /\ \A t \in cronDue \cup expiring : Paid(t)
    /\ \A t \in Tickets : Queued("completed", t) => t \in settled

\* What was paid stays paid: the price of a ticket is fixed by its purchase.
LEMMA PaidStays ==
    ASSUME TypeOK, PaidInv, [Next]_vars, NEW t \in Tickets, Paid(t)
    PROVE  Paid(t)'
<1>0. tickets[t] \in Row
  BY DEF TypeOK
<1>1. tickets'[t].free = tickets[t].free \/ tickets[t].status = "absent"
  BY <1>0, RowSteps DEF RowStep, SameTicket, WrittenBy, Row
<1> QED BY <1>1, SettledGrows DEF Paid, PaidInv

\* Nothing gives an unpaid ticket away, unless an operator may.
LEMMA PaidStep ==
    ASSUME "active" \notin Operator, IInv, IInv', PaidInv, [Next]_vars
    PROVE  PaidInv'
<1> USE DEF Given
<1>0. TypeOK /\ TypeOK'
  BY DEF IInv
<1>1. UnpaidNeverActive'
  <2> SUFFICES ASSUME NEW t \in Tickets, tickets'[t].status \in Given
               PROVE  Paid(t)'
    BY DEF UnpaidNeverActive, Paid
  <2>1. CASE Paid(t)
    BY <1>0, <2>1, PaidStays
  <2>2. CASE ~Paid(t)
    <3>0. tickets[t].status \notin Given /\ t \notin cronDue \cup expiring
      BY <2>2 DEF PaidInv, UnpaidNeverActive, Paid
    <3>1. ASSUME NEW j \in jobs, WrittenBy(j, t)
          PROVE  FALSE
      <4>1. j.ticket = t /\ j.to \notin Given /\ j.op # "activateTicket"
        BY <2>2, <3>1 DEF PaidInv, WrittenBy
      <4> QED BY <3>0, <3>1, <4>1 DEF WrittenBy, NewStatus
    <3>2. tickets[t] \in Row /\ tickets'[t] \in Row
      BY <1>0 DEF TypeOK
    <3> QED BY <1>0, <3>0, <3>1, <3>2, RowSteps DEF RowStep, SameTicket, Paid, Row
  <2> QED BY <2>1, <2>2
<1>2. ASSUME NEW t \in Tickets, tickets'[t].status = "absent"
      PROVE  ~tickets'[t].free
  BY <1>0, <1>2, SoldStaysSold DEF PaidInv
<1>3. ASSUME NEW j \in jobs'
      PROVE  /\ j.to \in Given => Paid(j.ticket)'
             /\ j.op = "activateTicket" => j.to = "active"
  <2>0. j.ticket \in Tickets
    BY <1>0 DEF TypeOK, Job
  <2>1. CASE j \in jobs
    BY <1>0, <2>0, <2>1, PaidStays DEF PaidInv
  <2>2. ASSUME NEW i \in jobs, WentOn(i, j)
        PROVE  /\ j.to \in Given => Paid(j.ticket)'
               /\ j.op = "activateTicket" => j.to = "active"
    BY <1>0, <2>0, <2>2, PaidStays DEF PaidInv, WentOn
  <2>3. CASE Began(j)
    <3> DEFINE t == j.ticket
    <3>1. CASE j.op = "activateTicket"
      <4>1. j.to = "active" /\ tickets'[t].status = "inactive"
        BY <3>1, <2>3 DEF Began, UseOps, Completing
      <4> QED BY <1>1, <2>0, <4>1 DEF UnpaidNeverActive, Paid
    <3>2. CASE j.op = "updateTicketStatus"
      <4>1. j.to # "active" /\ j.to \in ValidTransitions(tickets'[t].status)
        BY <2>3, <3>2 DEF Began, UseOps, Completing
      <4>2. j.to \in Given => tickets'[t].status = "active"
        BY <4>1 DEF ValidTransitions
      <4> QED BY <1>1, <2>0, <3>2, <4>2 DEF UnpaidNeverActive, Paid
    <3>3. CASE Completing(j)
      <4>1. \/ Delivers("completed", t)
            \/ tickets'[t].free
        BY <2>3, <3>3 DEF Began, Completing, UseOps
      <4>2. Delivers("completed", t) => t \in settled
        BY <1>0, <2>0, HeadQueued DEF PaidInv, Outcomes
      <4> QED BY <2>0, <3>3, <4>1, <4>2, SettledGrows DEF Completing, Paid
    <3>4. CASE j.op = "cancelTicket" \/ j.op \in UseOps
      BY <2>3, <3>4 DEF Began, UseOps, Completing
    <3> QED BY <2>3, <3>1, <3>2, <3>3, <3>4 DEF Began
  <2> QED BY <1>0, <2>1, <2>2, <2>3, JobSteps
<1>4. ASSUME NEW t \in cronDue' \cup expiring'
      PROVE  Paid(t)'
  <2>1. t \in Tickets
    BY <1>0 DEF TypeOK
  <2>2. Paid(t)
    BY <2>1, BatchSteps DEF PaidInv, UnpaidNeverActive, Paid
  <2> QED BY <1>0, <2>1, <2>2, PaidStays
<1>5. ASSUME NEW t \in Tickets, Queued("completed", t)'
      PROVE  t \in settled'
  BY <1>5, TopicSteps, SettledGrows DEF PaidInv, Outcomes
<1> QED BY <1>1, <1>2, <1>3, <1>4, <1>5 DEF PaidInv

\* A ticket with a price is active, or waits for its activation, only once its payment
\* was completed.  An operator may activate an unpaid ticket on purpose; without that,
\* no race, duplicate, refused write or crash does.
THEOREM PaidBeforeActive ==
    ASSUME "active" \notin Operator
    PROVE  Spec => []UnpaidNeverActive
<1>1. Init => PaidInv
  BY DEF Init, PaidInv, UnpaidNeverActive, AbsentRow, Queued, Outcomes
<1>2. IInv /\ IInv' /\ PaidInv /\ [Next]_vars => PaidInv'
  BY PaidStep
<1>3. PaidInv => UnpaidNeverActive
  BY DEF PaidInv
<1> QED BY <1>1, <1>2, <1>3, TypeInvariant, PTL DEF Spec, IInv

-----------------------------------------------------------------------------
(* The payment consumer: redelivery, races, and the commit of a message.   *)

\* The columns of the purchase, in every later row of the ticket.
LEMMA FreeIsFixed ==
    ASSUME TypeOK, [Next]_vars, NEW t \in Tickets, tickets[t].status # "absent"
    PROVE  tickets'[t].free = tickets[t].free /\ tickets'[t].status # "absent"
<1>0. tickets[t] \in Row
  BY DEF TypeOK
<1>1. tickets'[t].free = tickets[t].free
  BY <1>0, RowSteps DEF RowStep, SameTicket, WrittenBy, Row
<1> QED BY <1>1, SoldStaysSold

\* A handler that has read its ticket as inactive, and may start its validity.
Starting(j) == \/ j.op = "activateTicket"
               \/ j.op = "updateTicketStatus" /\ j.mem.status = "inactive"

\* A ticket that waits for its payment, or whose payment is being credited.
Waits(t) == \/ tickets[t].status = "pending_payment"
            \/ \E j \in jobs : Completing(j) /\ j.ticket = t

CreditInv ==
    /\ \A t \in Tickets : tickets[t].status = "absent" => tickets[t].countdown = "none"
    /\ \A j \in jobs : tickets[j.ticket].status # "absent"
    /\ \A j \in jobs : Completing(j) => /\ j.mem.status = "pending_payment"
                                        /\ j.to \in {"active", "inactive"}
                                        /\ j.proc = Consumer <=> ~tickets[j.ticket].free
    /\ \A i, j \in jobs : Completing(i) /\ Completing(j) /\ i.ticket = j.ticket => i = j
    /\ \A t \in Tickets, outcome \in Outcomes :
          Queued(outcome, t) => tickets[t].status # "absent" /\ ~tickets[t].free
    /\ \A j \in jobs : /\ j.to # "pending_payment"
                       /\ j.to = "inactive" => j.op = "processPaymentCompletion"
                       /\ j.pc = "stamp" => /\ j.op = "processPaymentCompletion"
                                            /\ tickets[j.ticket].status # "pending_payment"
                       /\ j.pc \in {"recheck", "relock"} => j.op \in UseOps
                       /\ j.msg = "completed" => j.op = "processPaymentCompletion"

\* No countdown runs for such a ticket, and no handler will start one.
FreshInv ==
    \A t \in Tickets : Waits(t) =>
       /\ tickets[t].countdown = "none" /\ tickets[t].status # "inactive"
       /\ \A j \in jobs : j.ticket = t => ~Starting(j)

\* Only its purchase makes a ticket wait for a payment.
LEMMA PendingOnlyOnce ==
    ASSUME TypeOK, CreditInv, [Next]_vars, NEW t \in Tickets,
           tickets'[t].status = "pending_payment"
    PROVE  tickets[t].status \in {"absent", "pending_payment"}
<1>0. tickets[t] \in Row
  BY DEF TypeOK
<1>1. ASSUME NEW j \in jobs, WrittenBy(j, t)
      PROVE  tickets[t].status = "pending_payment"
  BY <1>1 DEF WrittenBy, NewStatus, CreditInv
<1> QED BY <1>0, <1>1, RowSteps DEF RowStep, Row

\* Every step keeps CreditInv.
LEMMA CreditStep ==
    ASSUME IInv, IInv', CreditInv, [Next]_vars
    PROVE  CreditInv'
<1>0. TypeOK /\ TypeOK'
  BY DEF IInv
<1>a. ASSUME NEW t \in Tickets, tickets[t].status # "absent"
      PROVE  tickets'[t].free = tickets[t].free /\ tickets'[t].status # "absent"
  BY <1>0, <1>a, FreeIsFixed
<1>b. \A j \in jobs : j.ticket \in Tickets /\ tickets[j.ticket].status # "absent"
  BY <1>0 DEF TypeOK, Job, CreditInv
<1>c. \A i \in jobs : \A j : WentOn(i, j) => ~Completing(j)
  BY DEF WentOn, Completing, UseOps
<1>d. ASSUME NEW j \in jobs', Began(j)
      PROVE  j.ticket \in Tickets /\ tickets'[j.ticket].status # "absent"
  BY <1>0, <1>d DEF Began, TypeOK, Job, HasRow, NoRow
<1>1. ASSUME NEW j \in jobs'
      PROVE  tickets'[j.ticket].status # "absent"
  BY <1>0, <1>a, <1>b, <1>d, JobSteps DEF WentOn
<1>2. ASSUME NEW j \in jobs', Completing(j)
      PROVE  /\ j.mem.status = "pending_payment"
             /\ j.to \in {"active", "inactive"}
             /\ j.proc = Consumer <=> ~tickets'[j.ticket].free
  <2>1. CASE j \in jobs
    BY <1>2, <1>a, <1>b, <2>1 DEF CreditInv
  <2>2. CASE Began(j)
    <3>0. j.ticket \in Tickets
      BY <1>0 DEF TypeOK, Job
    <3>1. j.mem.status = "pending_payment" /\ j.to = StatusAfterPayment(j.mem)
      BY <1>2, <2>2 DEF Began, Completing, UseOps
    <3>2. \/ j.proc = Consumer /\ Delivers("completed", j.ticket)
          \/ j.proc \in Procs /\ tickets'[j.ticket].free
      BY <1>2, <2>2 DEF Began, Completing, UseOps
    <3>3. Delivers("completed", j.ticket) => ~tickets'[j.ticket].free
      BY <1>0, <1>a, <3>0, HeadQueued DEF CreditInv, Outcomes
    <3> QED BY <3>1, <3>2, <3>3, ConsumerAssumption DEF StatusAfterPayment
  <2> QED BY <1>0, <1>2, <1>c, <2>1, <2>2, JobSteps
<1>3. ASSUME NEW i \in jobs', NEW j \in jobs', Completing(i), Completing(j),
             i.ticket = j.ticket
      PROVE  i = j
  <2>1. CASE i.proc = j.proc
    BY <2>1 DEF IInv, OneJobEach
  <2>2. CASE i.proc # j.proc
    <3>0. j.proc # Consumer /\ i.proc # Consumer
      BY <1>2, <1>3, <2>2
    <3>1. ASSUME NEW k \in jobs', Completing(k), k.proc # Consumer, k \notin jobs
          PROVE  tickets[k.ticket].status = "absent"
      BY <1>0, <1>c, <3>1, JobSteps DEF Began, Completing, UseOps
    <3>2. i \in jobs <=> j \in jobs
      BY <1>b, <1>3, <3>0, <3>1
    <3>3. i \in jobs \/ j \in jobs
      BY <1>3, <2>2, OneNewHandler
    <3> QED BY <1>3, <3>2, <3>3 DEF CreditInv
  <2> QED BY <2>1, <2>2
<1>4. ASSUME NEW t \in Tickets, NEW outcome \in Outcomes, Queued(outcome, t)'
      PROVE  tickets'[t].status # "absent" /\ ~tickets'[t].free
  BY <1>a, <1>4, TopicSteps DEF CreditInv
<1>5. ASSUME NEW j \in jobs'
      PROVE  /\ j.to # "pending_payment"
             /\ j.to = "inactive" => j.op = "processPaymentCompletion"
             /\ j.pc = "stamp" => /\ j.op = "processPaymentCompletion"
                                  /\ tickets'[j.ticket].status # "pending_payment"
             /\ j.pc \in {"recheck", "relock"} => j.op \in UseOps
             /\ j.msg = "completed" => j.op = "processPaymentCompletion"
  <2>1. CASE j \in jobs
    BY <1>0, <1>b, <2>1, PendingOnlyOnce DEF CreditInv
  <2>2. CASE Began(j)
    BY <2>2 DEF Began, Completing, UseOps, StatusAfterPayment, ValidTransitions
  <2>3. ASSUME NEW i \in jobs, WentOn(i, j)
        PROVE  /\ j.to # "pending_payment"
               /\ j.to = "inactive" => j.op = "processPaymentCompletion"
               /\ j.pc = "stamp" => /\ j.op = "processPaymentCompletion"
                                    /\ tickets'[j.ticket].status # "pending_payment"
               /\ j.pc \in {"recheck", "relock"} => j.op \in UseOps
               /\ j.msg = "completed" => j.op = "processPaymentCompletion"
    <3>1. j.pc = "stamp" => /\ Completing(i)
                            /\ tickets'[j.ticket].status = NewStatus(i, i.to)
      BY <2>3 DEF WentOn
    <3>2. Completing(i) => NewStatus(i, i.to) = i.to
      BY DEF CreditInv, NewStatus
    <3> QED BY <2>3, <3>1, <3>2 DEF WentOn, CreditInv, Completing
  <2> QED BY <1>0, <2>1, <2>2, <2>3, JobSteps
<1>6. ASSUME NEW t \in Tickets, tickets'[t].status = "absent"
      PROVE  tickets'[t].countdown = "none"
  BY <1>0, <1>6, SoldStaysSold DEF CreditInv
<1> QED BY <1>1, <1>2, <1>3, <1>4, <1>5, <1>6 DEF CreditInv

\* No step starts the countdown of a ticket that still waits after it.
LEMMA FreshStep ==
    ASSUME IInv, IInv', CreditInv, CreditInv', FreshInv, [Next]_vars
    PROVE  FreshInv'
<1> SUFFICES ASSUME NEW t \in Tickets, Waits(t)'
             PROVE  /\ tickets'[t].countdown = "none" /\ tickets'[t].status # "inactive"
                    /\ \A j \in jobs' : j.ticket = t => ~Starting(j)
  BY DEF FreshInv
<1>0. TypeOK /\ TypeOK' /\ tickets[t] \in Row /\ tickets'[t] \in Row
  BY DEF IInv, TypeOK
\* It waited already, or was not sold.
<1>1. Waits(t) \/ tickets[t].status = "absent"
  <2>1. CASE tickets'[t].status = "pending_payment"
    BY <1>0, <2>1, PendingOnlyOnce DEF Waits
  <2>2. ASSUME NEW j \in jobs', Completing(j), j.ticket = t
        PROVE  Waits(t) \/ tickets[t].status = "absent"
    <3>1. CASE j \in jobs
      BY <2>2, <3>1 DEF Waits
    <3>2. CASE Began(j)
      <4>1. tickets'[t].status = "pending_payment"
        BY <2>2, <3>2 DEF Began, Completing, UseOps
      <4> QED BY <2>1, <4>1
    <3> QED BY <1>0, <2>2, <3>1, <3>2, JobSteps DEF WentOn, Completing, UseOps
  <2> QED BY <2>1, <2>2 DEF Waits
<1>2. CASE tickets[t].status = "absent"
  <2>1. \A j \in jobs : j.ticket # t
    BY <1>2 DEF CreditInv
  <2>2. tickets'[t].countdown = "none" /\ tickets'[t].status = "pending_payment"
    <3>1. tickets'[t].status = "pending_payment"
      BY <1>0, <2>1, JobSteps DEF Waits, Began, WentOn, Completing, UseOps
    <3> QED BY <1>0, <1>2, <3>1, RowSteps DEF RowStep, WrittenBy, HasRow, NoRow
  <2>3. ASSUME NEW j \in jobs', j.ticket = t
        PROVE  ~Starting(j)
    <3>1. Began(j)
      BY <1>0, <2>1, <2>3, JobSteps DEF WentOn
    <3> QED BY <2>2, <2>3, <3>1 DEF Began, Starting, Completing, UseOps
  <2> QED BY <2>2, <2>3
<1>3. CASE Waits(t)
  <2>0. /\ tickets[t].countdown = "none" /\ tickets[t].status # "inactive"
        /\ \A j \in jobs : j.ticket = t => ~Starting(j)
    BY <1>3 DEF FreshInv
  <2>a. tickets[t].status # "absent"
    BY <1>3 DEF Waits, CreditInv
  \* Crediting the payment is what ends the waiting.
  <2>1. ASSUME NEW j \in jobs, Step(j), WrittenBy(j, t), Completing(j)
        PROVE  FALSE
    <3>1. tickets'[t].status \in {"active", "inactive"}
      BY <2>1 DEF WrittenBy, Completing, UseOps, NewStatus, CreditInv
    <3>2. PICK k \in jobs' : Completing(k) /\ k.ticket = t
      BY <3>1 DEF Waits
    <3>3. k \notin jobs
      BY <1>0, <2>1, <3>2, HandlerJobs DEF CreditInv, WrittenBy
    <3>4. Began(k)
      BY <1>0, <3>2, <3>3, JobSteps DEF WentOn, Completing, UseOps
    <3> QED BY <3>1, <3>2, <3>4 DEF Began, Completing, UseOps
  <2>2. ASSUME NEW j \in jobs, WrittenBy(j, t), ~Completing(j)
        PROVE  tickets'[t].countdown = "none" /\ tickets'[t].status # "inactive"
    BY <2>0, <2>2 DEF WrittenBy, Starting, NewStatus, CreditInv, UseOps
  <2>3. tickets'[t].countdown = "none" /\ tickets'[t].status # "inactive"
    BY <1>0, <2>0, <2>a, <2>1, <2>2, RowSteps DEF RowStep, Row
  <2>4. ASSUME NEW j \in jobs', j.ticket = t, Starting(j)
        PROVE  FALSE
    <3>1. CASE Began(j)
      BY <2>3, <2>4, <3>1 DEF Began, Starting, Completing, UseOps
    <3>2. ASSUME NEW i \in jobs, WentOn(i, j)
          PROVE  FALSE
      BY <2>4, <3>2 DEF WentOn, Starting, Completing, UseOps, CreditInv
    <3> QED BY <1>0, <2>0, <2>4, <3>1, <3>2, JobSteps
  <2> QED BY <2>3, <2>4
<1> QED BY <1>1, <1>2, <1>3

\* A countdown that is over stays over.
LEMMA NoRewind ==
    ASSUME IInv, CreditInv, FreshInv, [Next]_vars, NEW t \in Tickets,
           tickets[t].countdown = "due"
    PROVE  tickets'[t].countdown = "due"
<1>0. tickets[t] \in Row /\ TypeOK
  BY DEF IInv, TypeOK
<1>1. ~Waits(t)
  BY DEF FreshInv
<1>2. ASSUME NEW j \in jobs, WrittenBy(j, t)
      PROVE  tickets'[t].countdown = "due"
  BY <1>1, <1>2 DEF WrittenBy, Waits
<1>3. tickets[t].status # "absent"
  BY DEF CreditInv
<1> QED BY <1>0, <1>2, <1>3, RowSteps DEF RowStep, Row

\* Whatever the broker delivers again, and however the consumer, the routes and the
\* batches interleave, fail or crash, no countdown that is over starts afresh.
THEOREM CountdownStaysOver == Spec => CountdownNeverRewinds
<1>1. Init => CreditInv /\ FreshInv
  BY DEF Init, CreditInv, FreshInv, Waits, AbsentRow, Queued, Outcomes
<1>2. IInv /\ IInv' /\ CreditInv /\ FreshInv /\ [Next]_vars => CreditInv' /\ FreshInv'
  BY CreditStep, FreshStep
<1>3. IInv /\ CreditInv /\ FreshInv /\ [Next]_vars
      => [\A t \in Tickets :
            tickets[t].countdown = "due" => tickets'[t].countdown = "due"]_vars
  BY NoRewind
<1> QED BY <1>1, <1>2, <1>3, TypeInvariant, PTL DEF Spec, IInv, CountdownNeverRewinds

\* A message that leaves payment.completed while the database takes every write.
LEMMA CreditedThenCommitted ==
    ASSUME ~DbFaults, IInv, CreditInv, [Next]_vars, NEW t \in Tickets,
           Delivers("completed", t), Len(topics'["completed"]) < Len(topics["completed"])
    PROVE  tickets'[t].status # "pending_payment"
<1>0. TypeOK /\ topics["completed"] \in Seq(Tickets) /\ Len(topics["completed"]) \in Nat
  BY DEF IInv, TypeOK, Outcomes
<1>1. ~UNCHANGED topics
  BY <1>0
<1>2. ASSUME NEW u \in Tickets, NEW m \in Outcomes, PublishOutcome(u, m)
      PROVE  FALSE
  <2>1. topics'["completed"] = IF m = "completed" THEN Append(topics["completed"], u)
                                                  ELSE topics["completed"]
    BY <1>0, <1>2 DEF PublishOutcome, TypeOK, Outcomes
  <2> QED BY <1>0, <2>1
<1>a. ASSUME NEW m \in Outcomes, Commit(m)
      PROVE  m = "completed"
  BY <1>0, <1>a DEF Commit, TypeOK, Outcomes
<1>3. ASSUME NEW u \in Tickets, HandleCompleted(u)
      PROVE  tickets'[t].status # "pending_payment"
  BY <1>1, <1>3 DEF HandleCompleted, Delivers
<1>4. ASSUME NEW u \in Tickets, NEW m \in Outcomes, m # "completed", HandleNotPaid(u, m)
      PROVE  FALSE
  BY <1>1, <1>4, <1>a DEF HandleNotPaid
<1>5. ASSUME NEW j \in jobs, Step(j)
      PROVE  tickets'[t].status # "pending_payment"
  <2>0. j.msg \in Outcomes \cup {"none"}
    BY <1>0 DEF TypeOK, Job
  <2>1. /\ Finish(j)
        /\ \/ WriteCompletion(j) /\ ~HasRow(j.ticket)
           \/ StampPurchase(j)
           \/ j.op # "processPaymentCompletion"
    BY <1>1, <1>5 DEF Step, WriteCompletion, StampPurchase, WriteCancel, WriteStatus,
       WriteActivation, ReadForUse, WriteUse, TrackAbuse, RecheckAbuse, RelockAbuse,
       Finish, UseOps
  <2>2. j.msg = "completed"
    BY <1>1, <1>a, <2>0, <2>1 DEF Finish
  <2>3. j.op = "processPaymentCompletion" /\ j.ticket = t
    BY <2>2 DEF CreditInv, IInv, MessageHeld, Delivers
  <2>4. CASE StampPurchase(j)
    BY <2>3, <2>4 DEF StampPurchase, CreditInv
  <2>5. CASE WriteCompletion(j) /\ ~HasRow(j.ticket)
    BY <2>3, <2>5 DEF WriteCompletion, Store, HasRow, NoRow
  <2> QED BY <2>1, <2>3, <2>4, <2>5
<1>6. [Next]_vars =>
         \/ UNCHANGED topics
         \/ \E u \in Tickets, m \in Outcomes : PublishOutcome(u, m)
         \/ \E u \in Tickets : HandleCompleted(u)
         \/ \E u \in Tickets, m \in Outcomes : m # "completed" /\ HandleNotPaid(u, m)
         \/ \E j \in jobs : Step(j)
  BY DEF Next, Arrive, Proceed, vars, Purchase, CreateShortTerm, CreateLongTerm, Request,
     CancelTicket, UpdateTicketStatus, ActivateTicket, UseTicket, UseTicketByQRCode,
     DeleteTicket, Deliver, CronScan, ExpireScan, CronActivate, ValidityEnds,
     CountdownEnds, ExpireWrite, WriteFails, Crash
<1> QED BY <1>1, <1>2, <1>3, <1>4, <1>5, <1>6

\* While the database takes every write, a payment.completed message is committed only
\* once its ticket no longer waits for the payment.
THEOREM PaymentsCredited ==
    ASSUME ~DbFaults
    PROVE  Spec => NoPaymentDropped
<1>1. Init => CreditInv
  BY DEF Init, CreditInv, AbsentRow, Queued, Outcomes
<1>2. IInv /\ IInv' /\ CreditInv /\ [Next]_vars => CreditInv'
  BY CreditStep
<1>3. IInv /\ CreditInv /\ [Next]_vars
      => [\A t \in Tickets :
            /\ Delivers("completed", t)
            /\ Len(topics'["completed"]) < Len(topics["completed"])
            => tickets'[t].status # "pending_payment"]_vars
  BY CreditedThenCommitted
<1> QED BY <1>1, <1>2, <1>3, TypeInvariant, PTL DEF Spec, IInv, NoPaymentDropped

-----------------------------------------------------------------------------
(* Handlers one at a time.                                                 *)

\* Rides are left on a short-term ticket.
Spare(row) == /\ row.kind = "oneway" => row.uses < 1
              /\ row.kind = "return" => row.uses < 2

\* The rows that come about when handlers do not interleave.
Sound(row) ==
    /\ row.status = "absent" => row.uses = 0
    /\ row.status \in {"pending_payment", "inactive", "active"} => Spare(row)
    /\ row.kind = "oneway" => row.uses <= 1 /\ row.status # "abused"
    /\ row.kind = "return" => row.uses <= 2 /\ (row.status = "abused" => row.uses = 2)
    /\ row.kind = "pass" /\ row.status \in {"pending_payment", "inactive"}
          => row.validity = "none"

\* What the handler in flight knows of the row it works on.
Knows(j) ==
    LET row == tickets[j.ticket]
    IN  /\ HasRow(j.ticket)
        /\ j.pc \notin {"stamp", "recheck"}
              => /\ j.mem.status = row.status /\ j.mem.kind = row.kind
                 /\ j.mem.uses = row.uses
        /\ j.op = "processPaymentCompletion" => j.pc \in {"write", "stamp"}
        /\ Completing(j) => /\ row.status = "pending_payment"
                            /\ j.to \in {"active", "inactive"}
        /\ j.op = "cancelTicket" => /\ j.pc = "write"
                                    /\ row.status \notin {"used", "cancelled"}
        /\ j.op = "updateTicketStatus" => /\ j.pc = "write"
                                          /\ j.to \in ValidTransitions(row.status)
        /\ j.op = "activateTicket" => /\ j.pc = "write"
                                      /\ row.status = "inactive" /\ row.kind = "pass"
        /\ j.op \in UseOps =>
              /\ j.pc \in {"read", "write"}
                    => row.status \notin {"used", "cancelled", "expired"}
              /\ j.pc = "write"
                    => /\ row.kind = "return" => row.uses < 2
                       /\ row.kind = "pass" => row.status \in {"active", "abused"}
              /\ j.pc \in {"track", "recheck", "relock"}
                    => /\ row.kind = "pass" => row.status \in {"active", "abused"}
                       /\ row.kind = "return" /\ row.uses >= 2
                             => row.status \in {"used", "abused"}
              /\ j.pc = "relock" => Suspicious(j.mem)

\* One handler or one batch is at work.
OneAtWork ==
    /\ \A i, j \in jobs : i = j
    /\ jobs # {} => cronDue = {} /\ expiring = {}
    /\ cronDue # {} => expiring = {}

SerialInv ==
    /\ OneAtWork
    /\ \A j \in jobs : Knows(j)
    /\ \A t \in Tickets : Sound(tickets[t])
    /\ \A t \in cronDue : tickets[t].status = "inactive" /\ tickets[t].kind = "pass"
    /\ \A t \in expiring : tickets[t].status = "active"
    /\ LedgerExact

\* Uses are granted by a gate and by an operator's "used".
Grants(j) == \/ j.op \in UseOps /\ j.pc = "write"
             \/ j.op = "updateTicketStatus" /\ j.to = "used"

\* The uses granted by a step of a handler.
LEMMA HandlerSpent ==
    ASSUME NEW j \in jobs, Step(j)
    PROVE  \/ spent' = IF Grants(j) THEN [spent EXCEPT ![j.ticket] = @ + 1] ELSE spent
           \/ j.op = "updateTicketStatus" /\ j.pc # "write"
<1>1. CASE WriteUse(j)
  BY <1>1 DEF WriteUse, Grants
<1>2. CASE WriteStatus(j)
  BY <1>2 DEF WriteStatus, Grants, UseOps
<1>3. CASE WriteCompletion(j) \/ WriteCancel(j) \/ WriteActivation(j)
  BY <1>3 DEF WriteCompletion, WriteCancel, WriteActivation, Grants, UseOps
<1>4. CASE StampPurchase(j) \/ ReadForUse(j) \/ TrackAbuse(j) \/ RecheckAbuse(j) \/ RelockAbuse(j)
  BY <1>4 DEF StampPurchase, ReadForUse, TrackAbuse, RecheckAbuse, RelockAbuse, Grants
<1> QED BY <1>1, <1>2, <1>3, <1>4 DEF Step

\* Handlers one at a time take steps any handlers may take.
LEMMA SerialIsNext == [SerialNext]_vars => [Next]_vars
BY DEF SerialNext, Next

\* A step that no handler takes.
Quiet == /\ UNCHANGED spent
         /\ \A t \in Tickets : /\ tickets'[t].status = tickets[t].status
                               /\ tickets'[t].kind = tickets[t].kind
                               /\ tickets'[t].uses = tickets[t].uses

\* What happens while a handler or a batch is at work.
LEMMA SerialSteps ==
    ASSUME TypeOK, OneAtWork, [SerialNext]_vars
    PROVE  \/ Alone /\ Arrive
           \/ \E j \in jobs : Step(j)
           \/ \E t \in Tickets : CronActivate(t)
           \/ ExpireWrite
           \/ Quiet /\ jobs' \subseteq jobs /\ cronDue' \subseteq cronDue
                    /\ expiring' \subseteq expiring
<1>1. ASSUME NEW t \in Tickets, ValidityEnds(t) \/ CountdownEnds(t)
      PROVE  Quiet /\ UNCHANGED <<jobs, cronDue, expiring>>
  <2>1. CASE ValidityEnds(t)
    BY <2>1 DEF ValidityEnds, Quiet, TypeOK, Row
  <2>2. CASE CountdownEnds(t)
    BY <2>2 DEF CountdownEnds, Quiet, TypeOK, Row
  <2> QED BY <1>1, <2>1, <2>2
<1>2. ASSUME NEW j \in jobs, WriteFails(j)
      PROVE  Quiet /\ jobs' \subseteq jobs /\ UNCHANGED <<cronDue, expiring>>
  BY <1>2 DEF WriteFails, Quiet, Finish
<1>3. ASSUME NEW t \in Tickets, NEW m \in Outcomes, PublishOutcome(t, m)
      PROVE  Quiet /\ UNCHANGED <<jobs, cronDue, expiring>>
  BY <1>3 DEF PublishOutcome, Quiet
<1>4. CASE Crash
  BY <1>4 DEF Crash, Quiet
<1>5. CASE UNCHANGED vars
  BY <1>5 DEF vars, Quiet
<1> QED BY <1>1, <1>2, <1>3, <1>4, <1>5 DEF SerialNext, Proceed

\* An arrival starts a handler or a batch.
LEMMA SerialArrive ==
    ASSUME TypeOK, Alone, Arrive
    PROVE  /\ UNCHANGED spent
           /\ \A j \in jobs' : Began(j)
           /\ \/ UNCHANGED <<cronDue, expiring>>
              \/ /\ UNCHANGED <<tickets, jobs, expiring>>
                 /\ \A t \in cronDue' : tickets[t].status = "inactive" /\ tickets[t].kind = "pass"
              \/ /\ UNCHANGED <<tickets, jobs, cronDue>>
                 /\ \A t \in expiring' : tickets[t].status = "active"
<1>1. ASSUME NEW t \in Tickets, Purchase(t) \/ Request(t)
      PROVE  UNCHANGED <<spent, cronDue, expiring>>
  BY <1>1 DEF Purchase, CreateShortTerm, CreateLongTerm, Request, CancelTicket,
     UpdateTicketStatus, ActivateTicket, UseTicket, UseTicketByQRCode, DeleteTicket
<1>2. ASSUME NEW outcome \in Outcomes, Deliver(outcome)
      PROVE  UNCHANGED <<spent, cronDue, expiring>>
  BY <1>2 DEF Deliver, HandleCompleted, HandleNotPaid
<1>3. ASSUME CronScan
      PROVE  /\ UNCHANGED <<spent, tickets, jobs, expiring>>
             /\ \A t \in cronDue' : tickets[t].status = "inactive" /\ tickets[t].kind = "pass"
  BY <1>3 DEF CronScan
<1>4. ASSUME ExpireScan
      PROVE  /\ UNCHANGED <<spent, tickets, jobs, cronDue>>
             /\ \A t \in expiring' : tickets[t].status = "active"
  BY <1>4 DEF ExpireScan
<1>5. \A j \in jobs' : Began(j)
  BY JobSteps DEF Alone, Next
<1> QED BY <1>1, <1>2, <1>3, <1>4, <1>5 DEF Arrive

\* A handler that has just read its row knows it,
LEMMA BeganKnows ==
    ASSUME NEW j \in jobs', Began(j)
    PROVE  Knows(j)'
BY DEF Began, Knows, Completing, UseOps, StatusAfterPayment, HasRow

\* and goes on knowing it through steps that no handler takes.
LEMMA StaysKnown ==
    ASSUME TypeOK, NEW j \in jobs, Knows(j), Quiet
    PROVE  Knows(j)'
BY JobParts DEF Knows, Quiet, Completing, HasRow

\* A handler goes on from what it knows.
LEMMA GoesOnKnowing ==
    ASSUME TypeOK, OneAtWork, NEW i \in jobs, Knows(i), Sound(tickets[i.ticket]), Step(i),
           NEW j, WentOn(i, j)
    PROVE  Knows(j)'
<1> DEFINE t == i.ticket
<1>0. /\ t \in Tickets /\ i.mem \in Row /\ tickets[t] \in Row /\ i.mem.uses \in Nat
      /\ tickets[t].uses \in Nat
  BY JobParts DEF Row
<1>1. \A s \in RowStatuses : s \notin NoRow
  BY DEF RowStatuses, ValidStatuses, NoRow
<1>2. tickets'[t] = tickets[t] \/ WrittenBy(i, t)
  BY <1>0, HandlerRows
<1>3. CASE j.pc = "stamp"
  <2>1. tickets'[t].status \in {"active", "inactive"}
    BY <1>3 DEF WentOn, Knows, Completing, NewStatus
  <2> QED BY <1>3, <2>1 DEF Knows, WentOn, HasRow, NoRow, Completing, UseOps
<1>4. CASE i.pc = "read" /\ j.pc = "write"
  <2>1. /\ j.ticket = t /\ j.op = i.op /\ j.op \in UseOps /\ UNCHANGED tickets
        /\ j.mem = tickets[t] /\ Admits(tickets[t]) /\ HasRow(t)
    BY <1>4 DEF WentOn, Completing
  <2>2. tickets[t].status \notin {"used", "cancelled", "expired"}
    BY <1>4, <2>1 DEF Knows
  <2>3. /\ tickets[t].kind = "return" => tickets[t].uses < 2
        /\ tickets[t].kind = "pass" => tickets[t].validity = "running"
    BY <2>1 DEF Admits
  <2>4. tickets[t].kind = "pass" => tickets[t].status \in {"active", "abused"}
    BY <1>0, <2>1, <2>2, <2>3 DEF Sound, HasRow, NoRow, Row, RowStatuses, ValidStatuses
  <2> QED BY <1>4, <2>1, <2>2, <2>3, <2>4 DEF Knows, HasRow, Completing, UseOps
<1>5. CASE j.pc = "track"
  <2>1. /\ i.op \in UseOps /\ i.pc = "write" /\ j.op = i.op /\ j.ticket = t
        /\ j.mem.kind = i.mem.kind /\ j.mem.uses = i.mem.uses + 1
        /\ j.mem.status = IF LastUse(i.mem) THEN "used" ELSE i.mem.status
    BY <1>5 DEF WentOn, Completing
  <2>2. WrittenBy(i, t)
    BY <1>0, <2>1, HandlerRows DEF Knows
  <2>3. /\ i.mem.kind = tickets[t].kind /\ i.mem.uses = tickets[t].uses
        /\ i.mem.status = tickets[t].status /\ HasRow(t)
        /\ i.mem.status \notin {"used", "cancelled", "expired"}
        /\ i.mem.kind = "pass" => i.mem.status \in {"active", "abused"}
        /\ i.mem.kind = "return" => i.mem.uses < 2
    BY <2>1 DEF Knows
  <2>4. /\ tickets'[t].kind = i.mem.kind /\ tickets'[t].uses = i.mem.uses + 1
        /\ tickets'[t].status = IF LastUse(i.mem) THEN "used" ELSE i.mem.status
    BY <2>1, <2>2, <2>3 DEF WrittenBy, SameTicket, NewStatus, Completing, UseOps
  <2>5. /\ i.mem.kind = "pass" => ~LastUse(i.mem)
        /\ i.mem.kind = "return" /\ i.mem.uses + 1 >= 2 => LastUse(i.mem)
    BY <1>0, <2>3 DEF LastUse
  <2>6. HasRow(t)'
    BY <2>3, <2>4 DEF HasRow, NoRow
  <2> QED BY <1>5, <2>1, <2>3, <2>4, <2>5, <2>6 DEF Knows, Completing, UseOps
<1>6. CASE j.pc = "recheck"
  <2>1. i.op \in UseOps /\ i.pc = "track" /\ j.op = i.op /\ j.ticket = t
    BY <1>6 DEF WentOn
  <2>2. /\ tickets'[t].kind = tickets[t].kind /\ tickets'[t].uses = tickets[t].uses
        /\ tickets'[t].status \in {tickets[t].status, "abused"}
    BY <1>2, <2>1 DEF WrittenBy, SameTicket, NewStatus, Completing, UseOps
  <2>3. HasRow(t)'
    BY <2>2 DEF Knows, HasRow, NoRow
  <2> QED BY <1>6, <2>1, <2>2, <2>3 DEF Knows, Completing, UseOps
<1>7. CASE j.pc = "relock"
  <2>1. i.pc = "recheck" /\ j.op = i.op /\ j.ticket = t /\ UNCHANGED tickets
        /\ j.mem = tickets[t] /\ Suspicious(j.mem) /\ HasRow(t)
    BY <1>7 DEF WentOn, Completing
  <2>2. i.op \in UseOps
    BY <1>0, <2>1 DEF Knows, TypeOK, Job, Ops
  <2> QED BY <1>7, <2>1, <2>2 DEF Knows, HasRow, Completing, UseOps
<1> QED BY <1>3, <1>4, <1>5, <1>6, <1>7 DEF WentOn

\* One step of one handler keeps a row sound.
LEMMA SoundByHandler ==
    ASSUME TypeOK, NEW j \in jobs, Knows(j), NEW t \in Tickets, Sound(tickets[t]),
           WrittenBy(j, t)
    PROVE  Sound(tickets'[t])
<1> DEFINE old == tickets[t]
           new == tickets'[t]
<1>0. /\ old \in Row /\ old.uses \in Nat /\ j.ticket = t /\ new.kind = old.kind
      /\ HasRow(t) /\ old.kind \in {"oneway", "return", "pass"} /\ j.mem.uses \in Nat
  BY JobParts DEF WrittenBy, SameTicket, TypeOK, Row, Kinds, ShortTerm
<1>1. CASE Completing(j)
  <2>1. old.status = "pending_payment" /\ j.mem.status = "pending_payment"
        /\ j.to \in {"active", "inactive"}
    BY <1>0, <1>1 DEF Knows, Completing
  <2>2. new.status = j.to /\ new.uses = old.uses /\ new.validity = old.validity
    BY <1>1, <2>1 DEF WrittenBy, NewStatus, Completing, UseOps
  <2> QED BY <1>0, <2>1, <2>2 DEF Sound, Spare
<1>2. CASE j.op = "cancelTicket"
  <2>1. j.mem.status # "cancelled" /\ j.pc = "write"
    BY <1>0, <1>2 DEF Knows
  <2>2. new.status = "cancelled" /\ new.uses = old.uses
    BY <1>2, <2>1 DEF WrittenBy, NewStatus, Completing, UseOps
  <2> QED BY <1>0, <2>2 DEF Sound, Spare
<1>3. CASE j.op = "updateTicketStatus"
  <2>1. /\ j.to \in ValidTransitions(old.status) /\ j.mem.status = old.status
        /\ j.mem.uses = old.uses /\ j.pc = "write"
    BY <1>0, <1>3 DEF Knows
  <2>2. /\ new.status = j.to
        /\ new.uses = IF j.to = "used" THEN old.uses + 1 ELSE old.uses
    BY <1>0, <1>3, <2>1 DEF WrittenBy, NewStatus, Completing, UseOps, ValidTransitions
  <2>3. \/ j.to \in {"cancelled", "expired"}
        \/ j.to = "active" /\ old.status \in {"pending_payment", "inactive"}
        \/ j.to = "used" /\ old.status = "active"
    BY <2>1 DEF ValidTransitions
  <2> QED BY <1>0, <2>2, <2>3 DEF Sound, Spare
<1>4. CASE j.op = "activateTicket"
  <2>1. j.mem.status = "inactive" /\ old.status = "inactive" /\ j.pc = "write"
    BY <1>0, <1>4 DEF Knows
  <2>2. new.status = "active" /\ new.uses = old.uses
    BY <1>4, <2>1 DEF WrittenBy, NewStatus, Completing, UseOps
  <2> QED BY <1>0, <2>1, <2>2 DEF Sound, Spare
<1>5. CASE j.op \in UseOps /\ j.pc = "write"
  <2>1. /\ j.mem.status = old.status /\ j.mem.kind = old.kind /\ j.mem.uses = old.uses
        /\ old.status \notin {"used", "cancelled", "expired"}
        /\ old.kind = "return" => old.uses < 2
        /\ old.kind = "pass" => old.status \in {"active", "abused"}
    BY <1>0, <1>5 DEF Knows
  <2>2. /\ new.status = IF LastUse(old) THEN "used" ELSE old.status
        /\ new.uses = old.uses + 1
    BY <1>0, <1>5, <2>1 DEF WrittenBy, NewStatus, Completing, UseOps, LastUse
  <2>3. old.status \in RowStatuses
    BY <1>0 DEF Row, HasRow
  <2>4. old.kind = "oneway" => old.uses < 1
    BY <1>0, <2>1, <2>3 DEF Sound, Spare, RowStatuses, ValidStatuses
  <2> QED BY <1>0, <2>1, <2>2, <2>3, <2>4
          DEF Sound, Spare, LastUse, RowStatuses, ValidStatuses
<1>6. CASE j.pc \in {"track", "relock"}
  <2>1. /\ j.mem.status = old.status /\ j.mem.uses = old.uses
    BY <1>0, <1>6 DEF Knows
  <2>2. old.uses >= 2
    BY <1>0, <1>6, <2>1 DEF WrittenBy, Knows, Suspicious, Completing, UseOps, TypeOK, Job, Ops
  <2>3. new.status = "abused" /\ new.uses = old.uses
    BY <1>0, <1>6, <2>1 DEF WrittenBy, NewStatus, Completing, UseOps, Knows
  <2> QED BY <1>0, <2>2, <2>3 DEF Sound, Spare
<1> QED BY <1>1, <1>2, <1>3, <1>4, <1>5, <1>6 DEF WrittenBy

\* Handlers and batches begin alone, and keep to themselves.
LEMMA StaysOneAtWork ==
    ASSUME TypeOK, OneAtWork, [SerialNext]_vars
    PROVE  OneAtWork'
<1>1. CASE Alone /\ Arrive
  <2>1. \A i, j \in jobs' : i = j
    BY <1>1, OneNewHandler DEF Alone, Next
  <2>2. \/ UNCHANGED <<cronDue, expiring>>
        \/ UNCHANGED <<jobs, expiring>>
        \/ UNCHANGED <<jobs, cronDue>>
    BY <1>1, SerialArrive
  <2> QED BY <1>1, <2>1, <2>2 DEF Alone, OneAtWork
<1>2. ASSUME NEW j \in jobs, Step(j)
      PROVE  OneAtWork'
  <2>1. \A i \in jobs' : i \notin jobs
    BY <1>2, HandlerJobs DEF OneAtWork
  <2>2. \A i, k \in jobs' : i = k
    BY <1>2, <2>1, OneNewHandler DEF Next, Proceed
  <2>3. UNCHANGED <<cronDue, expiring>>
    BY <1>2 DEF Step, WriteCompletion, StampPurchase, WriteCancel, WriteStatus,
       WriteActivation, ReadForUse, WriteUse, TrackAbuse, RecheckAbuse, RelockAbuse
  <2> QED BY <1>2, <2>2, <2>3 DEF OneAtWork
<1>3. CASE \/ \E t \in Tickets : CronActivate(t)
           \/ ExpireWrite
  BY <1>3 DEF CronActivate, ExpireWrite, OneAtWork
<1>4. CASE jobs' \subseteq jobs /\ cronDue' \subseteq cronDue /\ expiring' \subseteq expiring
  BY <1>4 DEF OneAtWork
<1> QED BY <1>1, <1>2, <1>3, <1>4, SerialSteps

\* The rows, one by one, after a step.
LEMMA StaysSound ==
    ASSUME TypeOK, TypeOK', SerialInv, [SerialNext]_vars, NEW t \in Tickets
    PROVE  Sound(tickets'[t])
<1> DEFINE old == tickets[t]
           new == tickets'[t]
<1>0. /\ old \in Row /\ old.uses \in Nat /\ Sound(old) /\ new \in Row
      /\ \A j \in jobs : Knows(j)
  BY DEF TypeOK, Row, SerialInv
<1>1. ASSUME NEW j \in jobs, WrittenBy(j, t)
      PROVE  Sound(new)
  BY <1>0, <1>1, SoundByHandler
<1>2. CASE /\ old.status = "absent" /\ new.countdown = "none" /\ new.uses = 0
           /\ \/ new.status = "pending_payment" /\ (new.kind = "pass" => new.validity = "none")
              \/ new.status = "inactive" /\ new.free /\ new.validity = "none"
  BY <1>2 DEF Sound, Spare
<1>3. CASE HasRow(t) /\ new = [old EXCEPT !.status = "deleted"]
  <2>1. new.status = "deleted" /\ new.kind = old.kind /\ new.uses = old.uses
    BY <1>0, <1>3 DEF Row
  <2> QED BY <1>0, <2>1 DEF Sound
<1>4. CASE /\ HasRow(t) /\ SameTicket(old, new)
           /\ new.status = old.status /\ new.uses = old.uses
           /\ \/ new.countdown = old.countdown /\ old.validity = "running"
              \/ /\ new.countdown = "due" /\ old.countdown = "running"
                 /\ new.validity = old.validity
  BY <1>0, <1>4 DEF Sound, SameTicket, Spare
<1>5. CASE /\ HasRow(t) /\ t \in cronDue
           /\ new = [old EXCEPT !.status = "active", !.validity = "running"]
  <2>1. new.status = "active" /\ new.kind = old.kind /\ new.uses = old.uses
    BY <1>0, <1>5 DEF Row
  <2>2. old.kind = "pass"
    BY <1>5 DEF SerialInv
  <2> QED BY <1>0, <2>1, <2>2 DEF Sound, Spare
<1>6. CASE HasRow(t) /\ t \in expiring /\ new = [old EXCEPT !.status = "expired"]
  <2>1. new.status = "expired" /\ new.kind = old.kind /\ new.uses = old.uses
    BY <1>0, <1>6 DEF Row
  <2> QED BY <1>0, <2>1 DEF Sound
<1> QED BY <1>0, <1>1, <1>2, <1>3, <1>4, <1>5, <1>6, RowSteps, SerialIsNext DEF RowStep

\* What the handler that is at work after the step knows.
LEMMA StaysKnowing ==
    ASSUME TypeOK, SerialInv, [SerialNext]_vars, NEW j \in jobs'
    PROVE  Knows(j)'
<1>0. OneAtWork /\ \A i \in jobs : Knows(i) /\ i.ticket \in Tickets /\ Sound(tickets[i.ticket])
  BY DEF SerialInv, TypeOK, Job
<1>1. CASE Alone /\ Arrive
  BY <1>1, SerialArrive, BeganKnows
<1>2. ASSUME NEW i \in jobs, Step(i)
      PROVE  Knows(j)'
  <2>1. WentOn(i, j)
    BY <1>0, <1>2, HandlerJobs DEF OneAtWork
  <2> QED BY <1>0, <1>2, <2>1, GoesOnKnowing
<1>3. CASE \/ \E t \in Tickets : CronActivate(t)
           \/ ExpireWrite
  BY <1>0, <1>3 DEF OneAtWork, CronActivate, ExpireWrite
<1>4. CASE Quiet /\ jobs' \subseteq jobs
  BY <1>0, <1>4, StaysKnown
<1> QED BY <1>0, <1>1, <1>2, <1>3, <1>4, SerialSteps

\* The ledger of every ticket is exact after the step.
LEMMA StaysExact ==
    ASSUME TypeOK, TypeOK', SerialInv, [SerialNext]_vars
    PROVE  LedgerExact'
<1> SUFFICES ASSUME NEW t \in Tickets
             PROVE  tickets'[t].uses = spent'[t]
  BY DEF LedgerExact
<1> DEFINE old == tickets[t]
           new == tickets'[t]
<1>0. /\ old \in Row /\ old.uses \in Nat /\ old.uses = spent[t] /\ spent[t] \in Nat
      /\ spent \in [Tickets -> Nat]
      /\ \A i \in jobs : Knows(i) /\ i.ticket \in Tickets
      /\ old.status = "absent" => old.uses = 0
  BY DEF TypeOK, Row, SerialInv, LedgerExact, Job, Sound
\* Nobody but a handler grants a use.
<1>1. ASSUME \A j \in jobs : ~Step(j), UNCHANGED spent
      PROVE  new.uses = spent'[t]
  <2>1. new.uses = old.uses
    BY <1>0, <1>1, RowSteps, SerialIsNext DEF RowStep, Row
  <2> QED BY <1>0, <1>1, <2>1
<1>2. ASSUME NEW j \in jobs, Step(j)
      PROVE  new.uses = spent'[t]
  <2>a. Knows(j) /\ j.ticket \in Tickets
    BY <1>0
  <2>1. Grants(j) => j.pc = "write"
    BY <2>a DEF Grants, Knows
  <2>2. spent' = IF Grants(j) THEN [spent EXCEPT ![j.ticket] = @ + 1] ELSE spent
    BY <1>2, <2>a, HandlerSpent DEF Knows
  <2>3. CASE Grants(j) /\ t = j.ticket
    <3>1. WrittenBy(j, t)
      BY <1>2, <2>1, <2>3, <2>a, HandlerRows DEF Knows
    <3>2. j.mem.uses = old.uses
      BY <2>1, <2>3, <2>a DEF Knows
    <3>3. new.uses = old.uses + 1
      BY <2>1, <2>3, <3>1, <3>2 DEF WrittenBy, Grants, Completing, UseOps
    <3> QED BY <1>0, <2>2, <2>3, <3>3
  <2>4. CASE ~(Grants(j) /\ t = j.ticket)
    <3>1. new.uses = old.uses
      BY <1>2, <2>4, HandlerRows DEF WrittenBy, Grants, Completing, UseOps
    <3>2. spent'[t] = spent[t]
      BY <1>0, <2>2, <2>4
    <3> QED BY <1>0, <3>1, <3>2
  <2> QED BY <2>3, <2>4
<1>3. (\A j \in jobs : ~Step(j)) => UNCHANGED spent
  BY SerialSteps, SerialArrive DEF SerialInv, CronActivate, ExpireWrite, Quiet
<1> QED BY <1>1, <1>2, <1>3

\* What the batches in progress have read is still so.
LEMMA StaysDue ==
    ASSUME TypeOK, TypeOK', SerialInv, [SerialNext]_vars
    PROVE  /\ \A t \in cronDue' : tickets'[t].status = "inactive" /\ tickets'[t].kind = "pass"
           /\ \A t \in expiring' : tickets'[t].status = "active"
<1>0. /\ cronDue \subseteq Tickets /\ expiring \subseteq Tickets /\ OneAtWork
      /\ cronDue' \subseteq Tickets /\ expiring' \subseteq Tickets
      /\ \A t \in cronDue : tickets[t].status = "inactive" /\ tickets[t].kind = "pass"
      /\ \A t \in expiring : tickets[t].status = "active"
  BY DEF TypeOK, SerialInv
<1>1. CASE Alone /\ Arrive
  BY <1>1, SerialArrive DEF Alone
<1>2. ASSUME NEW j \in jobs, Step(j)
      PROVE  cronDue' = {} /\ expiring' = {}
  BY <1>0, <1>2 DEF OneAtWork, Step, WriteCompletion, StampPurchase, WriteCancel,
     WriteStatus, WriteActivation, ReadForUse, WriteUse, TrackAbuse, RecheckAbuse, RelockAbuse
<1>3. ASSUME NEW u \in Tickets, CronActivate(u)
      PROVE  /\ \A t \in cronDue' : tickets'[t].status = "inactive" /\ tickets'[t].kind = "pass"
             /\ expiring' = {}
  <2>1. /\ u \in cronDue /\ cronDue' = cronDue \ {u} /\ expiring' = expiring
        /\ \A t \in Tickets \ {u} : tickets'[t] = tickets[t]
    BY <1>3 DEF CronActivate, Store, TypeOK
  <2> QED BY <1>0, <2>1 DEF OneAtWork
<1>4. CASE ExpireWrite
  BY <1>0, <1>4 DEF ExpireWrite, OneAtWork
<1>5. CASE Quiet /\ cronDue' \subseteq cronDue /\ expiring' \subseteq expiring
  BY <1>0, <1>5 DEF Quiet
<1> QED BY <1>0, <1>1, <1>2, <1>3, <1>4, <1>5, SerialSteps

\* The strengthened invariant of handlers one at a time is inductive.
LEMMA SerialStep == TypeOK /\ TypeOK' /\ SerialInv /\ [SerialNext]_vars => SerialInv'
BY StaysOneAtWork, StaysSound, StaysKnowing, StaysExact, StaysDue DEF SerialInv

\* TypeOK holds of the serial specification too: its steps are steps of Spec.
LEMMA SerialTypes == SerialSpec => [](TypeOK /\ SerialInv)
<1>1. Init => IInv
  BY DEF Init, IInv, TypeOK, OneJobEach, MessageHeld, AbsentRow, Row, RowStatuses,
         NoRow, Kinds, ShortTerm
<1>2. Init => SerialInv
  BY DEF Init, SerialInv, OneAtWork, LedgerExact, AbsentRow, Sound, Spare
<1>3. IInv /\ [SerialNext]_vars => IInv'
  <2>1. CASE UNCHANGED vars
    BY <2>1 DEF vars, IInv, TypeOK, OneJobEach, MessageHeld, Delivers
  <2> QED BY <2>1, ArriveIInv, ProceedIInv DEF SerialNext
<1>4. IInv /\ IInv' /\ SerialInv /\ [SerialNext]_vars => SerialInv'
  BY SerialStep DEF IInv
<1>5. IInv => TypeOK
  BY DEF IInv
<1> QED BY <1>1, <1>2, <1>3, <1>4, <1>5, PTL DEF SerialSpec

\* One handler at a time, usedList has one entry per use granted, through every
\* crash, refused write, batch and delivery in between.
THEOREM LedgerIsExact == SerialSpec => []LedgerExact
BY SerialTypes, PTL DEF SerialInv

\* One handler at a time, a one-way ticket is ridden once and a return ticket twice.
\* (Two handlers on one ticket break this: see the run ticket_double_ride.)
THEOREM AllowanceKeptAlone == SerialSpec => []AllowanceKept
<1>1. SerialInv => AllowanceKept
  BY DEF SerialInv, LedgerExact, Sound, AllowanceKept, ShortTerm, Contract!Allowance
<1> QED BY <1>1, SerialTypes, PTL

-----------------------------------------------------------------------------
(* The contract of a ticket, step by step.                                 *)

phases == [t \in Tickets |-> Phase(tickets[t])]
kinds == [t \in Tickets |-> tickets[t].kind]

\* A step that works on one ticket.
LEMMA OnlyOne ==
    ASSUME TypeOK, TypeOK', NEW t \in Tickets,
           \A u \in Tickets \ {t} : tickets'[u] = tickets[u]
    PROVE  /\ phases' = [phases EXCEPT ![t] = Phase(tickets'[t])]
           /\ kinds' = [kinds EXCEPT ![t] = tickets'[t].kind]
           /\ tickets'[t].kind = tickets[t].kind => UNCHANGED kinds
           /\ Phase(tickets'[t]) = Phase(tickets[t]) => UNCHANGED phases
BY DEF phases, kinds

\* A step of the contract that moves one ticket and grants nothing.
LEMMA MoveOne ==
    ASSUME TypeOK, TypeOK', NEW t \in Tickets,
           \A u \in Tickets \ {t} : tickets'[u] = tickets[u],
           tickets'[t].kind = tickets[t].kind, UNCHANGED spent,
           \/ Phase(tickets'[t]) = Phase(tickets[t])
           \/ Phase(tickets[t]) = "reserved" /\ Phase(tickets'[t]) = "paid"
           \/ Phase(tickets[t]) \in {"reserved", "paid"} /\ Phase(tickets'[t]) = "valid"
           \/ Phase(tickets[t]) = "valid" /\ Phase(tickets'[t]) = "closed"
           \/ /\ Phase(tickets[t]) \in {"reserved", "paid", "valid", "closed"}
              /\ Phase(tickets'[t]) = "void"
           \/ /\ Phase(tickets[t]) \in {"reserved", "paid", "valid", "closed", "void"}
              /\ Phase(tickets'[t]) = "gone"
    PROVE  [Contract!LenientNext]_(Contract!cvars)
<1> DEFINE from == Phase(tickets[t])
           to == Phase(tickets'[t])
<1>1. /\ phases' = [phases EXCEPT ![t] = to] /\ UNCHANGED <<kinds, spent>>
      /\ phases[t] = from /\ (from = to => UNCHANGED phases)
  BY OnlyOne DEF phases
<1>2. CASE from = to
  BY <1>1, <1>2 DEF phases, kinds, Contract!cvars
<1>3. CASE from \in {"reserved", "paid"} /\ to = "valid"
  <2>1. Contract!Validate(t)
    BY <1>1, <1>3 DEF phases, kinds, Contract!Validate, Contract!Move
  <2> QED BY <2>1 DEF Contract!Next, Contract!LenientNext
<1>4. CASE from = "reserved" /\ to = "paid"
  <2>1. Contract!Credit(t)
    BY <1>1, <1>4 DEF phases, kinds, Contract!Credit, Contract!Move
  <2> QED BY <2>1 DEF Contract!Next, Contract!LenientNext
<1>5. CASE from = "valid" /\ to = "closed"
  <2>1. phases' = [u \in Tickets |-> IF u \in {t} THEN "closed" ELSE phases[u]]
    BY <1>1, <1>5 DEF phases
  <2>2. Contract!Close({t})
    BY <1>1, <1>5, <2>1 DEF phases, kinds, Contract!Close
  <2> QED BY <2>2 DEF Contract!Next, Contract!LenientNext
<1>6. CASE from \in {"reserved", "paid", "valid", "closed"} /\ to = "void"
  <2>1. Contract!Void(t)
    BY <1>1, <1>6 DEF phases, kinds, Contract!Void, Contract!Move
  <2> QED BY <2>1 DEF Contract!Next, Contract!LenientNext
<1>7. CASE from \in {"reserved", "paid", "valid", "closed", "void"} /\ to = "gone"
  <2>1. Contract!Remove(t)
    BY <1>1, <1>7 DEF phases, kinds, Contract!Remove, Contract!Move, Contract!Phases
  <2> QED BY <2>1 DEF Contract!Next, Contract!LenientNext
<1> QED BY <1>2, <1>3, <1>4, <1>5, <1>6, <1>7

\* A step of the contract that grants a ride.
LEMMA GrantOne ==
    ASSUME TypeOK, TypeOK', NEW t \in Tickets,
           \A u \in Tickets \ {t} : tickets'[u] = tickets[u],
           tickets'[t].kind = tickets[t].kind, spent' = [spent EXCEPT ![t] = @ + 1],
           tickets[t].uses = spent[t], Spare(tickets[t]),
           \/ /\ \/ Phase(tickets[t]) = "valid"
                 \/ /\ Phase(tickets[t]) \in {"reserved", "paid"}
                    /\ tickets[t].kind # "pass"
              /\ Phase(tickets'[t]) = IF LastUse(tickets[t]) THEN "closed"
                                                             ELSE Phase(tickets[t])
           \/ Phase(tickets[t]) = "valid" /\ Phase(tickets'[t]) = "closed"
    PROVE  Contract!LenientNext
<1> DEFINE from == Phase(tickets[t])
           to == Phase(tickets'[t])
           k == tickets[t].kind
<1>0. tickets[t] \in Row /\ k \in {"oneway", "return", "pass"} /\ spent[t] \in Nat
  BY DEF TypeOK, Row, Kinds, ShortTerm
<1>1. /\ phases' = [phases EXCEPT ![t] = to] /\ UNCHANGED kinds
      /\ phases[t] = from /\ kinds[t] = k
  BY OnlyOne DEF phases, kinds
<1>2. Contract!MayRide(t)
  BY <1>0, <1>1 DEF kinds, Spare, Contract!MayRide, Contract!ShortTerm, Contract!Allowance
<1>3. Contract!LastRide(t) <=> LastUse(tickets[t])
  BY <1>0, <1>1 DEF kinds, Spare, LastUse, Contract!LastRide, Contract!ShortTerm,
     Contract!Allowance
<1>4. CASE to = IF LastUse(tickets[t]) THEN "closed" ELSE from
  <2>1. ASSUME NEW phasesFrom, from \in phasesFrom
        PROVE  Contract!RideFrom(t, phasesFrom)
    BY <1>0, <1>1, <1>2, <1>3, <1>4, <2>1 DEF phases, kinds, Contract!RideFrom
  <2>2. CASE from = "valid" \/ (from = "paid" /\ k # "pass")
    <3>1. Contract!Ride(t)
      BY <1>0, <1>1, <2>1, <2>2 DEF kinds, Contract!Ride, Contract!ShortTerm
    <3> QED BY <3>1 DEF Contract!Next, Contract!LenientNext
  <2>3. CASE from = "reserved" /\ k # "pass"
    <3>1. Contract!RideUnpaid(t)
      BY <1>0, <1>1, <2>1, <2>3 DEF kinds, Contract!RideUnpaid, Contract!ShortTerm
    <3> QED BY <3>1 DEF Contract!LenientNext
  <2>4. from = "valid" \/ (from \in {"reserved", "paid"} /\ k # "pass")
    OBVIOUS
  <2> QED BY <2>2, <2>3, <2>4
<1>5. CASE from = "valid" /\ to = "closed"
  <2>1. Contract!Redeem(t)
    BY <1>1, <1>2, <1>5 DEF phases, kinds, Contract!Redeem, Contract!Move
  <2> QED BY <2>1 DEF Contract!Next, Contract!LenientNext
<1> QED BY <1>4, <1>5

\* A row as a purchase makes it: only a pass may be without a payment to wait for.
JustSold(row) == Phase(row) = "reserved" \/ (Phase(row) = "paid" /\ row.kind = "pass")

\* A purchase sells a ticket of the kind the request named.
LEMMA PurchaseSells ==
    ASSUME TypeOK, TypeOK', NEW t \in Tickets, Purchase(t)
    PROVE  Contract!LenientNext
<1>1. PICK k \in Kinds : \E row : /\ row.kind = k /\ JustSold(row)
                                  /\ tickets[t].status = "absent" /\ UNCHANGED spent
                                  /\ tickets' = [tickets EXCEPT ![t] = row]
  <2>1. ASSUME NEW k \in ShortTerm, NEW free \in BOOLEAN, NEW fare \in BOOLEAN,
               CreateShortTerm(t, k, free, fare)
        PROVE  \E row : /\ row.kind = k /\ JustSold(row)
                        /\ tickets[t].status = "absent" /\ UNCHANGED spent
                        /\ tickets' = [tickets EXCEPT ![t] = row]
    <3> DEFINE row == [AbsentRow EXCEPT !.status = "pending_payment", !.kind = k,
                          !.free = free, !.fare = fare, !.validity = "running"]
    <3>1. row.kind = k /\ row.status = "pending_payment"
      BY DEF AbsentRow
    <3>2. /\ tickets[t].status = "absent" /\ UNCHANGED spent
          /\ tickets' = [tickets EXCEPT ![t] = row]
      BY <2>1 DEF CreateShortTerm
    <3> HIDE DEF row
    <3>3. JustSold(row)
      BY <3>1 DEF JustSold, Phase
    <3> QED BY <3>1, <3>2, <3>3
  <2>2. ASSUME NEW free \in BOOLEAN, CreateLongTerm(t, free)
        PROVE  \E row : /\ row.kind = "pass" /\ JustSold(row)
                        /\ tickets[t].status = "absent" /\ UNCHANGED spent
                        /\ tickets' = [tickets EXCEPT ![t] = row]
    <3> DEFINE row == [AbsentRow EXCEPT !.status = IF free THEN "inactive" ELSE "pending_payment",
                              !.kind = "pass", !.free = free]
    <3>1. row.kind = "pass" /\ row.status \in {"pending_payment", "inactive"}
      BY DEF AbsentRow
    <3>2. /\ tickets[t].status = "absent" /\ UNCHANGED spent
          /\ tickets' = [tickets EXCEPT ![t] = row]
      BY <2>2 DEF CreateLongTerm
    <3> HIDE DEF row
    <3>3. JustSold(row)
      BY <3>1 DEF JustSold, Phase
    <3> QED BY <3>1, <3>2, <3>3
  <2> QED BY <2>1, <2>2 DEF Purchase, Kinds, ShortTerm
<1>2. /\ tickets[t].status = "absent" /\ UNCHANGED spent
      /\ tickets'[t].kind = k /\ JustSold(tickets'[t])
      /\ \A u \in Tickets \ {t} : tickets'[u] = tickets[u]
  BY <1>1 DEF TypeOK
<1>3. /\ phases' = [phases EXCEPT ![t] = Phase(tickets'[t])] /\ kinds' = [kinds EXCEPT ![t] = k]
      /\ phases[t] = "unsold" /\ k \in Contract!Kinds
  BY <1>2, OnlyOne DEF phases, Phase, Kinds, ShortTerm, Contract!Kinds, Contract!ShortTerm
<1>4. Contract!Sell(t, k)
  BY <1>2, <1>3 DEF JustSold, phases, kinds, Contract!Sell, Contract!Move
<1> QED BY <1>3, <1>4 DEF Contract!Next, Contract!LenientNext

\* A handler moves its ticket as the contract allows, or grants one ride of it.
LEMMA HandlerKeepsContract ==
    ASSUME TypeOK, TypeOK', SerialInv, NEW j \in jobs, Step(j)
    PROVE  [Contract!LenientNext]_(Contract!cvars)
<1> DEFINE t == j.ticket
           old == tickets[t]
           new == tickets'[t]
<1>0. /\ t \in Tickets /\ old \in Row /\ Knows(j) /\ Sound(old) /\ HasRow(t)
      /\ old.uses = spent[t] /\ old.uses \in Nat /\ j.mem.uses \in Nat
      /\ old.kind \in {"oneway", "return", "pass"} /\ old.status \in RowStatuses
      /\ j.op \in Ops
  BY JobParts DEF SerialInv, LedgerExact, Knows, TypeOK, Row, Kinds, ShortTerm, HasRow, Job
<1>1. /\ \A u \in Tickets \ {t} : tickets'[u] = tickets[u]
      /\ new = old \/ WrittenBy(j, t)
      /\ j.pc = "write" => WrittenBy(j, t)
  BY <1>0, HandlerRows DEF WrittenBy
<1>2. /\ Grants(j) => spent' = [spent EXCEPT ![t] = @ + 1] /\ j.pc = "write"
      /\ ~Grants(j) => UNCHANGED spent
  BY <1>0, HandlerSpent DEF Grants, Knows
<1>3. CASE new = old /\ ~Grants(j)
  BY <1>0, <1>1, <1>2, <1>3, MoveOne
<1>4. CASE WrittenBy(j, t)
  <2>0. new.kind = old.kind
    BY <1>4 DEF WrittenBy, SameTicket
  \* What is left to show of a handler that grants nothing.
  <2>a. ASSUME ~Grants(j),
               \/ Phase(new) = Phase(old)
               \/ Phase(old) = "reserved" /\ Phase(new) = "paid"
               \/ Phase(old) \in {"reserved", "paid"} /\ Phase(new) = "valid"
               \/ Phase(old) = "valid" /\ Phase(new) = "closed"
               \/ Phase(old) \in {"reserved", "paid", "valid", "closed"} /\ Phase(new) = "void"
        PROVE  [Contract!LenientNext]_(Contract!cvars)
    BY <1>0, <1>1, <1>2, <2>0, <2>a, MoveOne
  <2>1. CASE Completing(j)
    <3>1. old.status = "pending_payment" /\ new.status \in {"active", "inactive"}
      BY <1>0, <1>4, <2>1 DEF Knows, WrittenBy, NewStatus, Completing, UseOps
    <3>2. ~Grants(j)
      BY <2>1 DEF Grants, Completing, UseOps
    <3> QED BY <2>a, <3>1, <3>2 DEF Phase
  <2>2. CASE j.op = "cancelTicket"
    <3>1. old.status \notin {"used", "cancelled"} /\ new.status = "cancelled"
      BY <1>0, <1>4, <2>2 DEF Knows, WrittenBy, NewStatus, Completing, UseOps
    <3>2. ~Grants(j)
      BY <2>2 DEF Grants, UseOps
    <3>3. Phase(old) \in {"reserved", "paid", "valid", "closed"} /\ Phase(new) = "void"
      BY <1>0, <3>1 DEF Phase, RowStatuses, ValidStatuses
    <3> QED BY <2>a, <3>2, <3>3
  <2>3. CASE j.op = "updateTicketStatus"
    <3>1. j.to \in ValidTransitions(old.status) /\ new.status = j.to
      BY <1>0, <1>4, <2>3 DEF Knows, WrittenBy, NewStatus, Completing, UseOps, ValidTransitions
    <3>2. CASE j.to = "used"
      <4>1. old.status = "active" /\ new.status = "used"
        BY <3>1, <3>2 DEF ValidTransitions
      <4>2. Phase(old) = "valid" /\ Phase(new) = "closed"
        BY <4>1 DEF Phase
      <4>3. Spare(old)
        BY <1>0, <4>1 DEF Sound
      <4>4. spent' = [spent EXCEPT ![t] = @ + 1]
        BY <1>2, <2>3, <3>2 DEF Grants
      <4> QED BY <1>0, <1>1, <2>0, <4>2, <4>3, <4>4, GrantOne
    <3>3. CASE j.to # "used"
      <4>1. ~Grants(j)
        BY <2>3, <3>3 DEF Grants, UseOps
      <4>2. \/ old.status \in {"pending_payment", "inactive"} /\ new.status = "active"
            \/ old.status = "active" /\ new.status = "expired"
            \/ /\ old.status \in {"pending_payment", "inactive", "active", "used", "expired"}
               /\ new.status = "cancelled"
        BY <3>1, <3>3 DEF ValidTransitions
      <4> QED BY <2>a, <4>1, <4>2 DEF Phase
    <3> QED BY <3>2, <3>3
  <2>4. CASE j.op = "activateTicket"
    <3>1. old.status = "inactive" /\ new.status = "active"
      BY <1>0, <1>4, <2>4 DEF Knows, WrittenBy, NewStatus, Completing, UseOps
    <3>2. ~Grants(j)
      BY <2>4 DEF Grants, UseOps
    <3> QED BY <2>a, <3>1, <3>2 DEF Phase
  <2>5. CASE j.op \in UseOps /\ j.pc = "write"
    <3>1. /\ j.mem.status = old.status /\ j.mem.kind = old.kind /\ j.mem.uses = old.uses
          /\ old.status \notin {"used", "cancelled", "expired"}
          /\ old.kind = "return" => old.uses < 2
          /\ old.kind = "pass" => old.status \in {"active", "abused"}
      BY <1>0, <2>5 DEF Knows
    <3>2. new.status = IF LastUse(old) THEN "used" ELSE old.status
      BY <1>4, <2>5, <3>1 DEF WrittenBy, NewStatus, Completing, UseOps, LastUse
    <3>3. Spare(old)
      BY <1>0, <3>1 DEF Sound, Spare, RowStatuses, ValidStatuses
    <3>4. \/ Phase(old) = "valid"
          \/ Phase(old) \in {"reserved", "paid"} /\ old.kind # "pass"
      BY <1>0, <3>1, <3>3 DEF Phase, Sound, Spare, RowStatuses, ValidStatuses
    <3>5. Phase(new) = IF LastUse(old) THEN "closed" ELSE Phase(old)
      BY <1>0, <2>0, <3>2 DEF Phase, RowStatuses, ValidStatuses
    <3>6. spent' = [spent EXCEPT ![t] = @ + 1]
      BY <1>2, <2>5 DEF Grants
    <3> QED BY <1>0, <1>1, <2>0, <3>3, <3>4, <3>5, <3>6, GrantOne
  <2>6. CASE j.pc \in {"track", "relock"}
    <3>1. j.op \in UseOps /\ j.mem.status = old.status /\ j.mem.uses = old.uses
      BY <1>0, <2>6 DEF Knows, Ops
    <3>2. old.uses >= 2
      BY <1>0, <1>4, <2>6, <3>1 DEF WrittenBy, Knows, Suspicious, Completing, UseOps
    <3>3. new.status = "abused"
      BY <1>4, <2>6, <3>1 DEF WrittenBy, NewStatus, Completing, UseOps
    <3>4. Phase(new) = Phase(old)
      BY <1>0, <2>0, <2>6, <3>1, <3>2, <3>3 DEF Phase, Knows, Sound
    <3>5. ~Grants(j)
      BY <2>6, <3>1 DEF Grants, UseOps
    <3> QED BY <2>a, <3>4, <3>5
  <2> QED BY <1>4, <2>1, <2>2, <2>3, <2>4, <2>5, <2>6 DEF WrittenBy
<1> QED BY <1>1, <1>2, <1>3, <1>4

\* Every step of handlers one at a time is a step of the contract, or none of it.
LEMMA KeepsContract ==
    ASSUME TypeOK, TypeOK', SerialInv, [SerialNext]_vars
    PROVE  [Contract!LenientNext]_(Contract!cvars)
<1>0. OneAtWork
  BY DEF SerialInv
<1>1. CASE Alone /\ Arrive
  <2>1. UNCHANGED spent
    BY <1>1, SerialArrive
  <2>2. CASE UNCHANGED tickets
    BY <2>1, <2>2 DEF Contract!cvars
  <2>3. ASSUME NEW t \in Tickets, DeleteTicket(t)
        PROVE  [Contract!LenientNext]_(Contract!cvars)
    <3>0. tickets[t] \in Row /\ HasRow(t)
      BY <2>3 DEF DeleteTicket, TypeOK
    <3>1. tickets'[t] = [tickets[t] EXCEPT !.status = "deleted"]
          /\ \A u \in Tickets \ {t} : tickets'[u] = tickets[u]
      BY <2>3 DEF DeleteTicket, TypeOK
    <3>2. tickets'[t].status = "deleted" /\ tickets'[t].kind = tickets[t].kind
      BY <3>0, <3>1 DEF Row
    <3>3. /\ Phase(tickets[t]) \in {"reserved", "paid", "valid", "closed", "void"}
          /\ Phase(tickets'[t]) = "gone"
      BY <3>0, <3>2 DEF Phase, HasRow, NoRow, Row, RowStatuses, ValidStatuses
    <3> QED BY <2>1, <3>1, <3>2, <3>3, MoveOne
  <2>4. \/ UNCHANGED tickets
        \/ \E t \in Tickets : Purchase(t) \/ DeleteTicket(t)
    BY <1>1 DEF Arrive, Request, CancelTicket, UpdateTicketStatus, ActivateTicket,
       UseTicket, UseTicketByQRCode, Deliver, HandleCompleted, HandleNotPaid, CronScan,
       ExpireScan
  <2> QED BY <2>2, <2>3, <2>4, PurchaseSells
<1>2. ASSUME NEW t \in Tickets, CronActivate(t)
      PROVE  [Contract!LenientNext]_(Contract!cvars)
  <2>0. tickets[t] \in Row /\ t \in cronDue /\ tickets[t].status = "inactive"
    BY <1>2 DEF CronActivate, TypeOK, SerialInv
  <2> DEFINE new == [tickets[t] EXCEPT !.status = "active", !.validity = "running"]
  <2>1. new.status = "active" /\ new.kind = tickets[t].kind
    BY <2>0 DEF Row
  <2>2. UNCHANGED spent /\ (UNCHANGED tickets \/ Store(t, new))
    BY <1>2 DEF CronActivate
  <2> HIDE DEF new
  <2>3. /\ \A u \in Tickets \ {t} : tickets'[u] = tickets[u]
        /\ tickets'[t] = tickets[t] \/ tickets'[t] = new
    BY <2>2, StoredRow
  <2>4. /\ tickets'[t].kind = tickets[t].kind
        /\ \/ Phase(tickets'[t]) = Phase(tickets[t])
           \/ Phase(tickets[t]) = "paid" /\ Phase(tickets'[t]) = "valid"
    BY <2>0, <2>1, <2>3 DEF Phase
  <2> QED BY <2>2, <2>3, <2>4, MoveOne
<1>3. CASE ExpireWrite
  <2>1. expiring \subseteq Tickets /\ \A t \in expiring : tickets[t].status = "active"
    BY DEF TypeOK, SerialInv
  <2>2. \A t \in expiring : HasRow(t)
    BY <2>1 DEF HasRow, NoRow
  <2>3. /\ UNCHANGED spent
        /\ \A t \in Tickets : tickets'[t] = IF t \in expiring
                                            THEN [tickets[t] EXCEPT !.status = "expired"]
                                            ELSE tickets[t]
    BY <1>3, <2>2 DEF ExpireWrite
  <2>4. \A t \in Tickets : /\ tickets'[t].kind = tickets[t].kind
                           /\ t \in expiring => tickets'[t].status = "expired"
    BY <2>3 DEF TypeOK, Row
  <2>5. \A t \in expiring : Phase(tickets[t]) = "valid" /\ Phase(tickets'[t]) = "closed"
    BY <2>1, <2>4 DEF Phase
  <2>6. /\ phases' = [t \in Tickets |-> IF t \in expiring THEN "closed" ELSE phases[t]]
        /\ UNCHANGED kinds /\ \A t \in expiring : phases[t] = "valid"
    BY <2>1, <2>3, <2>4, <2>5 DEF phases, kinds
  <2>7. Contract!Close(expiring)
    BY <2>3, <2>6 DEF phases, kinds, Contract!Close
  <2> QED BY <2>1, <2>7 DEF Contract!Next, Contract!LenientNext
<1>4. CASE Quiet
  <2>1. \A t \in Tickets : Phase(tickets'[t]) = Phase(tickets[t])
    BY <1>4 DEF Quiet, Phase
  <2> QED BY <1>4, <2>1 DEF Quiet, Contract!cvars
<1> QED BY <1>0, <1>1, <1>2, <1>3, <1>4, HandlerKeepsContract, SerialSteps

\* One handler at a time, the rows and handlers of ticket-service implement the
\* contract of a ticket with its one exception, a short-term ticket that rides before it
\* is paid: every step is a step of that contract, or none of it.
THEOREM KeepsTheContract == SerialSpec => ImplementsContract
<1>1. Init => Contract!Init
  BY DEF Init, AbsentRow, Phase, Contract!Init, Contract!Kinds, Contract!ShortTerm
<1>2. TypeOK /\ TypeOK' /\ SerialInv /\ [SerialNext]_vars => [Contract!LenientNext]_(Contract!cvars)
  BY KeepsContract
<1> QED BY <1>1, <1>2, SerialTypes, PTL DEF SerialSpec, ImplementsContract, Contract!LenientSpec
=============================================================================
