------------------------- MODULE PaymentSettlement -------------------------
(***************************************************************************)
(* The payments of one ticket in the payment service: the row made from    *)
(* ticket.created, further rows from the SePay order route, the capture of *)
(* a PayPal order, and the two consumers that settle rows from what the    *)
(* webhook service publishes.  Each consumer may stop at any await and     *)
(* gets again what it had not committed.                                   *)
(***************************************************************************)
EXTENDS Naturals, Sequences

CONSTANTS
    Payments,      \* paymentIds of the ticket
    Bought,        \* the one in ticket.created
    MaxNotices     \* bound: notifications of the providers

ASSUME BoughtAssumption == Bought \in Payments

VARIABLES
    method,        \* how Bought is paid
    amount,        \* what each payment asks for
    rows,          \* the payments table: status
    queue,         \* per topic, what is not committed yet
    handled,       \* per topic, how much of it was handled
    jobs,          \* per worker, what it does and what it read
    offered,       \* payments whose QR code or link reached the passenger
    captured,      \* PayPal has captured the order
    received,      \* history: what the providers notified
    notices,       \* history: how often
    announced,     \* history: outcomes published, with their payment
    sound          \* history: no worker stopped, no call of theirs failed

vars == <<method, amount, rows, queue, handled, jobs, offered, captured,
          received, notices, announced, sound>>

Statuses == {"none", "pending", "approved", "completed", "failed"}
Topics == {"created", "sepay", "paypal"}
Workers == Topics \cup {"http"}
Steps == {"idle", "insert", "order", "link", "fallback", "announce", "fail",
          "find", "save", "write", "publish"}
Amounts == {"price", "other", "usd"}
Outcomes == {"completed", "failed"}

\* SePay notifies an amount, PayPal the fate of a capture.
Transfers == {"price", "other"}
Captures == {"completed", "denied"}

Job == [at     : Steps,
        pay    : Payments,
        seen   : Statuses,         \* in the row it read
        target : Statuses]         \* the status it is to write

Idle == [at |-> "idle", pay |-> Bought, seen |-> "none", target |-> "none"]

TypeOK ==
    /\ method \in {"sepay", "paypal", "other"}
    /\ amount \in [Payments -> Amounts]
    /\ rows \in [Payments -> Statuses]
    /\ queue \in [Topics -> Seq({Bought} \cup Transfers \cup Captures)]
    /\ handled \in [Topics -> Nat]
    /\ jobs \in [Workers -> Job]
    /\ offered \in SUBSET Payments
    /\ captured \in BOOLEAN
    /\ received \in SUBSET (Transfers \cup Captures)
    /\ notices \in Nat
    /\ announced \in SUBSET (Outcomes \X Payments)
    /\ sound \in BOOLEAN

Init ==
    /\ method \in {"sepay", "paypal", "other"}
    /\ amount \in [Payments -> Amounts]
    /\ amount[Bought] = IF method = "paypal" THEN "usd" ELSE "price"
    /\ \A p \in Payments \ {Bought} : amount[p] # "usd"
    /\ rows = [p \in Payments |-> "none"]
    /\ queue = [t \in Topics |-> IF t = "created" THEN <<Bought>> ELSE <<>>]
    /\ handled = [t \in Topics |-> 0]
    /\ jobs = [w \in Workers |-> Idle]
    /\ offered = {}
    /\ captured = FALSE
    /\ received = {}
    /\ notices = 0
    /\ announced = {}
    /\ sound = TRUE

-----------------------------------------------------------------------------
(* Helpers.                                                                *)

At(w, pc) == jobs[w].at = pc
Goto(w, pc) == jobs' = [jobs EXCEPT ![w].at = pc]
Begin(w, pc, p, target) ==
    jobs' = [jobs EXCEPT ![w] = [at |-> pc, pay |-> p, seen |-> rows[p], target |-> target]]

\* eachMessage returned: its offset will be committed some time.
Return(t) ==
    /\ jobs' = [jobs EXCEPT ![t] = Idle]
    /\ handled' = [handled EXCEPT ![t] = @ + 1]

\* The consumer is free and its next message is m.
Receives(t, m) ==
    /\ At(t, "idle")
    /\ handled[t] < Len(queue[t])
    /\ m = queue[t][handled[t] + 1]

SetStatus(p, status) == rows' = [rows EXCEPT ![p] = status]
Announce(outcome, p) == announced' = announced \cup {<<outcome, p>>}
Answers == sound' = sound
Breaks == sound' = FALSE

Given == UNCHANGED <<method, amount>>
Provider == UNCHANGED <<captured, received, notices>>

-----------------------------------------------------------------------------
(* ticket.created: handleTicketCreated and its strategies.                 *)

\* The default strategy asks for a paymentMethod that the handler never passes.
TakeCreated ==
    /\ \E p \in Payments : Receives("created", p)
    /\ Begin("created", IF method = "other" THEN "fail" ELSE "insert", Bought, "none")
    /\ UNCHANGED <<rows, queue, handled, offered, announced, sound>> /\ Given /\ Provider

\* SePay's createQr: row and log in one transaction, then the QR code's URL.
CreateQr ==
    /\ At("created", "insert") /\ method = "sepay"
    /\ \/ Answers /\ rows[Bought] = "none" /\ SetStatus(Bought, "pending") /\ Goto("created", "link")
       \/ Answers /\ rows[Bought] # "none" /\ UNCHANGED rows /\ Goto("created", "fail")
       \/ Breaks /\ UNCHANGED rows /\ Goto("created", "fail")
    /\ UNCHANGED <<queue, handled, offered, announced>> /\ Given /\ Provider

\* processPayment of SePay stores the code, and PENDING with it.
LinkQr ==
    /\ At("created", "link")
    /\ \/ Answers /\ SetStatus(Bought, "pending") /\ Goto("created", "announce")
       \/ Breaks /\ UNCHANGED rows /\ Goto("created", "fail")
    /\ UNCHANGED <<queue, handled, offered, announced>> /\ Given /\ Provider

\* createPaypalPayment: the row and PayPal's order side by side.
CreatePaypal ==
    /\ At("created", "insert") /\ method = "paypal"
    /\ \/ Answers /\ rows[Bought] = "none" /\ SetStatus(Bought, "pending") /\ Goto("created", "order")
       \/ Answers /\ rows[Bought] # "none" /\ UNCHANGED rows /\ Goto("created", "fail")
       \/ /\ Breaks
          /\ UNCHANGED rows \/ (rows[Bought] = "none" /\ SetStatus(Bought, "pending"))
          /\ \E pc \in {"fallback", "fail"} : Goto("created", pc)
    /\ UNCHANGED <<queue, handled, offered, announced>> /\ Given /\ Provider

\* Its log and the order's id in the row; the status is not written.
SaveOrder ==
    /\ At("created", "order")
    /\ \/ Answers /\ Goto("created", "announce")
       \/ Breaks /\ \E pc \in {"fallback", "fail"} : Goto("created", pc)
    /\ UNCHANGED <<rows, queue, handled, offered, announced>> /\ Given /\ Provider

\* handlePayPalFallback after a timeout: a row without a link.
Fallback ==
    /\ At("created", "fallback")
    /\ \/ /\ Answers
          /\ IF rows[Bought] = "none" THEN SetStatus(Bought, "pending") ELSE UNCHANGED rows
          /\ Return("created")
       \/ /\ Breaks
          /\ UNCHANGED rows \/ (rows[Bought] = "none" /\ SetStatus(Bought, "pending"))
          /\ UNCHANGED handled /\ Goto("created", "fail")
    /\ UNCHANGED <<queue, offered, announced>> /\ Given /\ Provider

\* Mutant: the message's offset is not resolved.
AnnounceReady_Unresolved ==
    /\ At("created", "announce")
    /\ offered' = offered \cup {Bought}
    /\ jobs' = [jobs EXCEPT !["created"] = Idle]
    /\ UNCHANGED <<rows, queue, handled, announced, sound>> /\ Given /\ Provider

\* ticket.payment_ready with the code or link; SePay does without it, PayPal fails.
AnnounceReady ==
    /\ At("created", "announce")
    /\ \/ Answers /\ offered' = offered \cup {Bought} /\ Return("created")
       \/ /\ Breaks
          /\ offered' \in {offered, offered \cup {Bought}}
          /\ \/ method = "sepay" /\ Return("created")
             \/ method = "paypal" /\ UNCHANGED handled
                /\ \E pc \in {"fallback", "fail"} : Goto("created", pc)
    /\ UNCHANGED <<rows, queue, announced>> /\ Given /\ Provider

\* publishPaymentFailed; the row stays as it is, and so if that fails, too.
AnnounceFailure ==
    /\ At("created", "fail")
    /\ \/ Answers /\ Announce("failed", Bought)
       \/ Breaks /\ (UNCHANGED announced \/ Announce("failed", Bought))
    /\ Return("created")
    /\ UNCHANGED <<rows, queue, offered>> /\ Given /\ Provider

-----------------------------------------------------------------------------
(* HTTP routes.                                                            *)

\* createSepayOrder: one more row for the ticket, of the amount the caller names.
\* Its QR code is in the answer, unless publishing payment.initiated fails.
CreateSepayOrder(p) ==
    /\ p # Bought /\ rows[p] = "none"
    /\ SetStatus(p, "pending")
    /\ offered' \in {offered, offered \cup {p}}
    /\ UNCHANGED <<queue, handled, jobs, announced, sound>> /\ Given /\ Provider

\* capturePayment: an approved order is captured; only an immediate success makes
\* the payment APPROVED.
CaptureOrder ==
    /\ At("http", "idle")
    /\ method = "paypal" /\ Bought \in offered /\ ~captured
    /\ captured' = TRUE
    /\ \E status \in {"approved", "failed"} : Begin("http", "find", Bought, status)
    /\ UNCHANGED <<rows, queue, handled, offered, received, notices, announced, sound>> /\ Given

\* Mutant: the row is looked up whatever its status.
FindCaptured_AnyStatus ==
    /\ At("http", "find")
    /\ Goto("http", "save")
    /\ UNCHANGED <<rows, queue, handled, offered, announced, sound>> /\ Given /\ Provider

\* The PENDING row with the order's id, or an exception.
FindCaptured ==
    /\ At("http", "find")
    /\ Goto("http", IF rows[Bought] = "pending" THEN "save" ELSE "idle")
    /\ UNCHANGED <<rows, queue, handled, offered, announced, sound>> /\ Given /\ Provider

\* Saved from that copy, whatever the row has become.
SaveCapture ==
    /\ At("http", "save")
    /\ SetStatus(Bought, jobs["http"].target)
    /\ Goto("http", "idle")
    /\ UNCHANGED <<queue, handled, offered, announced, sound>> /\ Given /\ Provider

-----------------------------------------------------------------------------
(* What the providers notify, through the webhook service.                 *)

Notify(t, notice) ==
    /\ notices < MaxNotices
    /\ notices' = notices + 1
    /\ received' = received \cup {notice}
    /\ queue' = [queue EXCEPT ![t] = Append(@, notice)]
    /\ UNCHANGED <<rows, handled, jobs, offered, captured, announced, sound>> /\ Given

\* A passenger with one of SePay's codes transfers some amount for the ticket.
Transfer(sum) ==
    /\ \E p \in offered : p = Bought => method = "sepay"
    /\ Notify("sepay", sum)

\* PAYMENT.CAPTURE.COMPLETED or DENIED, in any order.
PayPalNotifies(fate) == captured /\ Notify("paypal", fate)

-----------------------------------------------------------------------------
(* The consumer of sepay.webhook.event.                                    *)

\* Mutant: no comparison with the amount of the payment.
TakeTransfer_AnyAmount(sum, p) ==
    /\ Receives("sepay", sum)
    /\ rows[p] # "none"
    /\ IF rows[p] # "completed"
       THEN Begin("sepay", "write", p, "completed") /\ UNCHANGED handled
       ELSE Return("sepay")
    /\ UNCHANGED <<rows, queue, offered, announced, sound>> /\ Given /\ Provider

\* The transfer names the ticket: findOne returns any payment of it, PayPal's, too.
\* Nothing is done about another amount or a payment that is COMPLETED.
TakeTransfer(sum, p) ==
    /\ Receives("sepay", sum)
    /\ rows[p] # "none"
    /\ IF amount[p] = sum /\ rows[p] # "completed"
       THEN Begin("sepay", "write", p, "completed") /\ UNCHANGED handled
       ELSE Return("sepay")
    /\ UNCHANGED <<rows, queue, offered, announced, sound>> /\ Given /\ Provider

\* COMPLETED, whatever the row has become.
CompleteTransfer ==
    /\ At("sepay", "write")
    /\ SetStatus(jobs["sepay"].pay, "completed")
    /\ Goto("sepay", "publish")
    /\ UNCHANGED <<queue, handled, offered, announced, sound>> /\ Given /\ Provider

\* Transaction, log and payment.completed.
PublishTransfer ==
    /\ At("sepay", "publish")
    /\ Announce("completed", jobs["sepay"].pay)
    /\ Return("sepay")
    /\ UNCHANGED <<rows, queue, offered, sound>> /\ Given /\ Provider

-----------------------------------------------------------------------------
(* The consumer of paypal.webhook.event.                                   *)

\* Mutant: as SePay's consumer, nothing is done about a COMPLETED payment.
TakeCapture_OnlyNew(fate) ==
    /\ Receives("paypal", fate)
    /\ IF rows[Bought] \notin {"none", "completed"}
       THEN /\ Begin("paypal", "write", Bought, IF fate = "completed" THEN fate ELSE "failed")
            /\ UNCHANGED handled
       ELSE Return("paypal")
    /\ UNCHANGED <<rows, queue, offered, announced, sound>> /\ Given /\ Provider

\* The capture's custom_id is the payment's id.  Its status is not looked at.
TakeCapture(fate) ==
    /\ Receives("paypal", fate)
    /\ IF rows[Bought] # "none"
       THEN /\ Begin("paypal", "write", Bought, IF fate = "completed" THEN fate ELSE "failed")
            /\ UNCHANGED handled
       ELSE Return("paypal")
    /\ UNCHANGED <<rows, queue, offered, announced, sound>> /\ Given /\ Provider

\* update of the instance: the status is sent only if it differs from the copy's.
WriteCapture ==
    LET job == jobs["paypal"] IN
    /\ At("paypal", "write")
    /\ rows' = IF job.seen = job.target THEN rows ELSE [rows EXCEPT ![Bought] = job.target]
    /\ Goto("paypal", "publish")
    /\ UNCHANGED <<queue, handled, offered, announced, sound>> /\ Given /\ Provider

PublishCapture ==
    /\ At("paypal", "publish")
    /\ Announce(jobs["paypal"].target, Bought)
    /\ Return("paypal")
    /\ UNCHANGED <<rows, queue, offered, sound>> /\ Given /\ Provider

-----------------------------------------------------------------------------
(* Offsets, and what makes a worker stop.                                  *)

\* The first handled message of a topic is committed.
Commit(t) ==
    /\ handled[t] > 0
    /\ queue' = [queue EXCEPT ![t] = Tail(@)]
    /\ handled' = [handled EXCEPT ![t] = @ - 1]
    /\ UNCHANGED <<rows, jobs, offered, announced, sound>> /\ Given /\ Provider

\* A crash, an exception of a hook consumer, a rebalance: the worker's messages come
\* again, the committed ones excepted.  A crash of the service stops all workers,
\* one by one here: they share nothing but the table.
Stop(w) ==
    /\ ~At(w, "idle") \/ (w \in Topics /\ handled[w] > 0)
    /\ jobs' = [jobs EXCEPT ![w] = Idle]
    /\ handled' = [t \in Topics |-> IF t = w THEN 0 ELSE handled[t]]
    /\ Breaks
    /\ UNCHANGED <<rows, queue, offered, announced>> /\ Given /\ Provider

TicketStep ==
    \/ TakeCreated \/ CreateQr \/ LinkQr \/ CreatePaypal \/ SaveOrder
    \/ Fallback \/ AnnounceReady \/ AnnounceFailure

SepayStep ==
    \/ \E sum \in Transfers, p \in Payments : TakeTransfer(sum, p)
    \/ CompleteTransfer \/ PublishTransfer

PaypalStep == (\E fate \in Captures : TakeCapture(fate)) \/ WriteCapture \/ PublishCapture

HttpStep == FindCaptured \/ SaveCapture

Next ==
    \/ TicketStep \/ SepayStep \/ PaypalStep \/ HttpStep
    \/ \E p \in Payments : CreateSepayOrder(p)
    \/ CaptureOrder
    \/ \E sum \in Transfers : Transfer(sum)
    \/ \E fate \in Captures : PayPalNotifies(fate)
    \/ \E t \in Topics : Commit(t)
    \/ \E w \in Workers : Stop(w)

Spec == Init /\ [][Next]_vars

-----------------------------------------------------------------------------
(* Whatever stops and fails.                                               *)

\* What the provider must have notified for a payment to be paid.
Worth(p) == IF p = Bought /\ method = "paypal" THEN "completed" ELSE amount[p]

\* No row is COMPLETED, and payment.completed is not published, for a payment whose
\* provider never notified its full amount: whichever of the ticket's rows a transfer
\* is booked on, and however often messages come.
CompletedWasPaid ==
    \A p \in Payments :
       rows[p] = "completed" \/ <<"completed", p>> \in announced => Worth(p) \in received

\* A completed payment is announced.  A PayPal payment's message stays in the topic
\* until it is, so that the service may stop between the update and the publish;
\* SePay's consumer skips a COMPLETED row, and its promise ends with the first stop.
CompletedIsAnnounced ==
    \A p \in Payments :
       rows[p] = "completed" =>
          \/ <<"completed", p>> \in announced
          \/ IF Worth(p) = "completed"
             THEN \E i \in 1..Len(queue["paypal"]) : queue["paypal"][i] = "completed"
             ELSE ~sound \/ (At("sepay", "publish") /\ jobs["sepay"].pay = p)

-----------------------------------------------------------------------------
(* Once completed.                                                         *)

\* Nobody is about to write the row from what it knew before: no QR code to be
\* linked, no capture to be saved, no denial to be booked.
Quiet(p) ==
    /\ \A w \in Workers :
          jobs[w].pay = p => ~At(w, "link") /\ ~At(w, "save")
                             /\ (At(w, "write") => jobs[w].target = "completed")
    /\ "denied" \notin received

Settled(p) == rows[p] = "completed" /\ Quiet(p)

\* Then a completed payment stays completed, and nobody begins to write it otherwise,
\* as long as PayPal denies nothing: a redelivered ticket.created, a late capture or
\* a second transfer do not reopen it.
CompletedStaysWhenQuiet ==
    [][\A p \in Payments : Settled(p) /\ "denied" \notin received' => Settled(p)']_vars

=============================================================================
