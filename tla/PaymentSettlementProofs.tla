----------------------- MODULE PaymentSettlementProofs -----------------------
(***************************************************************************)
(* Theorems about PaymentSettlement and TicketSale, for any number of      *)
(* payments of the ticket and of notifications.                            *)
(***************************************************************************)
EXTENDS TicketSale, TLAPS, SequenceTheorems

Notices == {Bought} \cup Transfers \cup Captures

LEMMA TypeInit == Init => TypeOK
<1> SUFFICES ASSUME Init PROVE TypeOK
  OBVIOUS
<1>1. <<Bought>> \in Seq(Notices) /\ <<>> \in Seq(Notices)
  BY DEF Notices
<1>2. queue \in [Topics -> Seq(Notices)]
  BY <1>1 DEF Init
<1>3. Idle \in Job
  BY BoughtAssumption DEF Idle, Job, Steps, Statuses
<1> QED BY <1>2, <1>3 DEF Init, TypeOK, Notices, Statuses

\* What a worker is about to write: only PayPal's consumer publishes what it wrote.
Targets ==
    /\ jobs["paypal"].at \in {"write", "publish"} => jobs["paypal"].target \in Outcomes
    /\ jobs["http"].target # "completed"

LEMMA TypeGoto ==
    ASSUME TypeOK, NEW w \in Workers, NEW pc \in Steps, Goto(w, pc)
    PROVE  jobs' \in [Workers -> Job]
BY DEF TypeOK, Goto, Job

LEMMA TypeBegin ==
    ASSUME TypeOK, NEW w \in Workers, NEW pc \in Steps, NEW p \in Payments,
           NEW target \in Statuses, Begin(w, pc, p, target)
    PROVE  jobs' \in [Workers -> Job]
BY DEF TypeOK, Begin, Job

LEMMA TypeReturn ==
    ASSUME TypeOK, NEW t \in Topics, Return(t)
    PROVE  jobs' \in [Workers -> Job] /\ handled' \in [Topics -> Nat]
<1>1. Idle \in Job /\ t \in Workers
  BY BoughtAssumption DEF Idle, Job, Steps, Statuses, Workers
<1> QED BY <1>1 DEF TypeOK, Return

LEMMA TypeSet ==
    ASSUME TypeOK, NEW p \in Payments, NEW status \in Statuses, SetStatus(p, status)
    PROVE  rows' \in [Payments -> Statuses]
BY DEF TypeOK, SetStatus

LEMMA TypeAnnounce ==
    ASSUME TypeOK, NEW outcome \in Outcomes, NEW p \in Payments, Announce(outcome, p)
    PROVE  announced' \in SUBSET (Outcomes \X Payments)
BY DEF TypeOK, Announce

LEMMA TypeSound == ASSUME TypeOK, Answers \/ Breaks PROVE sound' \in BOOLEAN
BY DEF TypeOK, Answers, Breaks

LEMMA Words ==
    /\ Bought \in Payments
    /\ "created" \in Topics /\ "sepay" \in Topics /\ "paypal" \in Topics
    /\ "created" \in Workers /\ "sepay" \in Workers /\ "paypal" \in Workers
    /\ "http" \in Workers
    /\ "completed" \in Outcomes /\ "failed" \in Outcomes
    /\ {"none", "pending", "approved", "completed", "failed"} \subseteq Statuses
BY BoughtAssumption DEF Topics, Workers, Outcomes, Statuses

LEMMA TypeTicket == ASSUME TypeOK, TicketStep PROVE TypeOK'
<1>1. CASE TakeCreated
  <2>1. jobs' \in [Workers -> Job]
    BY <1>1, Words, TypeBegin DEF TakeCreated, Steps, Statuses, TypeOK
  <2> QED BY <1>1, <2>1 DEF TakeCreated, Given, Provider, TypeOK
<1>2. CASE CreateQr
  <2>1. jobs' \in [Workers -> Job] /\ rows' \in [Payments -> Statuses] /\ sound' \in BOOLEAN
    BY <1>2, Words, TypeGoto, TypeSet, TypeSound DEF CreateQr, Steps, TypeOK
  <2> QED BY <1>2, <2>1 DEF CreateQr, Given, Provider, TypeOK
<1>3. CASE LinkQr
  <2>1. jobs' \in [Workers -> Job] /\ rows' \in [Payments -> Statuses] /\ sound' \in BOOLEAN
    BY <1>3, Words, TypeGoto, TypeSet, TypeSound DEF LinkQr, Steps, TypeOK
  <2> QED BY <1>3, <2>1 DEF LinkQr, Given, Provider, TypeOK
<1>4. CASE CreatePaypal
  <2>1. jobs' \in [Workers -> Job] /\ rows' \in [Payments -> Statuses] /\ sound' \in BOOLEAN
    BY <1>4, Words, TypeGoto, TypeSet, TypeSound DEF CreatePaypal, Steps, TypeOK
  <2> QED BY <1>4, <2>1 DEF CreatePaypal, Given, Provider, TypeOK
<1>5. CASE SaveOrder
  <2>1. jobs' \in [Workers -> Job] /\ sound' \in BOOLEAN
    BY <1>5, Words, TypeGoto, TypeSound DEF SaveOrder, Steps, TypeOK
  <2> QED BY <1>5, <2>1 DEF SaveOrder, Given, Provider, TypeOK
<1>6. CASE Fallback
  <2>1. /\ jobs' \in [Workers -> Job] /\ handled' \in [Topics -> Nat]
        /\ rows' \in [Payments -> Statuses] /\ sound' \in BOOLEAN
    BY <1>6, Words, TypeGoto, TypeReturn, TypeSet, TypeSound DEF Fallback, Steps, TypeOK
  <2> QED BY <1>6, <2>1 DEF Fallback, Given, Provider, TypeOK
<1>7. CASE AnnounceReady
  <2>1. /\ jobs' \in [Workers -> Job] /\ handled' \in [Topics -> Nat]
        /\ offered' \in SUBSET Payments /\ sound' \in BOOLEAN
    BY <1>7, Words, TypeGoto, TypeReturn, TypeSound DEF AnnounceReady, Steps, TypeOK
  <2> QED BY <1>7, <2>1 DEF AnnounceReady, Given, Provider, TypeOK
<1>8. CASE AnnounceFailure
  <2>1. /\ jobs' \in [Workers -> Job] /\ handled' \in [Topics -> Nat]
        /\ announced' \in SUBSET (Outcomes \X Payments) /\ sound' \in BOOLEAN
    BY <1>8, Words, TypeReturn, TypeAnnounce, TypeSound DEF AnnounceFailure, Steps, TypeOK
  <2> QED BY <1>8, <2>1 DEF AnnounceFailure, Given, Provider, TypeOK
<1> QED BY <1>1, <1>2, <1>3, <1>4, <1>5, <1>6, <1>7, <1>8 DEF TicketStep

LEMMA TypeHook == ASSUME TypeOK, Targets, SepayStep \/ PaypalStep \/ HttpStep PROVE TypeOK'
<1>1. ASSUME NEW sum \in Transfers, NEW p \in Payments, TakeTransfer(sum, p) PROVE TypeOK'
  <2>1. jobs' \in [Workers -> Job] /\ handled' \in [Topics -> Nat]
    BY <1>1, Words, TypeBegin, TypeReturn DEF TakeTransfer, Steps, TypeOK
  <2> QED BY <1>1, <2>1 DEF TakeTransfer, Given, Provider, TypeOK
<1>2. CASE CompleteTransfer
  <2>1. jobs["sepay"].pay \in Payments
    BY Words DEF TypeOK, Job
  <2>2. jobs' \in [Workers -> Job] /\ rows' \in [Payments -> Statuses]
    BY <1>2, <2>1, Words, TypeGoto, TypeSet DEF CompleteTransfer, Steps
  <2> QED BY <1>2, <2>2 DEF CompleteTransfer, Given, Provider, TypeOK
<1>3. CASE PublishTransfer
  <2>1. jobs["sepay"].pay \in Payments
    BY Words DEF TypeOK, Job
  <2>2. /\ jobs' \in [Workers -> Job] /\ handled' \in [Topics -> Nat]
        /\ announced' \in SUBSET (Outcomes \X Payments)
    BY <1>3, <2>1, Words, TypeReturn, TypeAnnounce DEF PublishTransfer
  <2> QED BY <1>3, <2>2 DEF PublishTransfer, Given, Provider, TypeOK
<1>4. ASSUME NEW fate \in Captures, TakeCapture(fate) PROVE TypeOK'
  <2>1. (IF fate = "completed" THEN fate ELSE "failed") \in Statuses
    BY Words
  <2>2. jobs' \in [Workers -> Job] /\ handled' \in [Topics -> Nat]
    BY <1>4, <2>1, Words, TypeBegin, TypeReturn DEF TakeCapture, Steps, TypeOK
  <2> QED BY <1>4, <2>2 DEF TakeCapture, Given, Provider, TypeOK
<1>5. CASE WriteCapture
  <2>1. jobs["paypal"].target \in Statuses
    BY Words DEF TypeOK, Job
  <2>2. jobs' \in [Workers -> Job] /\ rows' \in [Payments -> Statuses]
    BY <1>5, <2>1, Words, TypeGoto DEF WriteCapture, Steps, TypeOK
  <2> QED BY <1>5, <2>2 DEF WriteCapture, Given, Provider, TypeOK
<1>6. CASE PublishCapture
  <2>1. /\ jobs' \in [Workers -> Job] /\ handled' \in [Topics -> Nat]
    BY <1>6, Words, TypeReturn DEF PublishCapture
  <2>0. jobs["paypal"].target \in Outcomes
    BY <1>6 DEF PublishCapture, Targets, At
  <2>2. announced' \in SUBSET (Outcomes \X Payments)
    BY <1>6, <2>0, Words, TypeAnnounce DEF PublishCapture
  <2> QED BY <1>6, <2>1, <2>2 DEF PublishCapture, Given, Provider, TypeOK
<1>7. CASE FindCaptured
  <2>1. jobs' \in [Workers -> Job]
    BY <1>7, Words, TypeGoto DEF FindCaptured, Steps
  <2> QED BY <1>7, <2>1 DEF FindCaptured, Given, Provider, TypeOK
<1>8. CASE SaveCapture
  <2>1. jobs["http"].target \in Statuses
    BY Words DEF TypeOK, Job
  <2>2. jobs' \in [Workers -> Job] /\ rows' \in [Payments -> Statuses]
    BY <1>8, <2>1, Words, TypeGoto, TypeSet DEF SaveCapture, Steps
  <2> QED BY <1>8, <2>2 DEF SaveCapture, Given, Provider, TypeOK
<1> QED BY <1>1, <1>2, <1>3, <1>4, <1>5, <1>6, <1>7, <1>8
        DEF SepayStep, PaypalStep, HttpStep

LEMMA TypeNotify ==
    ASSUME TypeOK, NEW t \in Topics, NEW notice \in Transfers \cup Captures, Notify(t, notice)
    PROVE  TypeOK'
<1>1. queue' = [queue EXCEPT ![t] = Append(queue[t], notice)]
  BY DEF Notify
<1>2. queue[t] \in Seq(Notices) /\ notice \in Notices
  BY DEF TypeOK, Notices
<1>3. Append(queue[t], notice) \in Seq(Notices)
  BY <1>2, AppendProperties
<1>4. queue' \in [Topics -> Seq(Notices)]
  BY <1>1, <1>3 DEF TypeOK, Notices
<1> QED BY <1>4 DEF Notify, Given, TypeOK, Notices

LEMMA TypeCommit == ASSUME TypeOK, NEW t \in Topics, Commit(t), Len(queue[t]) > 0 PROVE TypeOK'
<1>1. queue' = [queue EXCEPT ![t] = Tail(queue[t])]
  BY DEF Commit
<1>2. queue[t] \in Seq(Notices) /\ queue[t] # <<>>
  BY DEF TypeOK, Notices
<1>3. Tail(queue[t]) \in Seq(Notices)
  BY <1>2, HeadTailProperties
<1>4. queue' \in [Topics -> Seq(Notices)]
  BY <1>1, <1>3 DEF TypeOK, Notices
<1>5. handled' \in [Topics -> Nat]
  BY DEF Commit, TypeOK
<1> QED BY <1>4, <1>5 DEF Commit, Given, Provider, TypeOK, Notices

LEMMA TypeOther ==
    ASSUME TypeOK,
           \/ \E p \in Payments : CreateSepayOrder(p)
           \/ CaptureOrder
           \/ \E w \in Workers : Stop(w)
    PROVE  TypeOK'
<1>1. ASSUME NEW p \in Payments, CreateSepayOrder(p) PROVE TypeOK'
  <2>1. rows' \in [Payments -> Statuses]
    BY <1>1, Words, TypeSet DEF CreateSepayOrder
  <2> QED BY <1>1, <2>1 DEF CreateSepayOrder, Given, Provider, TypeOK
<1>2. CASE CaptureOrder
  <2>1. jobs' \in [Workers -> Job]
    BY <1>2, Words, TypeBegin DEF CaptureOrder, Steps
  <2> QED BY <1>2, <2>1 DEF CaptureOrder, Given, TypeOK
<1>3. ASSUME NEW w \in Workers, Stop(w) PROVE TypeOK'
  <2>1. Idle \in Job
    BY Words DEF Idle, Job, Steps
  <2>2. jobs' \in [Workers -> Job]
    BY <1>3, <2>1 DEF Stop, TypeOK
  <2>3. handled' \in [Topics -> Nat]
    BY <1>3 DEF Stop, TypeOK
  <2> QED BY <1>3, <2>2, <2>3 DEF Stop, Breaks, Given, Provider, TypeOK
<1> QED BY <1>1, <1>2, <1>3

-----------------------------------------------------------------------------
(* CompletedWasPaid needs to know where the notifications come from.       *)

\* A consumer handles what is in its topic.
Within ==
    \A t \in Topics :
       /\ handled[t] <= Len(queue[t])
       /\ ~At(t, "idle") => handled[t] < Len(queue[t])

\* The topics hold what the providers notified.
Heard ==
    /\ \A i \in 1..Len(queue["sepay"]) : queue["sepay"][i] \in Transfers \cap received
    /\ \A i \in 1..Len(queue["paypal"]) : queue["paypal"][i] \in Captures \cap received

\* PayPal notifies captures of a PayPal payment, whose amount no transfer has.
Origin ==
    /\ method = "paypal" => amount[Bought] = "usd"
    /\ captured => method = "paypal"
    /\ received \cap Captures # {} => captured

\* What the hook consumers are about to write and publish was notified.
Backed ==
    /\ jobs["sepay"].at \in {"write", "publish"} => Worth(jobs["sepay"].pay) \in received
    /\ jobs["paypal"].at \in {"write", "publish"} =>
          method = "paypal" /\ (jobs["paypal"].target = "completed" => "completed" \in received)

Inv == TypeOK /\ Targets /\ Within /\ Heard /\ Origin /\ Backed /\ CompletedWasPaid

LEMMA InvInit == Init => Inv
<1> SUFFICES ASSUME Init PROVE Inv
  OBVIOUS
<1>1. TypeOK
  BY TypeInit
<1>2. Targets /\ Within /\ Heard /\ Backed /\ Origin
  BY Words DEF Init, Targets, Within, Heard, Backed, Origin, Idle, At, Topics, Workers
<1>3. CompletedWasPaid
  BY DEF Init, CompletedWasPaid
<1> QED BY <1>1, <1>2, <1>3 DEF Inv

\* What a step leaves alone when it touches neither what was notified nor the
\* hook consumers: then only Within and its own rows can change.
Apart ==
    /\ UNCHANGED <<method, amount, queue, captured, received>>
    /\ \A w \in {"sepay", "paypal"} : jobs'[w] = jobs[w] /\ handled'[w] = handled[w]
    /\ jobs'["http"].target # "completed"
    /\ \A p \in Payments : rows'[p] = "completed" => rows[p] = "completed"
    /\ \A p \in Payments : <<"completed", p>> \in announced' => <<"completed", p>> \in announced
    /\ handled'["created"] <= Len(queue["created"])
    /\ jobs'["created"].at # "idle" => handled'["created"] < Len(queue["created"])

LEMMA ApartKeeps ==
    ASSUME Inv, Apart
    PROVE  Targets' /\ Within' /\ Heard' /\ Origin' /\ Backed' /\ CompletedWasPaid'
<1>1. Targets' /\ Heard' /\ Origin'
  BY DEF Inv, Apart, Targets, Heard, Origin
<1>2. Within'
  BY DEF Inv, Apart, Within, At, Topics
<1>3. Backed' /\ CompletedWasPaid'
  BY DEF Inv, Apart, Backed, CompletedWasPaid, Worth
<1> QED BY <1>1, <1>2, <1>3

LEMMA TicketApart == ASSUME Inv, TicketStep PROVE Apart
<1> USE Words DEF Inv, TypeOK, Apart, Targets, Within, At, Given, Provider
<1>0. Len(queue["created"]) \in Nat /\ handled["created"] \in Nat
  OBVIOUS
<1>1. CASE TakeCreated
  <2>1. handled["created"] < Len(queue["created"])
    BY <1>1 DEF TakeCreated, Receives
  <2>2. \A w \in Workers \ {"created"} : jobs'[w] = jobs[w]
    BY <1>1 DEF TakeCreated, Begin
  <2>3. UNCHANGED <<method, amount, queue, captured, received, handled, rows, announced>>
    BY <1>1 DEF TakeCreated
  <2> QED BY <1>0, <2>1, <2>2, <2>3 DEF Workers, Topics
<1>2. CASE CreateQr
  BY <1>2, <1>0 DEF CreateQr, Workers, Topics, Goto, Return, SetStatus, Announce, Begin, Receives, Idle
<1>3. CASE LinkQr
  BY <1>3, <1>0 DEF LinkQr, Workers, Topics, Goto, Return, SetStatus, Announce, Begin, Receives, Idle
<1>4. CASE CreatePaypal
  BY <1>4, <1>0 DEF CreatePaypal, Workers, Topics, Goto, Return, SetStatus, Announce, Begin, Receives, Idle
<1>5. CASE SaveOrder
  BY <1>5, <1>0 DEF SaveOrder, Workers, Topics, Goto, Return, SetStatus, Announce, Begin, Receives, Idle
<1>6. CASE Fallback
  <2>1. \A p \in Payments : rows'[p] = "completed" => rows[p] = "completed"
    BY <1>6 DEF Fallback, SetStatus
  <2>2. /\ UNCHANGED <<method, amount, queue, captured, received, announced>>
        /\ jobs["created"].at # "idle"
    BY <1>6 DEF Fallback
  <2>3. \A w \in Workers \ {"created"} : jobs'[w] = jobs[w]
    BY <1>6 DEF Fallback, Return, Goto, Workers
  <2>4. handled'["created"] \in {handled["created"], handled["created"] + 1}
        /\ (jobs'["created"].at # "idle" => handled' = handled)
        /\ \A t \in Topics \ {"created"} : handled'[t] = handled[t]
    BY <1>6 DEF Fallback, Return, Goto, Workers, Topics, Idle
  <2> QED BY <1>0, <2>1, <2>2, <2>3, <2>4 DEF Workers, Topics
<1>7. CASE AnnounceReady
  BY <1>7, <1>0 DEF AnnounceReady, Workers, Topics, Goto, Return, SetStatus, Announce, Begin, Receives, Idle
<1>8. CASE AnnounceFailure
  BY <1>8, <1>0 DEF AnnounceFailure, Workers, Topics, Goto, Return, SetStatus, Announce, Begin, Receives, Idle
<1> QED BY <1>1, <1>2, <1>3, <1>4, <1>5, <1>6, <1>7, <1>8 DEF TicketStep

LEMMA ApartOthers ==
    ASSUME Inv,
           \/ HttpStep \/ CaptureOrder
           \/ \E p \in Payments : CreateSepayOrder(p)
    PROVE  Targets' /\ Within' /\ Heard' /\ Origin' /\ Backed' /\ CompletedWasPaid'
<1> USE Words DEF Inv, TypeOK, Targets, Within, At, Given, Provider
<1>1. ASSUME HttpStep PROVE Apart
  <2>1. /\ UNCHANGED <<method, amount, queue, captured, received, handled, announced>>
        /\ \A w \in Topics : jobs'[w] = jobs[w]
        /\ jobs'["http"].target = jobs["http"].target
    BY <1>1 DEF HttpStep, FindCaptured, SaveCapture, Goto, Workers, Topics, Job
  <2>2. \A p \in Payments : rows'[p] = "completed" => rows[p] = "completed"
    BY <1>1 DEF HttpStep, FindCaptured, SaveCapture, SetStatus
  <2> QED BY <2>1, <2>2 DEF Apart, Topics
<1>2. ASSUME NEW p \in Payments, CreateSepayOrder(p) PROVE Apart
  BY <1>2 DEF Apart, CreateSepayOrder, SetStatus, Topics, Workers
<1>3. CASE CaptureOrder
  <2>1. /\ UNCHANGED <<method, amount, queue, received, handled, rows, announced>>
        /\ method = "paypal" /\ captured'
        /\ \A w \in Topics : jobs'[w] = jobs[w]
        /\ jobs'["http"].target # "completed"
    BY <1>3 DEF CaptureOrder, Begin, Workers, Topics
  <2>2. Targets' /\ Heard' /\ Origin'
    BY <2>1 DEF Heard, Origin, Topics
  <2>3. Within'
    BY <2>1
  <2>4. Backed' /\ CompletedWasPaid'
    BY <2>1 DEF Backed, CompletedWasPaid, Worth
  <2> QED BY <2>2, <2>3, <2>4
<1> QED BY <1>1, <1>2, <1>3, ApartKeeps

LEMMA NotifyKeeps ==
    ASSUME Inv,
           \/ \E sum \in Transfers : Transfer(sum)
           \/ \E fate \in Captures : PayPalNotifies(fate)
    PROVE  Targets' /\ Within' /\ Heard' /\ Origin' /\ Backed' /\ CompletedWasPaid'
<1>1. PICK t \in {"sepay", "paypal"}, notice \in Notices :
         /\ Notify(t, notice)
         /\ t = "sepay" => notice \in Transfers
         /\ t = "paypal" => notice \in Captures /\ captured
  BY DEF Transfer, PayPalNotifies, Notices
<1>2. /\ UNCHANGED <<method, amount, rows, handled, jobs, captured, announced>>
      /\ received' = received \cup {notice}
      /\ queue' = [queue EXCEPT ![t] = Append(queue[t], notice)]
  BY <1>1 DEF Notify, Given
<1>3. \A u \in Topics : queue[u] \in Seq(Notices)
  BY DEF Inv, TypeOK, Notices
<1>4. t \in Topics /\ notice \in Notices
  BY <1>1 DEF Topics, Notices
<1>5. /\ Len(queue'[t]) = Len(queue[t]) + 1
      /\ \A i \in 1..Len(queue[t]) : queue'[t][i] = queue[t][i]
      /\ queue'[t][Len(queue[t]) + 1] = notice
      /\ \A u \in Topics \ {t} : queue'[u] = queue[u]
  BY <1>2, <1>3, <1>4, AppendProperties DEF Inv, TypeOK
<1>6. Targets'
  BY <1>2 DEF Inv, Targets
<1>7. Within'
  BY <1>2, <1>3, <1>5 DEF Inv, TypeOK, Within, At
<1>8. Heard'
  BY <1>1, <1>2, <1>3, <1>4, <1>5 DEF Inv, Heard, Topics
<1>9. Origin'
  BY <1>1, <1>2 DEF Inv, Origin, Transfers, Captures
<1>10. Backed' /\ CompletedWasPaid'
  BY <1>2 DEF Inv, Backed, CompletedWasPaid, Worth
<1> QED BY <1>6, <1>7, <1>8, <1>9, <1>10

LEMMA SepayKeeps ==
    ASSUME Inv, SepayStep
    PROVE  Targets' /\ Within' /\ Heard' /\ Origin' /\ Backed' /\ CompletedWasPaid'
<1>0. /\ Len(queue["sepay"]) \in Nat /\ handled["sepay"] \in Nat
      /\ jobs["sepay"].pay \in Payments
  BY Words DEF Inv, TypeOK, Job
<1>1. /\ UNCHANGED <<method, amount, queue, captured, received>>
      /\ \A w \in Workers \ {"sepay"} : jobs'[w] = jobs[w]
      /\ \A t \in Topics \ {"sepay"} : handled'[t] = handled[t]
      /\ handled["sepay"] < Len(queue["sepay"])
  BY Words DEF SepayStep, TakeTransfer, CompleteTransfer, PublishTransfer, Receives, Begin,
     Goto, Return, Given, Provider, Inv, TypeOK, Within, At, Workers, Topics
<1>2. /\ handled'["sepay"] \in {handled["sepay"], handled["sepay"] + 1}
      /\ jobs'["sepay"].at # "idle" => handled'["sepay"] = handled["sepay"]
  BY Words DEF SepayStep, TakeTransfer, CompleteTransfer, PublishTransfer, Begin, Goto, Return,
     Inv, TypeOK, Workers, Topics, Idle
<1>3. Targets' /\ Heard' /\ Origin'
  BY <1>1, Words DEF Inv, Targets, Heard, Origin
<1>4. Within'
  BY <1>0, <1>1, <1>2, Words DEF Inv, Within, At, Topics, Workers
<1>5. ASSUME NEW sum \in Transfers, NEW p \in Payments, TakeTransfer(sum, p)
      PROVE  Backed' /\ CompletedWasPaid'
  <2>1. sum \in received
    BY <1>5, <1>0 DEF TakeTransfer, Receives, Inv, Heard
  <2>2. jobs'["sepay"].at \in {"write", "publish"} => jobs'["sepay"].pay = p /\ amount[p] = sum
    BY <1>5, Words DEF TakeTransfer, Begin, Return, Idle, Inv, TypeOK, Workers
  <2>3. amount[p] = sum => Worth(p) = sum
    BY DEF Worth, Inv, Origin, Transfers
  <2>4. UNCHANGED <<rows, announced>>
    BY <1>5 DEF TakeTransfer
  <2>5. Worth(p)' = Worth(p)
    BY <1>1 DEF Worth
  <2>6. Backed'
    BY <1>1, <2>1, <2>2, <2>3, <2>5, Words DEF Inv, Backed
  <2> QED BY <1>1, <2>4, <2>6 DEF Inv, CompletedWasPaid, Worth
<1>6. ASSUME CompleteTransfer \/ PublishTransfer PROVE Backed' /\ CompletedWasPaid'
  <2>1. Worth(jobs["sepay"].pay) \in received
    BY <1>6 DEF CompleteTransfer, PublishTransfer, At, Inv, Backed
  <2>2. \/ jobs'["sepay"].at \notin {"publish", "write"}
        \/ jobs'["sepay"].pay = jobs["sepay"].pay
    BY <1>6, Words DEF CompleteTransfer, PublishTransfer, Goto, Return, Idle, Inv, TypeOK, Job
  <2>3. \A p \in Payments \ {jobs["sepay"].pay} :
           /\ rows'[p] = rows[p]
           /\ <<"completed", p>> \in announced' => <<"completed", p>> \in announced
    BY <1>6 DEF CompleteTransfer, PublishTransfer, SetStatus, Announce, Inv, TypeOK
  <2>4. \A p \in Payments : Worth(p)' = Worth(p)
    BY <1>1 DEF Worth
  <2>5. Backed'
    BY <1>1, <2>1, <2>2, <2>4, <1>0, Words DEF Inv, Backed
  <2> QED BY <1>0, <1>1, <2>1, <2>3, <2>4, <2>5 DEF Inv, CompletedWasPaid
<1> QED BY <1>3, <1>4, <1>5, <1>6 DEF SepayStep

LEMMA PaypalKeeps ==
    ASSUME Inv, PaypalStep
    PROVE  Targets' /\ Within' /\ Heard' /\ Origin' /\ Backed' /\ CompletedWasPaid'
<1>0. Len(queue["paypal"]) \in Nat /\ handled["paypal"] \in Nat
  BY Words DEF Inv, TypeOK
<1>1. /\ UNCHANGED <<method, amount, queue, captured, received>>
      /\ \A w \in Workers \ {"paypal"} : jobs'[w] = jobs[w]
      /\ \A t \in Topics \ {"paypal"} : handled'[t] = handled[t]
      /\ handled["paypal"] < Len(queue["paypal"])
  BY Words DEF PaypalStep, TakeCapture, WriteCapture, PublishCapture, Receives, Begin,
     Goto, Return, Given, Provider, Inv, TypeOK, Within, At, Workers, Topics
<1>2. /\ handled'["paypal"] \in {handled["paypal"], handled["paypal"] + 1}
      /\ jobs'["paypal"].at # "idle" => handled'["paypal"] = handled["paypal"]
  BY Words DEF PaypalStep, TakeCapture, WriteCapture, PublishCapture, Begin, Goto, Return,
     Inv, TypeOK, Workers, Topics, Idle
<1>3. Heard' /\ Origin'
  BY <1>1, Words DEF Inv, Heard, Origin
<1>4. Within'
  BY <1>0, <1>1, <1>2, Words DEF Inv, Within, At, Topics, Workers
<1>5. ASSUME NEW fate \in Captures, TakeCapture(fate)
      PROVE  Targets' /\ Backed' /\ CompletedWasPaid'
  <2>1. fate \in received /\ fate \in Captures /\ method = "paypal"
    BY <1>5, <1>0 DEF TakeCapture, Receives, Inv, Heard, Origin
  <2>2. jobs'["paypal"].at \in {"write", "publish"}
           => jobs'["paypal"].target = IF fate = "completed" THEN fate ELSE "failed"
    BY <1>5, Words DEF TakeCapture, Begin, Return, Idle, Inv, TypeOK, Workers
  <2>3. UNCHANGED <<rows, announced>>
    BY <1>5 DEF TakeCapture
  <2>4. Targets'
    BY <1>1, <2>2, Words DEF Inv, Targets, Workers
  <2>5. Backed'
    BY <1>1, <2>1, <2>2, Words DEF Inv, Backed, Worth
  <2> QED BY <1>1, <2>3, <2>4, <2>5 DEF Inv, CompletedWasPaid, Worth
<1>6. ASSUME WriteCapture \/ PublishCapture PROVE Targets' /\ Backed' /\ CompletedWasPaid'
  <2>1. /\ method = "paypal"
        /\ jobs["paypal"].target = "completed" => "completed" \in received
    BY <1>6 DEF WriteCapture, PublishCapture, At, Inv, Backed
  <2>2. jobs'["paypal"].at \notin {"write", "publish"}
        \/ jobs'["paypal"].target = jobs["paypal"].target
    BY <1>6, Words DEF WriteCapture, PublishCapture, Goto, Return, Idle, Inv, TypeOK, Job
  <2>3. \A p \in Payments :
           /\ rows'[p] = "completed" => rows[p] = "completed"
                 \/ (p = Bought /\ jobs["paypal"].target = "completed")
           /\ <<"completed", p>> \in announced' => <<"completed", p>> \in announced
                 \/ (p = Bought /\ jobs["paypal"].target = "completed")
    BY <1>6 DEF WriteCapture, PublishCapture, Announce, Inv, TypeOK
  <2>4. jobs["paypal"].at \in {"write", "publish"}
    BY <1>6 DEF WriteCapture, PublishCapture, At
  <2>5. Targets'
    BY <1>1, <2>2, <2>4, Words DEF Inv, Targets, Workers
  <2>6. Backed'
    BY <1>1, <2>1, <2>2, <2>4, Words DEF Inv, Backed, Worth
  <2> QED BY <1>1, <2>1, <2>3, <2>5, <2>6 DEF Inv, CompletedWasPaid, Worth
<1> QED BY <1>3, <1>4, <1>5, <1>6 DEF PaypalStep

LEMMA CommitKeeps ==
    ASSUME Inv, NEW t \in Topics, Commit(t)
    PROVE  Targets' /\ Within' /\ Heard' /\ Origin' /\ Backed' /\ CompletedWasPaid'
<1>1. /\ UNCHANGED <<method, amount, rows, jobs, captured, received, announced>>
      /\ queue' = [queue EXCEPT ![t] = Tail(queue[t])]
      /\ handled' = [handled EXCEPT ![t] = handled[t] - 1]
      /\ handled[t] > 0
  BY DEF Commit, Given, Provider
<1>2. \A u \in Topics : queue[u] \in Seq(Notices) /\ Len(queue[u]) \in Nat /\ handled[u] \in Nat
  BY DEF Inv, TypeOK, Notices
<1>3. queue[t] # <<>>
  BY <1>1, <1>2 DEF Inv, Within
<1>4. /\ Len(queue'[t]) = Len(queue[t]) - 1
      /\ \A i \in 1..Len(queue'[t]) : queue'[t][i] = queue[t][i + 1]
      /\ \A u \in Topics \ {t} : queue'[u] = queue[u]
  BY <1>1, <1>2, <1>3, HeadTailProperties DEF Inv, TypeOK
<1>5. Targets' /\ Origin' /\ Backed' /\ CompletedWasPaid'
  BY <1>1 DEF Inv, Targets, Origin, Backed, CompletedWasPaid, Worth
<1>6. Within'
  BY <1>1, <1>2, <1>4 DEF Inv, TypeOK, Within, At
<1>7. ASSUME NEW u \in {"sepay", "paypal"}, NEW i \in 1..Len(queue'[u])
      PROVE  \E j \in 1..Len(queue[u]) : queue'[u][i] = queue[u][j]
  <2>1. u \in Topics
    BY DEF Topics
  <2>2. CASE u = t
    <3>1. i + 1 \in 1..Len(queue[u])
      BY <1>2, <1>4, <1>7, <2>2
    <3> QED BY <1>4, <1>7, <2>2, <3>1
  <2> QED BY <1>4, <2>1, <2>2
<1>8. Heard'
  BY <1>1, <1>7 DEF Inv, Heard
<1> QED BY <1>5, <1>6, <1>8

LEMMA StopKeeps ==
    ASSUME Inv, NEW w \in Workers, Stop(w)
    PROVE  Targets' /\ Within' /\ Heard' /\ Origin' /\ Backed' /\ CompletedWasPaid'
<1>1. /\ UNCHANGED <<method, amount, rows, queue, captured, received, announced>>
      /\ jobs' = [jobs EXCEPT ![w] = Idle]
      /\ handled' = [t \in Topics |-> IF t = w THEN 0 ELSE handled[t]]
  BY DEF Stop, Given, Provider
<1>2. \A v \in Workers : jobs'[v] = jobs[v] \/ (v = w /\ jobs'[v] = Idle)
  BY <1>1 DEF Inv, TypeOK
<1>3. Targets'
  BY <1>2, Words DEF Inv, Targets, Idle
<1>4. Heard' /\ Origin' /\ CompletedWasPaid'
  BY <1>1 DEF Inv, Heard, Origin, CompletedWasPaid, Worth
<1>5. \A t \in Topics : Len(queue[t]) \in Nat /\ t \in Workers
  BY DEF Inv, TypeOK, Workers
<1>6. Within'
  <2> SUFFICES ASSUME NEW t \in Topics
               PROVE  /\ handled'[t] <= Len(queue[t])
                      /\ jobs'[t].at # "idle" => handled'[t] < Len(queue[t])
    BY <1>1 DEF Within, At
  <2>1. Len(queue[t]) \in Nat /\ handled[t] <= Len(queue[t])
        /\ (jobs[t].at # "idle" => handled[t] < Len(queue[t]))
    BY <1>5 DEF Inv, Within, At
  <2>2. CASE t = w
    BY <1>1, <1>2, <1>5, <2>1, <2>2 DEF Idle, Inv, TypeOK
  <2>3. CASE t # w
    BY <1>1, <1>2, <1>5, <2>1, <2>3
  <2> QED BY <2>2, <2>3
<1>7. Backed'
  BY <1>1, <1>2, Words DEF Inv, Backed, Worth, Idle
<1> QED BY <1>3, <1>4, <1>6, <1>7

LEMMA InvStep == Inv /\ [Next]_vars => Inv'
<1> SUFFICES ASSUME Inv, [Next]_vars PROVE Inv'
  OBVIOUS
<1>1. CASE TicketStep
  <2>1. TypeOK'
    BY <1>1, TypeTicket DEF Inv
  <2> QED BY <1>1, <2>1, TicketApart, ApartKeeps DEF Inv
<1>2. CASE SepayStep
  <2>1. TypeOK'
    BY <1>2, TypeHook DEF Inv
  <2> QED BY <1>2, <2>1, SepayKeeps DEF Inv
<1>3. CASE PaypalStep
  <2>1. TypeOK'
    BY <1>3, TypeHook DEF Inv
  <2> QED BY <1>3, <2>1, PaypalKeeps DEF Inv
<1>4. CASE HttpStep
  <2>1. TypeOK'
    BY <1>4, TypeHook DEF Inv
  <2> QED BY <1>4, <2>1, ApartOthers DEF Inv
<1>5. CASE CaptureOrder \/ \E p \in Payments : CreateSepayOrder(p)
  <2>1. TypeOK'
    BY <1>5, TypeOther DEF Inv
  <2> QED BY <1>5, <2>1, ApartOthers DEF Inv
<1>6. CASE (\E sum \in Transfers : Transfer(sum)) \/ \E fate \in Captures : PayPalNotifies(fate)
  <2>1. TypeOK'
    BY <1>6, Words, TypeNotify DEF Inv, Transfer, PayPalNotifies
  <2> QED BY <1>6, <2>1, NotifyKeeps DEF Inv
<1>7. ASSUME NEW t \in Topics, Commit(t) PROVE Inv'
  <2>1. Len(queue[t]) > 0
    BY <1>7 DEF Inv, TypeOK, Within, Commit
  <2>2. TypeOK'
    BY <1>7, <2>1, TypeCommit DEF Inv
  <2> QED BY <1>7, <2>2, CommitKeeps DEF Inv
<1>8. ASSUME NEW w \in Workers, Stop(w) PROVE Inv'
  <2>1. TypeOK'
    BY <1>8, TypeOther DEF Inv
  <2> QED BY <1>8, <2>1, StopKeeps DEF Inv
<1>9. CASE UNCHANGED vars
  BY <1>9 DEF vars, Inv, TypeOK, Targets, Within, Heard, Origin, Backed, CompletedWasPaid, Worth, At
<1> QED BY <1>1, <1>2, <1>3, <1>4, <1>5, <1>6, <1>7, <1>8, <1>9 DEF Next

LEMMA Invariant == Spec => []Inv
BY InvInit, InvStep, PTL DEF Spec

\* Rows, topics and workers are well-typed in every reachable state.
THEOREM TypeCorrect == Spec => []TypeOK
<1>1. Inv => TypeOK
  BY DEF Inv
<1> QED BY <1>1, Invariant, PTL

\* Nothing is completed that was not paid in full, for any number of rows of the
\* ticket, of transfers and of stops: hook consumers compare with the row they read.
THEOREM CompletedPaid == Spec => []CompletedWasPaid
<1>1. Inv => CompletedWasPaid
  BY DEF Inv
<1> QED BY <1>1, Invariant, PTL

-----------------------------------------------------------------------------
(* The ticket beside it.                                                   *)

\* What the ticket rests on: an announced completion, which is never taken back.
Credited == ticket = "paid" => \E p \in Payments : <<"completed", p>> \in announced

SaleInv == Inv /\ ticket \in TicketStatuses /\ Credited

LEMMA AnnouncedStays == [Next]_vars => announced \subseteq announced'
BY DEF Next, TicketStep, SepayStep, PaypalStep, HttpStep, TakeCreated, CreateQr, LinkQr,
       CreatePaypal, SaveOrder, Fallback, AnnounceReady, AnnounceFailure, Announce,
       CreateSepayOrder, CaptureOrder, FindCaptured, SaveCapture, Notify, Transfer,
       PayPalNotifies, TakeTransfer, CompleteTransfer, PublishTransfer, TakeCapture,
       WriteCapture, PublishCapture, Commit, Stop, vars

LEMMA SaleStep == SaleInv /\ [SaleNext]_saleVars => SaleInv'
<1> SUFFICES ASSUME SaleInv, [SaleNext]_saleVars PROVE SaleInv'
  OBVIOUS
<1>1. CASE [Next]_vars /\ UNCHANGED ticket
  <2>1. Inv'
    BY <1>1, InvStep DEF SaleInv
  <2> QED BY <1>1, <2>1, AnnouncedStays DEF SaleInv, Credited
<1>2. CASE Consume
  <2>1. Inv'
    BY <1>2, InvStep DEF SaleInv, Consume, CreditTicket, CancelUnpaid, Delivered
  <2>2. (ticket \in TicketStatuses)' /\ Credited'
    BY <1>2 DEF SaleInv, Credited, Consume, CreditTicket, CancelUnpaid, Delivered,
                TicketStatuses, vars
  <2> QED BY <2>1, <2>2 DEF SaleInv
<1> QED BY <1>1, <1>2 DEF SaleNext, saleVars

LEMMA SaleInvariant == SaleSpec => []SaleInv
<1>1. SaleInit => SaleInv
  BY InvInit DEF SaleInit, SaleInv, Credited, TicketStatuses
<1> QED BY <1>1, SaleStep, PTL DEF SaleSpec

\* The composition has its types.
THEOREM SaleTypeCorrect == SaleSpec => []SaleTypeOK
<1>1. SaleInv => SaleTypeOK
  BY DEF SaleInv, SaleTypeOK, Inv
<1> QED BY <1>1, SaleInvariant, PTL

\* What holds of the payment service alone holds of it in the composition.
THEOREM SaleHasPayments == SaleSpec => Spec
<1>1. SaleInit => Init
  BY DEF SaleInit
<1>2. [SaleNext]_saleVars => [Next]_vars
  BY DEF SaleNext, saleVars, Consume, CreditTicket, CancelUnpaid, Delivered
<1> QED BY <1>1, <1>2, PTL DEF SaleSpec, Spec

\* A ticket becomes valid only for money: from the provider's notification through
\* the hook consumers and the topics to the ticket.
THEOREM TicketIsPaid == SaleSpec => []PaidWithMoney
<1>1. SaleInv => PaidWithMoney
  BY DEF SaleInv, Inv, Credited, CompletedWasPaid, PaidWithMoney
<1> QED BY <1>1, SaleInvariant, PTL

-----------------------------------------------------------------------------
(* What becomes of a completed, and of a failed payment.  The properties   *)
(* need to know of which message a worker is, and who may write which row. *)

\* The payment in dollars is the one of ticket.created, if PayPal is to take it.
Kinds == \A p \in Payments : amount[p] = "usd" <=> (p = Bought /\ method = "paypal")

\* Bought's workers work on nothing else.
Theirs == \A w \in {"created", "paypal", "http"} : jobs[w].pay = Bought

\* A hook consumer's message is the one at its position; SePay's is about an amount in VND.
Current ==
    /\ jobs["paypal"].at \in {"write", "publish"} =>
          jobs["paypal"].target =
             IF queue["paypal"][handled["paypal"] + 1] = "completed" THEN "completed" ELSE "failed"
    /\ jobs["sepay"].at \in {"write", "publish"} => amount[jobs["sepay"].pay] \in Transfers

\* A completed PayPal payment was announced, or PayPal's message is still to be handled;
\* any other, as long as no worker stops, is being published.
Due ==
    /\ rows[Bought] = "completed" /\ method = "paypal" =>
          \/ <<"completed", Bought>> \in announced
          \/ \E i \in 1..Len(queue["paypal"]) :
                i > handled["paypal"] /\ queue["paypal"][i] = "completed"
    /\ \A p \in Payments :
          rows[p] = "completed" /\ amount[p] # "usd" =>
             \/ <<"completed", p>> \in announced
             \/ ~sound
             \/ jobs["sepay"].at = "publish" /\ jobs["sepay"].pay = p

\* Whoever writes a row read one that was there.
Present ==
    /\ jobs["sepay"].at = "write" => rows[jobs["sepay"].pay] # "none"
    /\ jobs["paypal"].at = "write" => rows[Bought] # "none"
    /\ jobs["http"].at = "save" => rows[Bought] # "none"

\* Until something stops, ticket.created is handled once: its row is not there before.
FirstTime ==
    /\ Len(queue["created"]) <= 1
    /\ sound =>
         /\ jobs["created"].at = "insert"
            \/ (jobs["created"].at = "idle" /\ handled["created"] < Len(queue["created"]))
              => rows[Bought] = "none"
         /\ jobs["created"].at = "fail" => method = "other"

\* A failure is announced only with a cause.
Caused ==
    /\ \A p \in Payments :
          <<"failed", p>> \in announced => method = "other" \/ "denied" \in received \/ ~sound
    /\ jobs["paypal"].at \in {"write", "publish"} /\ jobs["paypal"].target = "failed"
          => "denied" \in received

\* A capture is saved with one of two statuses.
Targeted == jobs["http"].at \in {"find", "save"} => jobs["http"].target \in {"approved", "failed"}

OutcomeInv == Kinds /\ Theirs /\ Current /\ Due /\ Present /\ FirstTime /\ Caused /\ Targeted

LEMMA OutcomeInit == Init => OutcomeInv
<1> SUFFICES ASSUME Init PROVE OutcomeInv
  OBVIOUS
<1>1. \A w \in Workers : jobs[w] = Idle
  BY DEF Init
<1>3. Len(queue["created"]) = 1
  BY Words DEF Init
<1>4. Kinds
  BY Words DEF Init, Kinds, Amounts
<1>5. Theirs /\ Current /\ Present /\ Targeted
  BY <1>1, Words DEF Theirs, Current, Present, Targeted, Idle
<1>6. Due /\ FirstTime /\ Caused
  BY <1>1, <1>3, Words DEF Init, Due, FirstTime, Caused, Idle
<1> QED BY <1>4, <1>5, <1>6 DEF OutcomeInv

\* What the worker of ticket.created can do to a row, and to what others rely on.
LEMMA TicketMoves ==
    ASSUME Inv, OutcomeInv, TicketStep
    PROVE  /\ UNCHANGED <<method, amount, queue, captured, received>>
           /\ \A w \in Workers \ {"created"} : jobs'[w] = jobs[w]
           /\ \A t \in Topics \ {"created"} : handled'[t] = handled[t]
           /\ \A p \in Payments \ {Bought} : rows'[p] = rows[p]
           /\ rows'[Bought] = rows[Bought] \/ rows'[Bought] = "pending"
           /\ announced \subseteq announced'
           /\ announced' # announced => announced' = announced \cup {<<"failed", Bought>>}
                                        /\ jobs["created"].at = "fail"
           /\ sound' => sound
           /\ jobs'["created"].pay = Bought
           /\ FirstTime'
<1> USE Words DEF Inv, TypeOK, Given, Provider
<1>0. /\ Len(queue["created"]) \in Nat /\ handled["created"] \in Nat
      /\ handled["created"] <= Len(queue["created"]) /\ Len(queue["created"]) <= 1
      /\ jobs["created"].at # "idle" => handled["created"] < Len(queue["created"])
      /\ jobs["created"].pay = Bought
      /\ sound =>
         /\ jobs["created"].at = "insert"
            \/ (jobs["created"].at = "idle" /\ handled["created"] < Len(queue["created"]))
              => rows[Bought] = "none"
         /\ jobs["created"].at = "fail" => method = "other"
  BY DEF Within, OutcomeInv, Theirs, FirstTime, At
<1> USE DEF At, Goto, Answers, Breaks
<1>1. CASE TakeCreated
  BY <1>1, <1>0 DEF TakeCreated, Receives, Begin, Job, FirstTime, Workers
<1>2. CASE CreateQr
  BY <1>2, <1>0 DEF CreateQr, SetStatus, Job, FirstTime, Workers
<1>3. CASE LinkQr
  BY <1>3, <1>0 DEF LinkQr, SetStatus, Job, FirstTime, Workers
<1>4. CASE CreatePaypal
  BY <1>4, <1>0 DEF CreatePaypal, SetStatus, Job, FirstTime, Workers
<1>5. CASE SaveOrder
  BY <1>5, <1>0 DEF SaveOrder, Job, FirstTime, Workers
<1>6. CASE Fallback
  BY <1>6, <1>0 DEF Fallback, SetStatus, Return, Idle, Job, FirstTime, Workers, Topics
<1>7. CASE AnnounceReady
  BY <1>7, <1>0 DEF AnnounceReady, Return, Idle, Job, FirstTime, Workers, Topics
<1>8. CASE AnnounceFailure
  BY <1>8, <1>0 DEF AnnounceFailure, Announce, Return, Idle, Job, FirstTime, Workers, Topics
<1> QED BY <1>1, <1>2, <1>3, <1>4, <1>5, <1>6, <1>7, <1>8 DEF TicketStep

LEMMA TicketKeepsOutcomes == ASSUME Inv, OutcomeInv, TicketStep PROVE OutcomeInv'
<1>0. jobs["sepay"].pay \in Payments
  BY Words DEF Inv, TypeOK, Job
<1>1. Kinds' /\ FirstTime' /\ Targeted'
  BY TicketMoves, Words DEF OutcomeInv, Kinds, Targeted
<1>2. Theirs'
  BY TicketMoves, Words DEF OutcomeInv, Theirs
<1>3. Current'
  BY TicketMoves, Words DEF OutcomeInv, Current
<1>4. Due'
  BY TicketMoves, Words DEF OutcomeInv, Due
<1>5. Present'
  BY TicketMoves, Words, <1>0 DEF OutcomeInv, Present
<1>6. Caused'
  BY TicketMoves, Words DEF OutcomeInv, Caused, FirstTime
<1> QED BY <1>1, <1>2, <1>3, <1>4, <1>5, <1>6 DEF OutcomeInv

LEMMA SepayKeepsOutcomes == ASSUME Inv, OutcomeInv, SepayStep PROVE OutcomeInv'
<1>0. /\ jobs["sepay"].pay \in Payments
      /\ Len(queue["sepay"]) \in Nat /\ handled["sepay"] \in Nat
  BY Words DEF Inv, TypeOK, Job
<1>1. /\ UNCHANGED <<method, amount, queue, captured, received, sound>>
      /\ \A w \in Workers \ {"sepay"} : jobs'[w] = jobs[w]
      /\ \A t \in Topics \ {"sepay"} : handled'[t] = handled[t]
  BY Words DEF SepayStep, TakeTransfer, CompleteTransfer, PublishTransfer, Begin,
     Goto, Return, Given, Provider, Inv, TypeOK, Workers, Topics
<1>2. \A p \in Payments : rows'[p] = rows[p] \/ (rows'[p] = "completed" /\ rows[p] # "none")
  BY <1>0 DEF SepayStep, TakeTransfer, CompleteTransfer, PublishTransfer, SetStatus, At, Inv,
     TypeOK, OutcomeInv, Present
<1>3. /\ announced \subseteq announced'
      /\ \A p \in Payments : <<"failed", p>> \in announced' => <<"failed", p>> \in announced
  BY DEF SepayStep, TakeTransfer, CompleteTransfer, PublishTransfer, Announce
<1>4. Kinds' /\ Theirs' /\ Targeted'
  BY <1>1, Words DEF OutcomeInv, Kinds, Theirs, Targeted
<1>5. FirstTime' /\ Caused'
  BY <1>1, <1>2, <1>3, Words DEF OutcomeInv, FirstTime, Caused
<1>6. rows'[Bought] = "completed" /\ method = "paypal" => rows[Bought] = "completed"
  BY <1>0, Words DEF SepayStep, TakeTransfer, CompleteTransfer, PublishTransfer, SetStatus, At,
     Inv, TypeOK, OutcomeInv, Current, Kinds, Transfers
<1>7. ASSUME NEW sum \in Transfers, NEW p \in Payments, TakeTransfer(sum, p)
      PROVE  Current' /\ Due' /\ Present'
  <2>1. /\ UNCHANGED <<rows, announced>>
        /\ jobs["sepay"].at = "idle" /\ rows[p] # "none"
    BY <1>7 DEF TakeTransfer, Receives, At
  <2>2. jobs'["sepay"].at \in {"idle", "write"}
    BY <1>7, Words DEF TakeTransfer, Begin, Return, Idle, Inv, TypeOK
  <2>3. jobs'["sepay"].at = "write" => jobs'["sepay"].pay = p /\ amount[p] = sum
    BY <1>7, Words DEF TakeTransfer, Begin, Return, Idle, Inv, TypeOK
  <2>4. Current'
    BY <1>1, <2>2, <2>3, Words DEF OutcomeInv, Current
  <2>5. Due'
    BY <1>1, <2>1, <2>2, Words DEF OutcomeInv, Due
  <2>6. Present'
    BY <1>1, <2>1, <2>2, <2>3, Words DEF OutcomeInv, Present
  <2> QED BY <2>4, <2>5, <2>6
<1>8. ASSUME CompleteTransfer PROVE Current' /\ Due' /\ Present'
  <2>1. /\ rows' = [rows EXCEPT ![jobs["sepay"].pay] = "completed"]
        /\ announced' = announced /\ jobs["sepay"].at = "write"
        /\ jobs'["sepay"].at = "publish" /\ jobs'["sepay"].pay = jobs["sepay"].pay
    BY <1>8, Words DEF CompleteTransfer, SetStatus, Goto, At, Inv, TypeOK, Job
  <2>2. Current'
    BY <1>1, <2>1, Words DEF OutcomeInv, Current
  <2>3. Due'
    BY <1>1, <1>6, <2>1, <1>0, Words DEF OutcomeInv, Due, Inv, TypeOK
  <2>4. Present'
    BY <1>1, <1>2, <2>1, Words DEF OutcomeInv, Present
  <2> QED BY <2>2, <2>3, <2>4
<1>9. ASSUME PublishTransfer PROVE Current' /\ Due' /\ Present'
  <2>1. /\ rows' = rows
        /\ announced' = announced \cup {<<"completed", jobs["sepay"].pay>>}
        /\ jobs'["sepay"].at = "idle" /\ jobs["sepay"].at = "publish"
    BY <1>9, Words DEF PublishTransfer, Announce, Return, At, Idle, Inv, TypeOK
  <2> QED BY <1>1, <2>1, Words DEF OutcomeInv, Current, Due, Present
<1> QED BY <1>4, <1>5, <1>7, <1>8, <1>9 DEF OutcomeInv, SepayStep

LEMMA PaypalKeepsOutcomes == ASSUME Inv, OutcomeInv, PaypalStep PROVE OutcomeInv'
<1>0. /\ jobs["sepay"].pay \in Payments /\ jobs["paypal"].pay = Bought
      /\ Len(queue["paypal"]) \in Nat /\ handled["paypal"] \in Nat
  BY Words DEF Inv, TypeOK, Job, OutcomeInv, Theirs
<1>1. /\ UNCHANGED <<method, amount, queue, captured, received, sound>>
      /\ \A w \in Workers \ {"paypal"} : jobs'[w] = jobs[w]
      /\ \A t \in Topics \ {"paypal"} : handled'[t] = handled[t]
      /\ \A p \in Payments \ {Bought} : rows'[p] = rows[p]
      /\ announced \subseteq announced'
      /\ handled["paypal"] < Len(queue["paypal"])
  BY Words DEF PaypalStep, TakeCapture, WriteCapture, PublishCapture, Receives, Begin,
     Goto, Return, Given, Provider, Inv, TypeOK, Within, At, Workers, Topics, Announce
<1>2. Kinds' /\ Targeted'
  BY <1>1, Words DEF OutcomeInv, Kinds, Targeted
<1>3. queue["paypal"][handled["paypal"] + 1] \in Captures \cap received
  BY <1>0, <1>1 DEF Inv, Heard
<1>4. ASSUME NEW fate \in Captures, TakeCapture(fate) PROVE OutcomeInv'
  <2>1. /\ UNCHANGED <<rows, announced>>
        /\ jobs["paypal"].at = "idle" /\ fate = queue["paypal"][handled["paypal"] + 1]
    BY <1>4 DEF TakeCapture, Receives, At
  <2>2. CASE rows[Bought] # "none"
    <3>1. /\ jobs'["paypal"] = [at |-> "write", pay |-> Bought, seen |-> rows[Bought],
                               target |-> IF fate = "completed" THEN fate ELSE "failed"]
          /\ handled' = handled
      BY <1>4, <2>2, Words DEF TakeCapture, Begin, Inv, TypeOK
    <3>2. Theirs' /\ Current' /\ Present'
      BY <1>1, <2>1, <2>2, <3>1, Words DEF OutcomeInv, Theirs, Current, Present
    <3>3. Due' /\ FirstTime'
      BY <1>1, <2>1, <3>1, Words DEF OutcomeInv, Due, FirstTime
    <3>4. fate # "completed" => "denied" \in received
      BY <1>3, <2>1 DEF Captures
    <3>5. Caused'
      BY <1>1, <2>1, <3>1, <3>4, Words DEF OutcomeInv, Caused
    <3> QED BY <1>2, <3>2, <3>3, <3>5 DEF OutcomeInv
  <2>3. CASE rows[Bought] = "none"
    <3>1. jobs'["paypal"] = Idle
      BY <1>4, <2>3, Words DEF TakeCapture, Return, Inv, TypeOK
    <3>2. Theirs' /\ Current' /\ Present' /\ FirstTime' /\ Caused'
      BY <1>1, <2>1, <3>1, Words DEF OutcomeInv, Theirs, Current, Present, FirstTime, Caused, Idle
    <3>3. Due'
      BY <1>1, <2>1, <2>3, <3>1, Words DEF OutcomeInv, Due
    <3> QED BY <1>2, <3>2, <3>3 DEF OutcomeInv
  <2> QED BY <2>2, <2>3
<1>5. ASSUME WriteCapture PROVE OutcomeInv'
  <2>1. /\ announced' = announced /\ handled' = handled
        /\ jobs["paypal"].at = "write" /\ jobs'["paypal"].at = "publish"
        /\ jobs'["paypal"].target = jobs["paypal"].target
        /\ jobs'["paypal"].pay = jobs["paypal"].pay
        /\ rows'[Bought] \in {rows[Bought], jobs["paypal"].target}
        /\ jobs["paypal"].target \in Outcomes
    BY <1>5, Words DEF WriteCapture, Goto, At, Inv, TypeOK, Job, Targets
  <2>2. rows[Bought] # "none" /\ rows'[Bought] # "none"
    BY <2>1 DEF OutcomeInv, Present, Outcomes
  <2>3. Theirs' /\ Current' /\ Caused'
    BY <1>1, <2>1, Words DEF OutcomeInv, Theirs, Current, Caused
  <2>4. Present' /\ FirstTime'
    BY <1>0, <1>1, <2>1, <2>2, Words DEF OutcomeInv, Present, FirstTime
  <2>5. method = "paypal"
    BY <2>1 DEF Inv, Backed
  <2>6. rows'[Bought] = "completed" =>
          \/ <<"completed", Bought>> \in announced
          \/ \E i \in 1..Len(queue["paypal"]) :
                i > handled["paypal"] /\ queue["paypal"][i] = "completed"
    <3>1. CASE rows'[Bought] = rows[Bought]
      BY <2>5, <3>1 DEF OutcomeInv, Due
    <3>2. CASE rows'[Bought] = jobs["paypal"].target /\ jobs["paypal"].target = "completed"
      <4>1. handled["paypal"] + 1 \in 1..Len(queue["paypal"])
        BY <1>0, <1>1
      <4>2. queue["paypal"][handled["paypal"] + 1] = "completed"
        BY <2>1, <3>2 DEF OutcomeInv, Current
      <4> QED BY <4>1, <4>2, <1>0
    <3> QED BY <2>1, <3>1, <3>2
  <2>7. Due'
    BY <1>1, <2>1, <2>5, <2>6, Words DEF OutcomeInv, Due, Kinds
  <2> QED BY <1>2, <2>3, <2>4, <2>7 DEF OutcomeInv
<1>6. ASSUME PublishCapture PROVE OutcomeInv'
  <2>1. /\ rows' = rows
        /\ announced' = announced \cup {<<jobs["paypal"].target, Bought>>}
        /\ jobs["paypal"].at = "publish" /\ jobs'["paypal"] = Idle
        /\ handled'["paypal"] = handled["paypal"] + 1
        /\ jobs["paypal"].target \in Outcomes
    BY <1>6, Words DEF PublishCapture, Announce, Return, At, Inv, TypeOK, Targets
  <2>2. Theirs' /\ Current' /\ Present' /\ FirstTime'
    BY <1>1, <2>1, Words DEF OutcomeInv, Theirs, Current, Present, FirstTime, Idle
  <2>3. Caused'
    BY <1>1, <2>1, Words DEF OutcomeInv, Caused, Outcomes, Idle
  <2>4. ASSUME rows[Bought] = "completed", method = "paypal"
        PROVE  \/ <<"completed", Bought>> \in announced'
               \/ \E i \in 1..Len(queue["paypal"]) :
                     i > handled["paypal"] + 1 /\ queue["paypal"][i] = "completed"
    <3>1. CASE jobs["paypal"].target = "completed"
      BY <2>1, <3>1
    <3>2. CASE jobs["paypal"].target # "completed"
      <4>1. queue["paypal"][handled["paypal"] + 1] # "completed"
        BY <2>1, <3>2 DEF OutcomeInv, Current
      <4>2. CASE <<"completed", Bought>> \in announced
        BY <1>1, <4>2
      <4>3. CASE \E i \in 1..Len(queue["paypal"]) :
                   i > handled["paypal"] /\ queue["paypal"][i] = "completed"
        BY <4>1, <4>3, <1>0
      <4> QED BY <2>4, <4>2, <4>3 DEF OutcomeInv, Due
    <3> QED BY <3>1, <3>2
  <2>5. Due'
    BY <1>1, <2>1, <2>4, Words DEF OutcomeInv, Due
  <2> QED BY <1>2, <2>2, <2>3, <2>5 DEF OutcomeInv
<1> QED BY <1>4, <1>5, <1>6 DEF PaypalStep

LEMMA HttpKeepsOutcomes ==
    ASSUME Inv, OutcomeInv, HttpStep \/ CaptureOrder \/ \E p \in Payments : CreateSepayOrder(p)
    PROVE  OutcomeInv'
<1>0. jobs["sepay"].pay \in Payments /\ jobs["http"].pay = Bought
  BY Words DEF Inv, TypeOK, Job, OutcomeInv, Theirs
<1>1. /\ UNCHANGED <<method, amount, queue, received, handled, announced, sound>>
      /\ \A w \in Topics : jobs'[w] = jobs[w]
      /\ jobs'["http"].pay = Bought
  BY <1>0, Words DEF HttpStep, FindCaptured, SaveCapture, CaptureOrder, CreateSepayOrder, Goto, Begin,
     Given, Provider, Inv, TypeOK, Workers, Topics, Job
<1>2. jobs["http"].target # "completed"
  BY DEF Inv, Targets
<1>3. \A p \in Payments :
         rows'[p] = rows[p] \/ (rows'[p] # "completed" /\ (p = Bought => rows[p] # "none"))
  BY <1>2, Words DEF HttpStep, FindCaptured, SaveCapture, CaptureOrder, CreateSepayOrder, SetStatus, At,
     Inv, TypeOK, OutcomeInv, Present
<1>4. \A p \in Payments : rows[p] # "none" => rows'[p] # "none"
  <2>1. CASE SaveCapture
    <3>1. jobs["http"].target \in {"approved", "failed"}
      BY <2>1, Words DEF SaveCapture, OutcomeInv, Targeted, At
    <3> QED BY <2>1, <3>1 DEF SaveCapture, SetStatus, Inv, TypeOK
  <2>2. CASE FindCaptured \/ CaptureOrder \/ \E p \in Payments : CreateSepayOrder(p)
    BY <2>2 DEF FindCaptured, CaptureOrder, CreateSepayOrder, SetStatus, Inv, TypeOK
  <2> QED BY <2>1, <2>2 DEF HttpStep
<1>5. jobs'["http"].at = "save" => rows'[Bought] # "none"
  BY Words DEF HttpStep, FindCaptured, SaveCapture, CaptureOrder, CreateSepayOrder, SetStatus, Goto, Begin,
     Inv, TypeOK, OutcomeInv, Present, Job
<1>6. Targeted'
  <2>1. CASE FindCaptured \/ SaveCapture
    BY <2>1, Words DEF FindCaptured, SaveCapture, Goto, At, Inv, TypeOK, Job, OutcomeInv, Targeted
  <2>2. CASE CaptureOrder
    BY <2>2, Words DEF CaptureOrder, Begin, Inv, TypeOK, Targeted
  <2>3. CASE \E p \in Payments : CreateSepayOrder(p)
    BY <2>3 DEF CreateSepayOrder, OutcomeInv, Targeted
  <2> QED BY <2>1, <2>2, <2>3 DEF HttpStep
<1>7. Kinds' /\ Theirs' /\ Current'
  BY <1>0, <1>1, Words DEF OutcomeInv, Kinds, Theirs, Current, Topics
<1>8. Due'
  BY <1>1, <1>3, Words DEF OutcomeInv, Due, Topics
<1>9. Present'
  BY <1>0, <1>1, <1>4, <1>5, Words DEF OutcomeInv, Present
<1>10. FirstTime' /\ Caused'
  BY <1>1, <1>3, Words DEF OutcomeInv, FirstTime, Caused, Topics
<1> QED BY <1>7, <1>8, <1>9, <1>10, <1>6 DEF OutcomeInv

LEMMA NotifyKeepsOutcomes ==
    ASSUME Inv, OutcomeInv,
           \/ \E sum \in Transfers : Transfer(sum)
           \/ \E fate \in Captures : PayPalNotifies(fate)
    PROVE  OutcomeInv'
<1>1. PICK t \in {"sepay", "paypal"}, notice \in Notices : Notify(t, notice)
  BY DEF Transfer, PayPalNotifies, Notices
<1>2. /\ UNCHANGED <<method, amount, rows, handled, jobs, announced, sound>>
      /\ received \subseteq received'
      /\ queue' = [queue EXCEPT ![t] = Append(queue[t], notice)]
  BY <1>1 DEF Notify, Given
<1>3. \A u \in Topics : queue[u] \in Seq(Notices) /\ Len(queue[u]) \in Nat /\ handled[u] \in Nat
  BY DEF Inv, TypeOK, Notices
<1>4. /\ Len(queue'["paypal"]) \in Nat /\ Len(queue["paypal"]) <= Len(queue'["paypal"])
      /\ \A i \in 1..Len(queue["paypal"]) : queue'["paypal"][i] = queue["paypal"][i]
      /\ queue'["created"] = queue["created"]
  BY <1>2, <1>3, AppendProperties, Words DEF Inv, TypeOK
<1>5. jobs["paypal"].at # "idle" => handled["paypal"] + 1 \in 1..Len(queue["paypal"])
  BY <1>3, Words DEF Inv, Within, At
<1>6. Kinds' /\ Theirs' /\ Present' /\ FirstTime' /\ Caused' /\ Targeted'
  BY <1>2, <1>4 DEF OutcomeInv, Kinds, Theirs, Present, FirstTime, Caused, Targeted
<1>7. Current'
  BY <1>2, <1>4, <1>5 DEF OutcomeInv, Current
<1>8. Due'
  <2>1. ASSUME NEW i \in 1..Len(queue["paypal"]) PROVE i \in 1..Len(queue'["paypal"])
    BY <1>3, <1>4, Words
  <2> QED BY <1>2, <1>4, <2>1 DEF OutcomeInv, Due
<1> QED BY <1>6, <1>7, <1>8 DEF OutcomeInv

LEMMA CommitKeepsOutcomes == ASSUME Inv, OutcomeInv, NEW t \in Topics, Commit(t) PROVE OutcomeInv'
<1>1. /\ UNCHANGED <<method, amount, rows, jobs, received, announced, sound>>
      /\ queue' = [queue EXCEPT ![t] = Tail(queue[t])]
      /\ handled' = [handled EXCEPT ![t] = handled[t] - 1]
      /\ handled[t] > 0
  BY DEF Commit, Given, Provider
<1>2. \A u \in Topics : queue[u] \in Seq(Notices) /\ Len(queue[u]) \in Nat /\ handled[u] \in Nat
  BY DEF Inv, TypeOK, Notices
<1>3. queue[t] # <<>>
  BY <1>1, <1>2 DEF Inv, Within
<1>4. /\ Len(queue'[t]) = Len(queue[t]) - 1 /\ handled'[t] = handled[t] - 1
      /\ \A i \in 1..Len(queue'[t]) : queue'[t][i] = queue[t][i + 1]
      /\ \A u \in Topics \ {t} : queue'[u] = queue[u] /\ handled'[u] = handled[u]
  BY <1>1, <1>2, <1>3, HeadTailProperties DEF Inv, TypeOK
<1>5. Kinds' /\ Theirs' /\ Present' /\ Caused' /\ Targeted'
  BY <1>1 DEF OutcomeInv, Kinds, Theirs, Present, Caused, Targeted
<1>6. FirstTime'
  <2>1. CASE t = "created"
    BY <1>1, <1>2, <1>4, <2>1, Words DEF OutcomeInv, FirstTime
  <2>2. CASE t # "created"
    BY <1>1, <1>4, <2>2, Words DEF OutcomeInv, FirstTime
  <2> QED BY <2>1, <2>2
<1>7. Current' /\ Due'
  <2>1. CASE t = "paypal"
    <3>1. jobs["paypal"].at # "idle" =>
            queue'["paypal"][handled'["paypal"] + 1] = queue["paypal"][handled["paypal"] + 1]
      <4> SUFFICES ASSUME jobs["paypal"].at # "idle"
                   PROVE  queue'["paypal"][handled'["paypal"] + 1]
                             = queue["paypal"][handled["paypal"] + 1]
        OBVIOUS
      <4>1. handled["paypal"] < Len(queue["paypal"])
        BY Words DEF Inv, Within, At
      <4>2. handled["paypal"] \in 1..Len(queue'["paypal"])
        BY <1>1, <1>2, <1>4, <2>1, <4>1
      <4>3. handled'["paypal"] + 1 = handled["paypal"]
        BY <1>2, <1>4, <2>1
      <4> QED BY <1>4, <2>1, <4>2, <4>3
    <3>2. Current'
      BY <1>1, <3>1 DEF OutcomeInv, Current
    <3>3. ASSUME NEW i \in 1..Len(queue["paypal"]), i > handled["paypal"],
                 queue["paypal"][i] = "completed"
          PROVE  \E k \in 1..Len(queue'["paypal"]) :
                    k > handled'["paypal"] /\ queue'["paypal"][k] = "completed"
      <4>1. i - 1 \in 1..Len(queue'["paypal"]) /\ i - 1 > handled'["paypal"]
        BY <1>1, <1>2, <1>4, <2>1, <3>3
      <4>2. queue'["paypal"][i - 1] = queue["paypal"][(i - 1) + 1]
        BY <1>4, <2>1, <4>1
      <4>3. queue'["paypal"][i - 1] = "completed"
        BY <3>3, <4>2, <1>2
      <4> QED BY <4>1, <4>3
    <3>4. Due'
      BY <1>1, <3>3 DEF OutcomeInv, Due
    <3> QED BY <3>2, <3>4
  <2>2. CASE t # "paypal"
    BY <1>1, <1>4, <2>2, Words DEF OutcomeInv, Current, Due
  <2> QED BY <2>1, <2>2
<1> QED BY <1>5, <1>6, <1>7 DEF OutcomeInv

LEMMA StopKeepsOutcomes == ASSUME Inv, OutcomeInv, NEW w \in Workers, Stop(w) PROVE OutcomeInv'
<1>1. /\ UNCHANGED <<method, amount, rows, queue, received, announced>>
      /\ ~sound'
      /\ \A v \in Workers : jobs'[v] = jobs[v] \/ jobs'[v] = Idle
      /\ \A t \in Topics : handled'[t] \in {0, handled[t]}
      /\ \A t \in Topics : jobs'[t].at # "idle" => handled'[t] = handled[t]
  BY DEF Stop, Breaks, Given, Provider, Inv, TypeOK, Idle, Workers
<1>2. handled["paypal"] \in Nat /\ Len(queue["paypal"]) \in Nat
  BY Words DEF Inv, TypeOK
<1>3. Kinds' /\ Theirs' /\ Present' /\ FirstTime' /\ Caused' /\ Targeted'
  BY <1>1, Words DEF OutcomeInv, Kinds, Theirs, Present, FirstTime, Caused, Targeted, Idle
<1>4. Current'
  BY <1>1, Words DEF OutcomeInv, Current, Idle
<1>5. Due'
  <2>1. ASSUME NEW i \in 1..Len(queue["paypal"]), i > handled["paypal"]
        PROVE  i > handled'["paypal"]
    BY <1>1, <1>2, <2>1, Words
  <2> QED BY <1>1, <2>1 DEF OutcomeInv, Due
<1> QED BY <1>3, <1>4, <1>5 DEF OutcomeInv

LEMMA OutcomeStep == Inv /\ OutcomeInv /\ [Next]_vars => OutcomeInv'
<1> SUFFICES ASSUME Inv, OutcomeInv, [Next]_vars PROVE OutcomeInv'
  OBVIOUS
<1>1. CASE UNCHANGED vars
  BY <1>1 DEF vars, OutcomeInv, Kinds, Theirs, Current, Due, Present, FirstTime, Caused, Targeted
<1>2. CASE Next
  BY <1>2, TicketKeepsOutcomes, SepayKeepsOutcomes, PaypalKeepsOutcomes, HttpKeepsOutcomes,
     NotifyKeepsOutcomes, CommitKeepsOutcomes, StopKeepsOutcomes DEF Next
<1> QED BY <1>1, <1>2

LEMMA OutcomeInvariant == Spec => [](Inv /\ OutcomeInv)
<1>1. Init => Inv /\ OutcomeInv
  BY InvInit, OutcomeInit
<1>2. Inv /\ OutcomeInv /\ [Next]_vars => (Inv /\ OutcomeInv)'
  BY InvStep, OutcomeStep
<1> QED BY <1>1, <1>2, PTL DEF Spec

\* A completed payment is announced, or will be: PayPal's message stays in its topic
\* until it is, however often the service stops, and SePay's consumer is between its
\* two writes as long as nothing stopped.
THEOREM CompletionsAnnounced == Spec => []CompletedIsAnnounced
<1>1. Inv /\ OutcomeInv => CompletedIsAnnounced
  <2> SUFFICES ASSUME Inv, OutcomeInv, NEW p \in Payments, rows[p] = "completed",
                      <<"completed", p>> \notin announced
               PROVE  IF Worth(p) = "completed"
                      THEN \E i \in 1..Len(queue["paypal"]) : queue["paypal"][i] = "completed"
                      ELSE ~sound \/ (At("sepay", "publish") /\ jobs["sepay"].pay = p)
    BY DEF CompletedIsAnnounced
  <2>1. amount[p] \in Amounts
    BY DEF Inv, TypeOK
  <2>2. Worth(p) = "completed" <=> amount[p] = "usd"
    BY <2>1 DEF Worth, Amounts, OutcomeInv, Kinds
  <2> QED BY <2>2 DEF OutcomeInv, Kinds, Due, At
<1> QED BY <1>1, OutcomeInvariant, PTL

-----------------------------------------------------------------------------
(* A completed payment nobody is about to write.                           *)

\* A worker that is to write the row of p from what it knew before.
Threatens(job, p) ==
    job.pay = p /\ (job.at \in {"link", "save"} \/ (job.at = "write" /\ job.target # "completed"))

\* What one worker's step keeps settled.
LEMMA SettledBy ==
    ASSUME Inv, NEW p \in Payments, Settled(p), "denied" \notin received', NEW w \in Workers,
           rows'[p] = "completed",
           \A v \in Workers \ {w} : jobs'[v] = jobs[v],
           ~Threatens(jobs'[w], p)
    PROVE  Settled(p)'
BY DEF Settled, Quiet, At, Threatens

\* The two ways a worker goes on.
LEMMA Moved ==
    ASSUME TypeOK, NEW w \in Workers, NEW pc \in Steps, Goto(w, pc)
    PROVE  /\ jobs'[w].at = pc /\ jobs'[w].pay = jobs[w].pay
           /\ jobs'[w].target = jobs[w].target
BY DEF TypeOK, Goto, Job

LEMMA Ended ==
    ASSUME TypeOK, NEW t \in Topics, Return(t)
    PROVE  jobs'[t] = Idle
BY DEF TypeOK, Return, Workers

LEMMA SettledStep ==
    ASSUME Inv, OutcomeInv, [Next]_vars, NEW p \in Payments, Settled(p), "denied" \notin received'
    PROVE  Settled(p)'
<1>0. /\ rows[p] = "completed" /\ "denied" \notin received
      /\ \A w \in Workers : ~Threatens(jobs[w], p)
  BY DEF Settled, Quiet, At, Threatens
<1>1. /\ jobs["created"].pay = Bought /\ jobs["paypal"].pay = Bought /\ jobs["http"].pay = Bought
      /\ jobs["sepay"].pay \in Payments
  BY Words DEF OutcomeInv, Theirs, Inv, TypeOK, Job
<1>2. ~Threatens(Idle, p)
  BY DEF Threatens, Idle
<1> USE Words DEF Inv, TypeOK, At
<1>3. CASE TicketStep
  <2>1. \A v \in Workers \ {"created"} : jobs'[v] = jobs[v]
    BY <1>3, TicketMoves
  <2>2. CASE TakeCreated
    <3>1. jobs'["created"].at \in {"insert", "fail"} /\ rows' = rows
      BY <2>2 DEF TakeCreated, Begin
    <3> QED BY <1>0, <2>1, <3>1, SettledBy DEF Threatens
  <2>3. CASE CreateQr \/ CreatePaypal
    <3>1. rows'[p] = "completed"
      BY <2>3, <1>0 DEF CreateQr, CreatePaypal, SetStatus
    <3>2. jobs'["created"].pay = Bought
          /\ (jobs'["created"].at \in {"fail", "order", "fallback"} \/ rows[Bought] = "none")
      BY <2>3, <1>1 DEF CreateQr, CreatePaypal, Goto, Job
    <3>3. jobs'["created"].at \in {"fail", "order", "fallback", "link"}
      BY <2>3 DEF CreateQr, CreatePaypal, Goto, Job
    <3> QED BY <1>0, <2>1, <3>1, <3>2, <3>3, SettledBy DEF Threatens
  <2>4. CASE LinkQr
    <3>1. p # Bought
      BY <2>4, <1>0, <1>1 DEF LinkQr, Threatens
    <3>2. rows'[p] = "completed" /\ jobs'["created"].at \in {"announce", "fail"}
      BY <2>4, <1>0, <3>1, Moved DEF LinkQr, SetStatus, Steps
    <3> QED BY <2>1, <3>2, SettledBy DEF Threatens
  <2>5. CASE SaveOrder \/ AnnounceReady \/ AnnounceFailure
    <3>1. rows' = rows
          /\ (jobs'["created"] = Idle \/ jobs'["created"].at \in {"announce", "fallback", "fail"})
      BY <2>5, Moved, Ended DEF SaveOrder, AnnounceReady, AnnounceFailure, Steps
    <3>2. ~Threatens(jobs'["created"], p)
      BY <1>2, <3>1 DEF Threatens
    <3>3. rows'[p] = "completed"
      BY <1>0, <3>1
    <3> QED BY <2>1, <3>2, <3>3, SettledBy
  <2>6. CASE Fallback
    <3>1. rows'[p] = "completed"
      BY <2>6, <1>0 DEF Fallback, SetStatus
    <3>2. jobs'["created"] = Idle \/ jobs'["created"].at = "fail"
      BY <2>6, Moved, Ended DEF Fallback, Steps
    <3> QED BY <1>2, <2>1, <3>1, <3>2, SettledBy DEF Threatens
  <2> QED BY <1>3, <2>2, <2>3, <2>4, <2>5, <2>6 DEF TicketStep
<1>4. CASE SepayStep
  <2>1. \A v \in Workers \ {"sepay"} : jobs'[v] = jobs[v]
    BY <1>4 DEF SepayStep, TakeTransfer, CompleteTransfer, PublishTransfer, Begin, Goto, Return, Workers
  <2>2. rows'[p] = "completed"
    BY <1>4, <1>0, <1>1 DEF SepayStep, TakeTransfer, CompleteTransfer, PublishTransfer, SetStatus
  <2>3. \/ jobs'["sepay"] = Idle \/ jobs'["sepay"].at = "publish"
        \/ jobs'["sepay"].at = "write" /\ jobs'["sepay"].target = "completed"
    BY <1>4, Moved, Ended DEF SepayStep, TakeTransfer, CompleteTransfer, PublishTransfer, Begin, Steps
  <2> QED BY <1>2, <2>1, <2>2, <2>3, SettledBy DEF Threatens
<1>5. CASE PaypalStep
  <2>1. \A v \in Workers \ {"paypal"} : jobs'[v] = jobs[v]
    BY <1>5 DEF PaypalStep, TakeCapture, WriteCapture, PublishCapture, Begin, Goto, Return, Workers
  <2>2. ASSUME NEW fate \in Captures, TakeCapture(fate) PROVE Settled(p)'
    <3>1. handled["paypal"] + 1 \in 1..Len(queue["paypal"])
      BY <2>2 DEF TakeCapture, Receives
    <3>2. fate = "completed"
      BY <2>2, <3>1, <1>0 DEF TakeCapture, Receives, Heard, Captures
    <3>3. CASE Return("paypal")
      BY <2>2, <3>3, <1>0, <1>2, <2>1, Ended, SettledBy DEF TakeCapture
    <3>4. CASE Begin("paypal", "write", Bought, "completed")
      <4>1. rows' = rows /\ jobs'["paypal"].target = "completed" /\ jobs'["paypal"].at = "write"
        BY <2>2, <3>4 DEF TakeCapture, Begin
      <4>2. ~Threatens(jobs'["paypal"], p)
        BY <4>1 DEF Threatens
      <4> QED BY <1>0, <2>1, <4>1, <4>2, SettledBy
    <3> QED BY <2>2, <3>2, <3>3, <3>4 DEF TakeCapture
  <2>3. CASE WriteCapture \/ PublishCapture
    <3>1. jobs'["paypal"] = Idle \/ jobs'["paypal"].at = "publish"
      BY <2>3, Moved, Ended DEF WriteCapture, PublishCapture, Steps
    <3>2. rows'[p] = "completed"
      BY <2>3, <1>0, <1>1 DEF WriteCapture, PublishCapture, Threatens
    <3> QED BY <1>2, <2>1, <3>1, <3>2, SettledBy DEF Threatens
  <2> QED BY <1>5, <2>2, <2>3 DEF PaypalStep
<1>6. CASE HttpStep \/ CaptureOrder \/ \E q \in Payments : CreateSepayOrder(q)
  <2>1. \A v \in Workers \ {"http"} : jobs'[v] = jobs[v]
    BY <1>6 DEF HttpStep, FindCaptured, SaveCapture, CaptureOrder, CreateSepayOrder, Begin, Goto, Workers
  <2>2. rows'[p] = "completed"
    BY <1>6, <1>0, <1>1 DEF HttpStep, FindCaptured, SaveCapture, CaptureOrder, CreateSepayOrder,
       SetStatus, Threatens
  <2>3. ~Threatens(jobs'["http"], p)
    BY <1>6, <1>0, <1>1 DEF HttpStep, FindCaptured, SaveCapture, CaptureOrder, CreateSepayOrder,
       Begin, Goto, Threatens, Job
  <2> QED BY <2>1, <2>2, <2>3, SettledBy
<1>7. CASE \/ \E sum \in Transfers : Transfer(sum)
           \/ \E fate \in Captures : PayPalNotifies(fate)
           \/ \E t \in Topics : Commit(t)
           \/ UNCHANGED vars
  <2>1. rows' = rows /\ jobs' = jobs
    BY <1>7 DEF Transfer, PayPalNotifies, Notify, Commit, vars
  <2> QED BY <1>0, <2>1, SettledBy
<1>8. ASSUME NEW w \in Workers, Stop(w) PROVE Settled(p)'
  <2>1. /\ rows' = rows /\ jobs'[w] = Idle
        /\ \A v \in Workers \ {w} : jobs'[v] = jobs[v]
    BY <1>8 DEF Stop
  <2> QED BY <1>0, <1>2, <2>1, SettledBy
<1> QED BY <1>3, <1>4, <1>5, <1>6, <1>7, <1>8 DEF Next

\* Redelivered orders, late captures and further transfers do not reopen a completed
\* payment that nobody is about to write, for any number of payments.
THEOREM CompletedStays == Spec => CompletedStaysWhenQuiet
<1>1. Inv /\ OutcomeInv /\ [Next]_vars =>
        [\A p \in Payments : Settled(p) /\ "denied" \notin received' => Settled(p)']_vars
  BY SettledStep
<1> QED BY <1>1, OutcomeInvariant, PTL DEF Spec, CompletedStaysWhenQuiet

-----------------------------------------------------------------------------
(* Why a ticket is cancelled.                                              *)

\* What a cancellation rests on: an announced failure.
Cancelled == ticket = "cancelled" => \E p \in Payments : <<"failed", p>> \in announced

\* As long as nothing stops, only a method without a strategy or a denied capture
\* cancels a ticket, whatever the order of its payments, their messages and outcomes.
THEOREM CancelledForCause == SaleSpec => []CancelledWithCause
<1>1. SaleInit => Cancelled
  BY DEF SaleInit, Cancelled
<1>2. Cancelled /\ [SaleNext]_saleVars => Cancelled'
  <2> SUFFICES ASSUME Cancelled, [SaleNext]_saleVars PROVE Cancelled'
    OBVIOUS
  <2>1. CASE [Next]_vars /\ UNCHANGED ticket
    BY <2>1, AnnouncedStays DEF Cancelled
  <2>2. CASE Consume
    BY <2>2 DEF Cancelled, Consume, CreditTicket, CancelUnpaid, Delivered, vars
  <2> QED BY <2>1, <2>2 DEF SaleNext, saleVars
<1>3. Inv /\ OutcomeInv /\ Cancelled => CancelledWithCause
  BY DEF OutcomeInv, Caused, Cancelled, CancelledWithCause
<1> QED BY <1>1, <1>2, <1>3, SaleHasPayments, OutcomeInvariant, PTL DEF SaleSpec
=============================================================================
