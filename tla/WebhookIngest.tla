---------------------------- MODULE WebhookIngest ----------------------------
(***************************************************************************)
(* processWebhook of the webhook service, SePay's and PayPal's alike: a    *)
(* notification is looked up in Redis, recorded as a hook in MongoDB,      *)
(* marked in Redis, published to the payment service and recorded as       *)
(* processed.  Deliveries and retries of one notification overlap; any     *)
(* call to Redis, MongoDB or Kafka may fail; the process may die.          *)
(***************************************************************************)
EXTENDS Naturals

CONSTANTS
    Events,        \* notifications: one webhookId each
    Requests       \* HTTP requests in progress

VARIABLES
    provider,      \* whose service it is
    hooks,         \* MongoDB: the status of a notification's hook
    marks,         \* Redis: notifications whose idempotency key is set
    requests,      \* per request, what it works on and where it is
    sent,          \* history: messages of a notification in the topic
    told,          \* history: notifications answered with 200
    sound          \* history: no crash, no MongoDB error, no Kafka error

ingestVars == <<provider, hooks, marks, requests, sent, told, sound>>

HookStatus == {"none", "received", "processing", "processed", "failed", "duplicate"}

Calls == {"idle", "check", "findDuplicate", "saveDuplicate", "insert", "begin",
          "mark", "publish", "note", "noteFailure", "finish", "markDone",
          "findFailed", "saveFailed"}

Request == [pc    : Calls,
            event : Events,
            retry : BOOLEAN,       \* of POST /retry, not the provider's
            seen  : HookStatus]    \* status in the document it holds

IngestTypeOK ==
    /\ provider \in {"sepay", "paypal"}
    /\ hooks \in [Events -> HookStatus]
    /\ marks \in SUBSET Events
    /\ requests \in [Requests -> Request]
    /\ sent \in [Events -> Nat]
    /\ told \in SUBSET Events
    /\ sound \in BOOLEAN

IngestInit ==
    /\ provider \in {"sepay", "paypal"}
    /\ hooks = [e \in Events |-> "none"]
    /\ marks = {}
    /\ requests \in [Requests -> {r \in Request : r.pc = "idle" /\ ~r.retry /\ r.seen = "none"}]
    /\ sent = [e \in Events |-> 0]
    /\ told = {}
    /\ sound = TRUE

-----------------------------------------------------------------------------
(* Helpers.                                                                *)

Awaits(r, pc) == requests[r].pc = pc
GoTo(r, pc) == requests' = [requests EXCEPT ![r].pc = pc]
Load(r, pc, status) == requests' = [requests EXCEPT ![r].pc = pc, ![r].seen = status]

Answers == sound' = sound
Breaks == sound' = FALSE

\* An exception in processWebhook: the hook is looked up to be marked failed.
Throw(r) == Breaks /\ GoTo(r, "findFailed")

\* The first save of a document is an insert.
Create(r) == hooks' = [hooks EXCEPT ![requests[r].event] = "received"]

\* Later ones send the fields that differ from what was loaded.
Save(r, status) ==
    hooks' = IF requests[r].seen = status THEN hooks
             ELSE [hooks EXCEPT ![requests[r].event] = status]

\* A save that fails may have been applied.
SaveBreaks(r, status) ==
    /\ Throw(r)
    /\ UNCHANGED hooks \/ Save(r, status)

\* 200 to the provider; the result of a retry goes to whoever asked for it.
Accept(r) ==
    /\ GoTo(r, "idle")
    /\ told' = IF requests[r].retry THEN told ELSE told \cup {requests[r].event}

-----------------------------------------------------------------------------
(* Where a notification comes from.                                        *)

Receive(r, e) ==
    /\ Awaits(r, "idle")
    /\ requests' = [requests EXCEPT ![r] = [pc |-> "check", event |-> e,
                                            retry |-> FALSE, seen |-> "none"]]
    /\ UNCHANGED <<provider, hooks, marks, sent, told, sound>>

\* retryFailedWebhooks: the stored payload once more.
RetryFailed(r, e) ==
    /\ Awaits(r, "idle")
    /\ hooks[e] = "failed"
    /\ requests' = [requests EXCEPT ![r] = [pc |-> "check", event |-> e,
                                            retry |-> TRUE, seen |-> "none"]]
    /\ UNCHANGED <<provider, hooks, marks, sent, told, sound>>

-----------------------------------------------------------------------------
(* The duplicate check.                                                    *)

\* The transmission id is a part of PayPal's key, and a stored hook has it under
\* another name: a retry makes another key, and finds neither mark nor hook by it.
KeyOfHook(r) == requests[r].retry => provider = "sepay"

\* Mutant: without Redis everything counts as a duplicate.
CheckProcessed_FailClosed(r) ==
    /\ Awaits(r, "check")
    /\ \E redis \in BOOLEAN :
          GoTo(r, IF redis => requests[r].event \in marks /\ KeyOfHook(r)
                  THEN "findDuplicate" ELSE "insert")
    /\ UNCHANGED <<provider, hooks, marks, sent, told, sound>>

\* isProcessed; without Redis nothing is a duplicate.
CheckProcessed(r) ==
    /\ Awaits(r, "check")
    /\ \E redis \in BOOLEAN :
          GoTo(r, IF redis /\ requests[r].event \in marks /\ KeyOfHook(r)
                  THEN "findDuplicate" ELSE "insert")
    /\ UNCHANGED <<provider, hooks, marks, sent, told, sound>>

FindDuplicate(r) ==
    LET hook == hooks[requests[r].event] IN
    /\ Awaits(r, "findDuplicate")
    /\ \/ /\ Answers
          /\ hook = "none"
          /\ Accept(r)
       \/ /\ Answers
          /\ hook # "none"
          /\ Load(r, "saveDuplicate", hook)
          /\ UNCHANGED told
       \/ Throw(r) /\ UNCHANGED told
    /\ UNCHANGED <<provider, hooks, marks, sent>>

MarkAsDuplicate(r) ==
    /\ Awaits(r, "saveDuplicate")
    /\ \/ Answers /\ Save(r, "duplicate") /\ Accept(r)
       \/ SaveBreaks(r, "duplicate") /\ UNCHANGED told
    /\ UNCHANGED <<provider, marks, sent>>

-----------------------------------------------------------------------------
(* The hook, the mark and the message.                                     *)

\* Mutant: no unique index.
Insert_NotUnique(r) ==
    /\ Awaits(r, "insert")
    /\ Answers
    /\ Create(r)
    /\ Load(r, "begin", "received")
    /\ UNCHANGED <<provider, marks, sent, told>>

\* The first save of the document: webhookId has a unique index, and a second
\* insert is an exception like any other, though nothing broke.
Insert(r) ==
    /\ Awaits(r, "insert")
    /\ \/ /\ Answers
          /\ hooks[requests[r].event] = "none"
          /\ Create(r)
          /\ Load(r, "begin", "received")
       \/ /\ Answers
          /\ hooks[requests[r].event] # "none"
          /\ GoTo(r, "findFailed")
          /\ UNCHANGED hooks
       \/ /\ Throw(r)
          /\ UNCHANGED hooks \/ (hooks[requests[r].event] = "none" /\ Create(r))
    /\ UNCHANGED <<provider, marks, sent, told>>

MarkAsProcessing(r) ==
    /\ Awaits(r, "begin")
    /\ \/ Answers /\ Save(r, "processing") /\ Load(r, "mark", "processing")
       \/ SaveBreaks(r, "processing")
    /\ UNCHANGED <<provider, marks, sent, told>>

\* Redis, for an hour; an error is logged.
MarkProcessing(r) ==
    /\ Awaits(r, "mark")
    /\ marks' \in {marks, marks \cup {requests[r].event}}
    /\ GoTo(r, "publish")
    /\ UNCHANGED <<provider, hooks, sent, told, sound>>

\* A failed publish, which Kafka may have taken, is a value and not an exception.
PublishWebhookEvent(r) ==
    /\ Awaits(r, "publish")
    /\ \/ Answers /\ sent' = [sent EXCEPT ![requests[r].event] = @ + 1] /\ GoTo(r, "note")
       \/ /\ Breaks
          /\ \E n \in 0..1 : sent' = [sent EXCEPT ![requests[r].event] = @ + n]
          /\ GoTo(r, "noteFailure")
    /\ UNCHANGED <<provider, hooks, marks, told>>

\* addPublishedEvent after a success: its failure counts as one of the publish.
NotePublished(r) ==
    /\ Awaits(r, "note")
    /\ \/ Answers /\ GoTo(r, "finish")
       \/ Breaks /\ GoTo(r, "noteFailure")
    /\ UNCHANGED <<provider, hooks, marks, sent, told>>

NoteFailure(r) ==
    /\ Awaits(r, "noteFailure")
    /\ \/ Answers /\ GoTo(r, "finish")
       \/ Throw(r)
    /\ UNCHANGED <<provider, hooks, marks, sent, told>>

MarkAsProcessed(r) ==
    /\ Awaits(r, "finish")
    /\ \/ Answers /\ Save(r, "processed") /\ Load(r, "markDone", "processed")
       \/ SaveBreaks(r, "processed")
    /\ UNCHANGED <<provider, marks, sent, told>>

\* Redis, for a day; then 200.
MarkDone(r) ==
    /\ Awaits(r, "markDone")
    /\ marks' \in {marks, marks \cup {requests[r].event}}
    /\ Accept(r)
    /\ UNCHANGED <<provider, hooks, sent, sound>>

-----------------------------------------------------------------------------
(* The exception handler, and what happens to the process.                 *)

\* findByWebhookId; 422 when there is no hook or MongoDB fails again.
FindFailed(r) ==
    LET hook == hooks[requests[r].event] IN
    /\ Awaits(r, "findFailed")
    /\ \/ Answers /\ hook = "none" /\ GoTo(r, "idle")
       \/ Answers /\ hook # "none" /\ Load(r, "saveFailed", hook)
       \/ Breaks /\ GoTo(r, "idle")
    /\ UNCHANGED <<provider, hooks, marks, sent, told>>

\* markAsFailed, of whoever's hook it is; 422.
MarkAsFailed(r) ==
    /\ Awaits(r, "saveFailed")
    /\ \/ Answers /\ Save(r, "failed")
       \/ Breaks /\ (UNCHANGED hooks \/ Save(r, "failed"))
    /\ GoTo(r, "idle")
    /\ UNCHANGED <<provider, marks, sent, told>>

ExpireMark(e) ==
    /\ e \in marks
    /\ marks' = marks \ {e}
    /\ UNCHANGED <<provider, hooks, requests, sent, told, sound>>

ServiceDies ==
    /\ \E r \in Requests : ~Awaits(r, "idle")
    /\ requests' = [r \in Requests |-> [requests[r] EXCEPT !.pc = "idle"]]
    /\ Breaks
    /\ UNCHANGED <<provider, hooks, marks, sent, told>>

RequestStep(r) ==
    \/ CheckProcessed(r) \/ FindDuplicate(r) \/ MarkAsDuplicate(r)
    \/ Insert(r) \/ MarkAsProcessing(r) \/ MarkProcessing(r)
    \/ PublishWebhookEvent(r) \/ NotePublished(r) \/ NoteFailure(r)
    \/ MarkAsProcessed(r) \/ MarkDone(r)
    \/ FindFailed(r) \/ MarkAsFailed(r)

IngestNext ==
    \/ \E r \in Requests :
          \/ \E e \in Events : Receive(r, e) \/ RetryFailed(r, e)
          \/ RequestStep(r)
    \/ \E e \in Events : ExpireMark(e)
    \/ ServiceDies

IngestSpec == IngestInit /\ [][IngestNext]_ingestVars

\* A request in progress goes on: every call it makes returns or throws.
IngestFairness == \A r \in Requests : WF_ingestVars(RequestStep(r))

IngestLiveSpec == IngestSpec /\ IngestFairness

-----------------------------------------------------------------------------
(* Whatever fails.                                                         *)

\* The payment service gets a notification at most once, however often the provider
\* delivers it, operators retry it, requests overlap, Redis forgets or loses it and
\* the process dies: the unique index of the hook decides, not the mark in Redis.
PublishedAtMostOnce == \A e \in Events : sent[e] <= 1

\* What the provider was told is done is on record: after a 200 the provider sends
\* nothing more, so without its hook the notification would be gone without a trace.
AcceptedIsRecorded == \A e \in told : hooks[e] # "none"

-----------------------------------------------------------------------------
(* What becomes of an accepted notification.                               *)

\* Somebody still works on it.
InProgress(e) == \E r \in Requests : requests[r].event = e /\ ~Awaits(r, "idle")

\* The topic is documented as "At-least-once": a notification answered with 200 has
\* been published once nobody works on it.  A failed publish, or a stop after the mark in
\* Redis, refutes this of the code.
AcceptedIsPublished == \A e \in told : sent[e] > 0 \/ InProgress(e)

\* That holds while the process, MongoDB and Kafka do not fail, whatever Redis does
\* and whatever requests overlap.
AcceptedIsPublishedWhenSound == sound => AcceptedIsPublished

\* And then every notification that arrives is published in the end, also one whose
\* own request lost the race for the insert or was taken for a duplicate.
ReceivedIsPublished ==
    \A e \in Events :
       (\E r \in Requests : Awaits(r, "check") /\ requests[r].event = e)
          ~> (sent[e] > 0 \/ ~sound)
=============================================================================
