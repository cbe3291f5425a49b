------------------------- MODULE WebhookIngestProofs -------------------------
(***************************************************************************)
(* Theorems about WebhookIngest, for any number of notifications and of    *)
(* overlapping requests.                                                   *)
(***************************************************************************)
EXTENDS WebhookIngest, TLAPS

LEMMA TypeInit == IngestInit => IngestTypeOK
BY DEF IngestInit, IngestTypeOK, HookStatus

LEMMA TypeGoto ==
    ASSUME IngestTypeOK, NEW r \in Requests, NEW pc \in Calls, GoTo(r, pc)
    PROVE  requests' \in [Requests -> Request]
BY DEF IngestTypeOK, GoTo, Request

LEMMA TypeLoad ==
    ASSUME IngestTypeOK, NEW r \in Requests, NEW pc \in Calls, NEW status \in HookStatus,
           Load(r, pc, status)
    PROVE  requests' \in [Requests -> Request]
BY DEF IngestTypeOK, Load, Request

LEMMA TypeSave ==
    ASSUME IngestTypeOK, NEW r \in Requests, NEW status \in HookStatus, Save(r, status)
    PROVE  hooks' \in [Events -> HookStatus]
BY DEF IngestTypeOK, Save, Request

LEMMA TypeCreate ==
    ASSUME IngestTypeOK, NEW r \in Requests, Create(r)
    PROVE  hooks' \in [Events -> HookStatus]
BY DEF IngestTypeOK, Create, Request, HookStatus

LEMMA TypeAccept ==
    ASSUME IngestTypeOK, NEW r \in Requests, Accept(r)
    PROVE  requests' \in [Requests -> Request] /\ told' \in SUBSET Events
<1>1. requests' \in [Requests -> Request]
  BY TypeGoto DEF Accept, Calls
<1>2. requests[r].event \in Events
  BY DEF IngestTypeOK, Request
<1> QED BY <1>1, <1>2 DEF Accept, IngestTypeOK

LEMMA TypeStart ==
    ASSUME IngestTypeOK, NEW r \in Requests, NEW e \in Events, NEW retry \in BOOLEAN,
           requests' = [requests EXCEPT ![r] = [pc |-> "check", event |-> e,
                                                retry |-> retry, seen |-> "none"]]
    PROVE  requests' \in [Requests -> Request]
BY DEF IngestTypeOK, Request, Calls, HookStatus

LEMMA TypeSound == ASSUME IngestTypeOK, Answers \/ Breaks PROVE sound' \in BOOLEAN
BY DEF IngestTypeOK, Answers, Breaks

LEMMA TypeStep == IngestTypeOK /\ [IngestNext]_ingestVars => IngestTypeOK'
<1> SUFFICES ASSUME IngestTypeOK, [IngestNext]_ingestVars PROVE IngestTypeOK'
  OBVIOUS
<1>1. ASSUME NEW r \in Requests, NEW e \in Events, Receive(r, e) \/ RetryFailed(r, e)
      PROVE  IngestTypeOK'
  <2>1. requests' \in [Requests -> Request]
    BY <1>1, TypeStart DEF Receive, RetryFailed
  <2> QED BY <1>1, <2>1 DEF Receive, RetryFailed, IngestTypeOK
<1>2. ASSUME NEW r \in Requests, RequestStep(r) PROVE IngestTypeOK'
  <2> DEFINE e == requests[r].event
  <2>0. e \in Events /\ hooks[e] \in HookStatus
    BY DEF IngestTypeOK, Request
  <2>t. ASSUME Throw(r) PROVE requests' \in [Requests -> Request] /\ sound' \in BOOLEAN
    BY <2>t, TypeGoto, TypeSound DEF Throw, Calls
  <2>s. ASSUME NEW status \in HookStatus, SaveBreaks(r, status)
        PROVE  /\ requests' \in [Requests -> Request] /\ sound' \in BOOLEAN
               /\ hooks' \in [Events -> HookStatus]
    <3>1. requests' \in [Requests -> Request] /\ sound' \in BOOLEAN
      BY <2>s, <2>t DEF SaveBreaks
    <3>2. hooks' \in [Events -> HookStatus]
      BY <2>s, TypeSave DEF SaveBreaks, IngestTypeOK
    <3> QED BY <3>1, <3>2
  <2>1. CASE CheckProcessed(r)
    <3>1. requests' \in [Requests -> Request]
      BY <2>1, TypeGoto DEF CheckProcessed, Calls
    <3> QED BY <2>1, <3>1 DEF CheckProcessed, IngestTypeOK
  <2>2. CASE FindDuplicate(r)
    <3>1. requests' \in [Requests -> Request] /\ told' \in SUBSET Events /\ sound' \in BOOLEAN
      BY <2>2, <2>0, <2>t, TypeAccept, TypeLoad, TypeSound DEF FindDuplicate, IngestTypeOK, Calls
    <3> QED BY <2>2, <3>1 DEF FindDuplicate, IngestTypeOK
  <2>3. CASE MarkAsDuplicate(r)
    <3>0. "duplicate" \in HookStatus
      BY DEF HookStatus
    <3>1. /\ requests' \in [Requests -> Request] /\ told' \in SUBSET Events
          /\ sound' \in BOOLEAN /\ hooks' \in [Events -> HookStatus]
      BY <2>3, <2>s, <3>0, TypeAccept, TypeSave, TypeSound DEF MarkAsDuplicate, IngestTypeOK
    <3> QED BY <2>3, <3>1 DEF MarkAsDuplicate, IngestTypeOK
  <2>4. CASE Insert(r)
    <3>0. "received" \in HookStatus
      BY DEF HookStatus
    <3>1. /\ requests' \in [Requests -> Request] /\ sound' \in BOOLEAN
          /\ hooks' \in [Events -> HookStatus]
      BY <2>4, <2>t, <3>0, TypeLoad, TypeGoto, TypeCreate, TypeSound DEF Insert, IngestTypeOK, Calls
    <3> QED BY <2>4, <3>1 DEF Insert, IngestTypeOK
  <2>5. CASE MarkAsProcessing(r)
    <3>0. "processing" \in HookStatus /\ "mark" \in Calls
      BY DEF HookStatus, Calls
    <3>1. /\ requests' \in [Requests -> Request] /\ sound' \in BOOLEAN
          /\ hooks' \in [Events -> HookStatus]
      BY <2>5, <2>s, <3>0, TypeLoad, TypeSave, TypeSound DEF MarkAsProcessing
    <3> QED BY <2>5, <3>1 DEF MarkAsProcessing, IngestTypeOK
  <2>6. CASE MarkProcessing(r)
    <3>1. requests' \in [Requests -> Request] /\ marks' \in SUBSET Events
      BY <2>6, <2>0, TypeGoto DEF MarkProcessing, Calls, IngestTypeOK
    <3> QED BY <2>6, <3>1 DEF MarkProcessing, IngestTypeOK
  <2>7. CASE PublishWebhookEvent(r)
    <3>1. requests' \in [Requests -> Request] /\ sound' \in BOOLEAN
      BY <2>7, TypeGoto, TypeSound DEF PublishWebhookEvent, Calls
    <3>2. sent' \in [Events -> Nat]
      BY <2>7, <2>0 DEF PublishWebhookEvent, IngestTypeOK
    <3> QED BY <2>7, <3>1, <3>2 DEF PublishWebhookEvent, IngestTypeOK
  <2>8. CASE NotePublished(r)
    <3>1. requests' \in [Requests -> Request] /\ sound' \in BOOLEAN
      BY <2>8, TypeGoto, TypeSound DEF NotePublished, Calls
    <3> QED BY <2>8, <3>1 DEF NotePublished, IngestTypeOK
  <2>9. CASE NoteFailure(r)
    <3>1. requests' \in [Requests -> Request] /\ sound' \in BOOLEAN
      BY <2>9, <2>t, TypeGoto, TypeSound DEF NoteFailure, Calls
    <3> QED BY <2>9, <3>1 DEF NoteFailure, IngestTypeOK
  <2>10. CASE MarkAsProcessed(r)
    <3>0. "processed" \in HookStatus /\ "markDone" \in Calls
      BY DEF HookStatus, Calls
    <3>1. /\ requests' \in [Requests -> Request] /\ sound' \in BOOLEAN
          /\ hooks' \in [Events -> HookStatus]
      BY <2>10, <2>s, <3>0, TypeLoad, TypeSave, TypeSound DEF MarkAsProcessed
    <3> QED BY <2>10, <3>1 DEF MarkAsProcessed, IngestTypeOK
  <2>11. CASE MarkDone(r)
    <3>1. /\ requests' \in [Requests -> Request] /\ told' \in SUBSET Events
          /\ marks' \in SUBSET Events
      BY <2>11, <2>0, TypeAccept DEF MarkDone, IngestTypeOK
    <3> QED BY <2>11, <3>1 DEF MarkDone, IngestTypeOK
  <2>12. CASE FindFailed(r)
    <3>1. requests' \in [Requests -> Request] /\ sound' \in BOOLEAN
      BY <2>12, <2>0, TypeGoto, TypeLoad, TypeSound DEF FindFailed, Calls
    <3> QED BY <2>12, <3>1 DEF FindFailed, IngestTypeOK
  <2>13. CASE MarkAsFailed(r)
    <3>0. "failed" \in HookStatus /\ "idle" \in Calls
      BY DEF HookStatus, Calls
    <3>1. /\ requests' \in [Requests -> Request] /\ sound' \in BOOLEAN
          /\ hooks' \in [Events -> HookStatus]
      BY <2>13, <3>0, TypeGoto, TypeSave, TypeSound DEF MarkAsFailed, IngestTypeOK
    <3> QED BY <2>13, <3>1 DEF MarkAsFailed, IngestTypeOK
  <2> QED BY <1>2, <2>1, <2>2, <2>3, <2>4, <2>5, <2>6, <2>7, <2>8, <2>9, <2>10,
             <2>11, <2>12, <2>13 DEF RequestStep
<1>3. ASSUME NEW e \in Events, ExpireMark(e) PROVE IngestTypeOK'
  BY <1>3 DEF ExpireMark, IngestTypeOK
<1>4. CASE ServiceDies
  <2>1. requests' \in [Requests -> Request]
    BY <1>4 DEF ServiceDies, IngestTypeOK, Request, Calls
  <2> QED BY <1>4, <2>1 DEF ServiceDies, Breaks, IngestTypeOK
<1>5. CASE UNCHANGED ingestVars
  BY <1>5 DEF ingestVars, IngestTypeOK
<1> QED BY <1>1, <1>2, <1>3, <1>4, <1>5 DEF IngestNext

\* Whatever fails, hooks, marks and requests stay what the schema and the code declare.
THEOREM TypeCorrect == IngestSpec => []IngestTypeOK
<1>1. IngestInit => IngestTypeOK
  BY TypeInit
<1>2. IngestTypeOK /\ [IngestNext]_ingestVars => IngestTypeOK'
  BY TypeStep
<1> QED BY <1>1, <1>2, PTL DEF IngestSpec

-----------------------------------------------------------------------------
(* What one step of a request leaves alone.                                *)

LEMMA StepKeepsEvents ==
    ASSUME IngestTypeOK, NEW r \in Requests, RequestStep(r)
    PROVE  /\ \A s \in Requests : requests'[s].event = requests[s].event
           /\ \A s \in Requests \ {r} : requests'[s] = requests[s]
<1> DEFINE Moved == /\ \A s \in Requests : requests'[s].event = requests[s].event
                    /\ \A s \in Requests \ {r} : requests'[s] = requests[s]
<1> SUFFICES Moved
  OBVIOUS
<1>1. ASSUME NEW pc, GoTo(r, pc) PROVE Moved
  BY <1>1 DEF GoTo, IngestTypeOK, Request
<1>2. ASSUME NEW pc, NEW status, Load(r, pc, status) PROVE Moved
  BY <1>2 DEF Load, IngestTypeOK, Request
<1>3. (Accept(r) \/ Throw(r)) => Moved
  BY <1>1 DEF Accept, Throw
<1>4. ASSUME NEW status, SaveBreaks(r, status) PROVE Moved
  BY <1>3, <1>4 DEF SaveBreaks
<1> HIDE DEF Moved
<1>5. CASE CheckProcessed(r) \/ FindDuplicate(r) \/ MarkAsDuplicate(r) \/ Insert(r)
  BY <1>1, <1>2, <1>3, <1>4, <1>5 DEF CheckProcessed, FindDuplicate, MarkAsDuplicate, Insert
<1>6. CASE MarkAsProcessing(r) \/ MarkProcessing(r) \/ PublishWebhookEvent(r)
  BY <1>1, <1>2, <1>3, <1>4, <1>6 DEF MarkAsProcessing, MarkProcessing, PublishWebhookEvent
<1>7. CASE NotePublished(r) \/ NoteFailure(r) \/ MarkAsProcessed(r)
  BY <1>1, <1>2, <1>3, <1>4, <1>7 DEF NotePublished, NoteFailure, MarkAsProcessed
<1>8. CASE MarkDone(r) \/ FindFailed(r) \/ MarkAsFailed(r)
  BY <1>1, <1>2, <1>3, <1>8 DEF MarkDone, FindFailed, MarkAsFailed
<1> QED BY <1>5, <1>6, <1>7, <1>8 DEF RequestStep

\* A hook is never removed, and only an insert makes one.
LEMMA HooksStay ==
    ASSUME IngestTypeOK, [IngestNext]_ingestVars, NEW e \in Events, hooks[e] # "none"
    PROVE  hooks'[e] # "none"
<1>1. ASSUME NEW r \in Requests, NEW status \in HookStatus \ {"none"}, Save(r, status)
      PROVE  hooks'[e] # "none"
  BY <1>1 DEF Save, IngestTypeOK
<1>2. ASSUME NEW r \in Requests, Create(r) PROVE hooks'[e] # "none"
  BY <1>2 DEF Create, IngestTypeOK
<1>3. ASSUME NEW r \in Requests, RequestStep(r) PROVE hooks'[e] # "none"
  BY <1>1, <1>2, <1>3
     DEF RequestStep, CheckProcessed, FindDuplicate, MarkAsDuplicate, Insert, MarkAsProcessing,
         MarkProcessing, PublishWebhookEvent, NotePublished, NoteFailure,
         MarkAsProcessed, MarkDone, FindFailed, MarkAsFailed, SaveBreaks, HookStatus
<1> QED
  BY <1>3 DEF IngestNext, ingestVars, Receive, RetryFailed, ExpireMark, ServiceDies

-----------------------------------------------------------------------------
(* A notification is published at most once.                               *)

\* The request that inserted the hook, until it answers.
Unsent(r) == requests[r].pc \in {"begin", "mark", "publish"}
Owner(r) == Unsent(r) \/ requests[r].pc \in {"note", "noteFailure", "finish", "markDone"}

OneOwner ==
    /\ \A r \in Requests : Owner(r) => hooks[requests[r].event] # "none"
    /\ \A r, s \in Requests :
          Owner(r) /\ Owner(s) /\ requests[r].event = requests[s].event => r = s

SentByOwner ==
    /\ \A r \in Requests : Unsent(r) => sent[requests[r].event] = 0
    /\ \A e \in Events : hooks[e] = "none" => sent[e] = 0

OnceInv == PublishedAtMostOnce /\ OneOwner /\ SentByOwner

\* Nobody becomes an owner and nothing is sent.
LEMMA OnceFrame ==
    ASSUME IngestTypeOK, OnceInv, [IngestNext]_ingestVars, UNCHANGED sent,
           \A r \in Requests : /\ Owner(r)' => Owner(r)
                               /\ Unsent(r)' => Unsent(r)
                               /\ Owner(r)' => requests'[r].event = requests[r].event
    PROVE  OnceInv'
<1>1. \A r \in Requests : requests[r].event \in Events
  BY DEF IngestTypeOK, Request
<1>2. \A e \in Events : hooks[e] # "none" => hooks'[e] # "none"
  BY HooksStay
<1>3. PublishedAtMostOnce'
  BY DEF OnceInv, PublishedAtMostOnce
<1>4. OneOwner'
  BY <1>1, <1>2 DEF OnceInv, OneOwner
<1>5. SentByOwner'
  BY <1>2 DEF OnceInv, SentByOwner, Owner
<1> QED BY <1>3, <1>4, <1>5 DEF OnceInv

LEMMA OnceStep == IngestTypeOK /\ OnceInv /\ [IngestNext]_ingestVars => OnceInv'
<1> SUFFICES ASSUME IngestTypeOK, OnceInv, [IngestNext]_ingestVars PROVE OnceInv'
  OBVIOUS
<1>1. ASSUME NEW r \in Requests, NEW e \in Events, Receive(r, e) \/ RetryFailed(r, e)
      PROVE  OnceInv'
  <2>1. requests'[r].pc = "check" /\ \A s \in Requests \ {r} : requests'[s] = requests[s]
    BY <1>1 DEF Receive, RetryFailed, IngestTypeOK
  <2>2. UNCHANGED sent
    BY <1>1 DEF Receive, RetryFailed
  <2> QED BY <2>1, <2>2, OnceFrame DEF Owner, Unsent
<1>2. ASSUME NEW r \in Requests, RequestStep(r) PROVE OnceInv'
  <2>1. /\ \A s \in Requests : requests'[s].event = requests[s].event
        /\ \A s \in Requests \ {r} : requests'[s] = requests[s]
    BY <1>2, StepKeepsEvents
  <2> DEFINE e == requests[r].event
  <2>2. e \in Events
    BY DEF IngestTypeOK, Request
  <2>g. ASSUME NEW pc, GoTo(r, pc) PROVE requests'[r].pc = pc
    BY <2>g DEF GoTo, IngestTypeOK, Request
  <2>l. ASSUME NEW pc, NEW status, Load(r, pc, status) PROVE requests'[r].pc = pc
    BY <2>l DEF Load, IngestTypeOK, Request
  <2>b. ASSUME NEW status, SaveBreaks(r, status) PROVE requests'[r].pc = "findFailed"
    BY <2>b, <2>g DEF SaveBreaks, Throw
  <2>f. ASSUME UNCHANGED sent, Owner(r)' => Owner(r), Unsent(r)' => Unsent(r)
        PROVE  OnceInv'
    BY <2>f, <2>1, OnceFrame DEF Owner, Unsent
  <2>3. CASE CheckProcessed(r) \/ FindDuplicate(r) \/ MarkAsDuplicate(r)
             \/ FindFailed(r) \/ MarkAsFailed(r)
    <3>1. /\ UNCHANGED sent
          /\ requests'[r].pc \in {"idle", "findDuplicate", "insert", "saveDuplicate",
                                  "findFailed", "saveFailed"}
      BY <2>3, <2>g, <2>l, <2>b
         DEF CheckProcessed, FindDuplicate, MarkAsDuplicate, FindFailed, MarkAsFailed,
             Accept, Throw
    <3> QED BY <3>1, <2>f DEF Owner, Unsent
  <2>4. CASE Insert(r)
    <3>0. UNCHANGED sent
      BY <2>4 DEF Insert
    <3>1. CASE requests'[r].pc = "findFailed"
      BY <3>0, <3>1, <2>f DEF Owner, Unsent
    <3>2. CASE hooks[e] = "none" /\ Create(r) /\ requests'[r].pc = "begin"
      <4>1. hooks' = [hooks EXCEPT ![e] = "received"]
        BY <3>2 DEF Create
      <4>2. \A s \in Requests : Owner(s) => requests[s].event # e
        BY <3>2 DEF OnceInv, OneOwner
      <4>3. \A s \in Requests \ {r} : /\ Owner(s)' <=> Owner(s)
                                      /\ Unsent(s)' <=> Unsent(s)
        BY <2>1 DEF Owner, Unsent
      <4>4. OneOwner'
        BY <4>1, <4>2, <4>3, <2>1, <2>2 DEF OnceInv, OneOwner, IngestTypeOK
      <4>5. sent[e] = 0
        BY <3>2, <2>2 DEF OnceInv, SentByOwner
      <4>6. SentByOwner'
        BY <4>1, <4>3, <4>5, <3>0, <2>1, <2>2 DEF OnceInv, SentByOwner, IngestTypeOK
      <4> QED BY <4>4, <4>6, <3>0 DEF OnceInv, PublishedAtMostOnce
    <3> QED BY <2>4, <3>1, <3>2, <2>g, <2>l DEF Insert, Throw
  <2>5. CASE MarkAsProcessing(r) \/ MarkProcessing(r)
    <3>1. /\ UNCHANGED sent /\ Unsent(r)
          /\ requests'[r].pc \in {"mark", "publish", "findFailed"}
      BY <2>5, <2>g, <2>l, <2>b DEF MarkAsProcessing, MarkProcessing, Awaits, Unsent
    <3> QED BY <3>1, <2>f DEF Owner, Unsent
  <2>6. CASE PublishWebhookEvent(r)
    <3>1. Unsent(r) /\ requests'[r].pc \in {"note", "noteFailure"} /\ UNCHANGED hooks
      BY <2>6, <2>g DEF PublishWebhookEvent, Awaits, Unsent
    <3>2. sent[e] = 0 /\ hooks[e] # "none"
      BY <3>1 DEF OnceInv, SentByOwner, OneOwner, Owner
    <3>3. PICK n \in 0..1 : sent' = [sent EXCEPT ![e] = n]
      <4>1. PICK m \in 0..1 : sent' = [sent EXCEPT ![e] = @ + m]
        BY <2>6 DEF PublishWebhookEvent
      <4>2. sent[e] + m = m
        BY <3>2
      <4> QED BY <4>1, <4>2
    <3>4. PublishedAtMostOnce'
      BY <3>3, <2>2 DEF OnceInv, PublishedAtMostOnce, IngestTypeOK
    <3>5. \A s \in Requests : Owner(s)' => Owner(s)
      BY <3>1, <2>1 DEF Owner, Unsent
    <3>6. OneOwner'
      BY <3>1, <3>5, <2>1 DEF OnceInv, OneOwner
    <3>7. \A s \in Requests : Unsent(s)' => Unsent(s) /\ requests[s].event # e
      BY <3>1, <2>1 DEF OnceInv, OneOwner, Owner, Unsent
    <3>8. SentByOwner'
      BY <3>1, <3>2, <3>3, <3>7, <2>1, <2>2 DEF OnceInv, SentByOwner, IngestTypeOK
    <3> QED BY <3>4, <3>6, <3>8 DEF OnceInv
  <2>7. CASE NotePublished(r) \/ NoteFailure(r) \/ MarkAsProcessed(r) \/ MarkDone(r)
    <3>1. /\ UNCHANGED sent /\ Owner(r)
          /\ requests'[r].pc \in {"noteFailure", "finish", "markDone", "findFailed", "idle"}
      BY <2>7, <2>g, <2>l, <2>b
         DEF NotePublished, NoteFailure, MarkAsProcessed, MarkDone, Accept, Throw, Awaits, Owner
    <3> QED BY <3>1, <2>f DEF Owner, Unsent
  <2> QED BY <1>2, <2>3, <2>4, <2>5, <2>6, <2>7 DEF RequestStep
<1>3. ASSUME NEW e \in Events, ExpireMark(e) PROVE OnceInv'
  BY <1>3, OnceFrame DEF ExpireMark, Owner, Unsent
<1>4. CASE ServiceDies
  <2>1. \A s \in Requests : requests'[s].pc = "idle"
    BY <1>4 DEF ServiceDies, IngestTypeOK, Request
  <2> QED BY <1>4, <2>1, OnceFrame DEF ServiceDies, Owner, Unsent
<1>5. CASE UNCHANGED ingestVars
  BY <1>5, OnceFrame DEF ingestVars, Owner, Unsent
<1> QED BY <1>1, <1>2, <1>3, <1>4, <1>5 DEF IngestNext

LEMMA OnceInit == IngestInit => OnceInv
BY DEF IngestInit, OnceInv, PublishedAtMostOnce, OneOwner, SentByOwner, Owner, Unsent

\* For any number of deliveries and retries, whatever fails and whenever the process
\* dies: a notification reaches the topic at most once.
THEOREM PublishedOnce == IngestSpec => []PublishedAtMostOnce
<1>1. IngestInit => IngestTypeOK /\ OnceInv
  BY TypeInit, OnceInit
<1>2. (IngestTypeOK /\ OnceInv) /\ [IngestNext]_ingestVars => (IngestTypeOK /\ OnceInv)'
  BY TypeStep, OnceStep
<1>3. OnceInv => PublishedAtMostOnce
  BY DEF OnceInv
<1> QED BY <1>1, <1>2, <1>3, PTL DEF IngestSpec

-----------------------------------------------------------------------------
(* What was accepted is on record, and published if nothing broke.         *)

\* It looks for, or holds, a hook that another request may have made.
Finder(r) == requests[r].pc \in {"findDuplicate", "saveDuplicate", "saveFailed"}

RecordInv ==
    /\ AcceptedIsRecorded
    /\ \A e \in marks : hooks[e] # "none"
    /\ \A r \in Requests : Finder(r) => hooks[requests[r].event] # "none"

\* Nothing is marked or accepted but what has a hook.
LEMMA RecordFrame ==
    ASSUME IngestTypeOK, RecordInv, [IngestNext]_ingestVars,
           \A e \in told' \cup marks' : e \in told \cup marks \/ hooks[e] # "none",
           \A r \in Requests :
              Finder(r)' => hooks[requests'[r].event] # "none"
    PROVE  RecordInv'
<1>1. \A e \in Events : hooks[e] # "none" => hooks'[e] # "none"
  BY HooksStay
<1>2. IngestTypeOK'
  BY TypeStep
<1>3. \A e \in told' \cup marks' : hooks'[e] # "none"
  BY <1>1, <1>2 DEF RecordInv, AcceptedIsRecorded, IngestTypeOK
<1>4. \A r \in Requests : Finder(r)' => hooks'[requests'[r].event] # "none"
  BY <1>1, <1>2 DEF IngestTypeOK, Request
<1> QED BY <1>3, <1>4 DEF RecordInv, AcceptedIsRecorded, Finder

LEMMA RecordStep == IngestTypeOK /\ OnceInv /\ RecordInv /\ [IngestNext]_ingestVars => RecordInv'
<1> SUFFICES ASSUME IngestTypeOK, OnceInv, RecordInv, [IngestNext]_ingestVars PROVE RecordInv'
  OBVIOUS
<1>1. ASSUME NEW r \in Requests, NEW e \in Events, Receive(r, e) \/ RetryFailed(r, e)
      PROVE  RecordInv'
  <2>1. /\ requests'[r].pc = "check" /\ UNCHANGED <<told, marks>>
        /\ \A s \in Requests \ {r} : requests'[s] = requests[s]
    BY <1>1 DEF Receive, RetryFailed, IngestTypeOK
  <2> QED BY <2>1, RecordFrame DEF Finder, RecordInv
<1>2. ASSUME NEW r \in Requests, RequestStep(r) PROVE RecordInv'
  <2>1. /\ \A s \in Requests : requests'[s].event = requests[s].event
        /\ \A s \in Requests \ {r} : requests'[s] = requests[s]
    BY <1>2, StepKeepsEvents
  <2> DEFINE e == requests[r].event
  <2>2. hooks[e] # "none" => RecordInv'
    <3> SUFFICES ASSUME hooks[e] # "none" PROVE RecordInv'
      OBVIOUS
    <3>1. /\ told' \in SUBSET (told \cup {e}) /\ marks' \in SUBSET (marks \cup {e})
      BY <1>2 DEF RequestStep, CheckProcessed, FindDuplicate, MarkAsDuplicate, Insert,
         MarkAsProcessing, MarkProcessing, PublishWebhookEvent, NotePublished,
         NoteFailure, MarkAsProcessed, MarkDone, FindFailed, MarkAsFailed, Accept
    <3> QED BY <3>1, <2>1, RecordFrame DEF Finder, RecordInv
  <2>3. Owner(r) \/ Finder(r) => hooks[e] # "none"
    BY DEF OnceInv, OneOwner, RecordInv
  <2>g. ASSUME NEW pc, GoTo(r, pc) PROVE requests'[r].pc = pc
    BY <2>g DEF GoTo, IngestTypeOK, Request
  <2>l. ASSUME NEW pc, NEW status, Load(r, pc, status) PROVE requests'[r].pc = pc
    BY <2>l DEF Load, IngestTypeOK, Request
  <2>4. CASE CheckProcessed(r)
    <3>1. \/ e \in marks
          \/ UNCHANGED <<told, marks>> /\ requests'[r].pc = "insert"
      BY <2>4, <2>g DEF CheckProcessed
    <3>2. CASE e \in marks
      BY <2>2, <3>2 DEF RecordInv
    <3>3. CASE UNCHANGED <<told, marks>> /\ requests'[r].pc = "insert"
      BY <3>3, <2>1, RecordFrame DEF Finder, RecordInv
    <3> QED BY <3>1, <3>2, <3>3
  <2>5. CASE FindDuplicate(r) \/ MarkAsDuplicate(r)
    <3>1. Finder(r)
      BY <2>5 DEF FindDuplicate, MarkAsDuplicate, Awaits, Finder
    <3> QED BY <3>1, <2>2, <2>3
  <2>6. CASE Insert(r) \/ FindFailed(r) \/ MarkAsFailed(r)
    <3>1. \/ hooks[e] # "none"
          \/ /\ UNCHANGED <<told, marks>>
             /\ requests'[r].pc \in {"begin", "findFailed", "idle"}
      BY <2>6, <2>g, <2>l DEF Insert, FindFailed, MarkAsFailed, Throw
    <3>2. CASE /\ UNCHANGED <<told, marks>>
               /\ requests'[r].pc \in {"begin", "findFailed", "idle"}
      BY <3>2, <2>1, RecordFrame DEF Finder, RecordInv
    <3> QED BY <3>1, <3>2, <2>2
  <2>7. CASE \/ MarkAsProcessing(r) \/ MarkProcessing(r) \/ PublishWebhookEvent(r)
             \/ NotePublished(r) \/ NoteFailure(r) \/ MarkAsProcessed(r) \/ MarkDone(r)
    <3>1. Owner(r)
      BY <2>7 DEF MarkAsProcessing, MarkProcessing, PublishWebhookEvent, NotePublished,
                  NoteFailure, MarkAsProcessed, MarkDone, Awaits, Owner, Unsent
    <3> QED BY <3>1, <2>2, <2>3
  <2> QED BY <1>2, <2>4, <2>5, <2>6, <2>7 DEF RequestStep
<1>3. ASSUME NEW e \in Events, ExpireMark(e) PROVE RecordInv'
  BY <1>3, RecordFrame DEF ExpireMark, Finder, RecordInv
<1>4. CASE ServiceDies
  <2>1. \A s \in Requests : requests'[s].pc = "idle"
    BY <1>4 DEF ServiceDies, IngestTypeOK, Request
  <2> QED BY <1>4, <2>1, RecordFrame DEF ServiceDies, Finder
<1>5. CASE UNCHANGED ingestVars
  BY <1>5, RecordFrame DEF ingestVars, Finder, RecordInv
<1> QED BY <1>1, <1>2, <1>3, <1>4, <1>5 DEF IngestNext

LEMMA RecordInit == IngestInit => RecordInv
BY DEF IngestInit, RecordInv, AcceptedIsRecorded, Finder

\* For any number of deliveries and retries, whatever fails: nothing is answered with
\* 200 of which MongoDB has no hook.
THEOREM AcceptedOnRecord == IngestSpec => []AcceptedIsRecorded
<1>1. IngestInit => IngestTypeOK /\ OnceInv /\ RecordInv
  BY TypeInit, OnceInit, RecordInit
<1>2. (IngestTypeOK /\ OnceInv /\ RecordInv) /\ [IngestNext]_ingestVars => (IngestTypeOK /\ OnceInv /\ RecordInv)'
  BY TypeStep, OnceStep, RecordStep
<1>3. RecordInv => AcceptedIsRecorded
  BY DEF RecordInv
<1> QED BY <1>1, <1>2, <1>3, PTL DEF IngestSpec

\* Whose hook it is sends it, unless something broke on the way.
SoundInv ==
    sound => \A e \in Events :
                hooks[e] # "none"
                => sent[e] > 0 \/ \E r \in Requests : Unsent(r) /\ requests[r].event = e

\* No hook is made and no owner stops before it has sent.
LEMMA SoundFrame ==
    ASSUME IngestTypeOK, SoundInv, UNCHANGED sent, sound' => sound,
           sound' => \A e \in Events : hooks'[e] # "none" => hooks[e] # "none",
           sound' => \A r \in Requests : Unsent(r) => /\ Unsent(r)'
                                             /\ requests'[r].event = requests[r].event
    PROVE  SoundInv'
BY DEF SoundInv, IngestTypeOK

LEMMA SoundStep == IngestTypeOK /\ OnceInv /\ RecordInv /\ SoundInv /\ [IngestNext]_ingestVars => SoundInv'
<1> SUFFICES ASSUME IngestTypeOK, OnceInv, RecordInv, SoundInv, [IngestNext]_ingestVars PROVE SoundInv'
  OBVIOUS
<1>1. ASSUME NEW r \in Requests, NEW e \in Events, Receive(r, e) \/ RetryFailed(r, e)
      PROVE  SoundInv'
  <2>1. /\ ~Unsent(r) /\ UNCHANGED <<hooks, sent, sound>>
        /\ \A s \in Requests \ {r} : requests'[s] = requests[s]
    BY <1>1 DEF Receive, RetryFailed, IngestTypeOK, Awaits, Unsent
  <2> QED BY <2>1, SoundFrame DEF Unsent
<1>2. ASSUME NEW r \in Requests, RequestStep(r) PROVE SoundInv'
  <2>1. /\ \A s \in Requests : requests'[s].event = requests[s].event
        /\ \A s \in Requests \ {r} : requests'[s] = requests[s]
    BY <1>2, StepKeepsEvents
  <2> DEFINE e == requests[r].event
  <2>2. e \in Events
    BY DEF IngestTypeOK, Request
  <2>g. ASSUME NEW pc, GoTo(r, pc) PROVE requests'[r].pc = pc
    BY <2>g DEF GoTo, IngestTypeOK, Request
  <2>l. ASSUME NEW pc, NEW status, Load(r, pc, status) PROVE requests'[r].pc = pc
    BY <2>l DEF Load, IngestTypeOK, Request
  <2>s. ASSUME NEW status, Save(r, status), hooks[e] # "none"
        PROVE  \A f \in Events : hooks'[f] # "none" => hooks[f] # "none"
    BY <2>s, <2>2 DEF Save, IngestTypeOK
  <2>b. Breaks => SoundInv'
    BY DEF Breaks, SoundInv
  <2>3. CASE CheckProcessed(r) \/ MarkProcessing(r) \/ NotePublished(r) \/ NoteFailure(r)
             \/ FindDuplicate(r) \/ MarkDone(r) \/ FindFailed(r)
    <3>1. CASE Breaks
      BY <3>1, <2>b
    <3>2. CASE ~Breaks
      <4>1. UNCHANGED <<hooks, sent, sound>> /\ (Unsent(r) => requests'[r].pc = "publish")
        BY <2>3, <2>g, <3>2
           DEF CheckProcessed, MarkProcessing, NotePublished, NoteFailure, FindDuplicate,
               MarkDone, FindFailed, Accept, Throw, Answers, Awaits, Unsent
      <4> QED BY <4>1, <2>1, SoundFrame DEF Unsent
    <3> QED BY <3>1, <3>2
  <2>4. CASE MarkAsDuplicate(r) \/ MarkAsProcessing(r) \/ MarkAsProcessed(r)
             \/ MarkAsFailed(r)
    <3>1. hooks[e] # "none"
      BY <2>4 DEF MarkAsDuplicate, MarkAsProcessing, MarkAsProcessed, MarkAsFailed,
                  Awaits, OnceInv, OneOwner, RecordInv, Owner, Unsent, Finder
    <3>2. CASE Breaks
      BY <3>2, <2>b
    <3>3. CASE ~Breaks
      <4>1. /\ UNCHANGED <<sent, sound>>
            /\ Unsent(r) => requests'[r].pc = "mark"
        BY <2>4, <2>l, <3>3
           DEF MarkAsDuplicate, MarkAsProcessing, MarkAsProcessed, MarkAsFailed,
               SaveBreaks, Throw, Answers, Awaits, Unsent
      <4>2. \A f \in Events : hooks'[f] # "none" => hooks[f] # "none"
        BY <2>4, <2>s, <3>1, <3>3
           DEF MarkAsDuplicate, MarkAsProcessing, MarkAsProcessed, MarkAsFailed,
               SaveBreaks, Throw
      <4> QED BY <4>1, <4>2, <2>1, SoundFrame DEF Unsent
    <3> QED BY <3>2, <3>3
  <2>5. CASE Insert(r)
    <3>1. CASE Breaks
      BY <3>1, <2>b
    <3>2. CASE ~Breaks /\ UNCHANGED hooks
      <4>1. ~Unsent(r) /\ UNCHANGED <<sent, sound>>
        BY <2>5, <3>2 DEF Insert, Throw, Answers, Awaits, Unsent
      <4> QED BY <4>1, <3>2, <2>1, SoundFrame DEF Unsent
    <3>3. CASE ~Breaks /\ Create(r) /\ requests'[r].pc = "begin"
      <4>1. ~Unsent(r) /\ UNCHANGED <<sent, sound>>
        BY <2>5, <3>3 DEF Insert, Throw, Answers, Awaits, Unsent
      <4>2. Unsent(r)' /\ requests'[r].event = e
        BY <3>3, <2>1 DEF Unsent
      <4>3. \A s \in Requests : Unsent(s) => Unsent(s)'
        BY <4>1, <2>1 DEF Unsent
      <4>4. \A f \in Events : f # e => hooks'[f] = hooks[f]
        BY <3>3, <2>2 DEF Create, IngestTypeOK
      <4> QED BY <4>1, <4>2, <4>3, <4>4, <2>1 DEF SoundInv
    <3> QED BY <2>5, <2>l, <3>1, <3>2, <3>3 DEF Insert, Throw
  <2>6. CASE PublishWebhookEvent(r)
    <3>1. CASE Breaks
      BY <3>1, <2>b
    <3>2. CASE ~Breaks
      <4>1. /\ sent' = [sent EXCEPT ![e] = @ + 1]
            /\ UNCHANGED <<hooks, sound>>
        BY <2>6, <3>2 DEF PublishWebhookEvent, Answers
      <4>2. sent'[e] > 0 /\ \A f \in Events : f # e => sent'[f] = sent[f]
        BY <4>1, <2>2 DEF IngestTypeOK
      <4>3. \A s \in Requests : Unsent(s) /\ requests[s].event # e => Unsent(s)'
        BY <2>1 DEF Unsent
      <4> QED BY <4>1, <4>2, <4>3, <2>1 DEF SoundInv
    <3> QED BY <3>1, <3>2
  <2> QED BY <1>2, <2>3, <2>4, <2>5, <2>6 DEF RequestStep
<1>3. ASSUME NEW e \in Events, ExpireMark(e) PROVE SoundInv'
  BY <1>3, SoundFrame DEF ExpireMark, Unsent
<1>4. CASE ServiceDies
  BY <1>4 DEF ServiceDies, Breaks, SoundInv
<1>5. CASE UNCHANGED ingestVars
  BY <1>5, SoundFrame DEF ingestVars, Unsent
<1> QED BY <1>1, <1>2, <1>3, <1>4, <1>5 DEF IngestNext

\* For any number of deliveries and retries, whatever Redis does: while the process,
\* MongoDB and Kafka do not fail, what was answered with 200 and is not being worked
\* on has been published.
THEOREM AcceptedPublished == IngestSpec => []AcceptedIsPublishedWhenSound
<1>1. IngestInit => IngestTypeOK /\ OnceInv /\ RecordInv /\ SoundInv
  BY TypeInit, OnceInit, RecordInit DEF IngestInit, SoundInv
<1>2. (IngestTypeOK /\ OnceInv /\ RecordInv /\ SoundInv) /\ [IngestNext]_ingestVars
      => (IngestTypeOK /\ OnceInv /\ RecordInv /\ SoundInv)'
  BY TypeStep, OnceStep, RecordStep, SoundStep
<1>3. IngestTypeOK /\ RecordInv /\ SoundInv => AcceptedIsPublishedWhenSound
  BY DEF RecordInv, AcceptedIsRecorded, SoundInv, AcceptedIsPublishedWhenSound,
         AcceptedIsPublished, InProgress, Awaits, Unsent, IngestTypeOK
<1> QED BY <1>1, <1>2, <1>3, PTL DEF IngestSpec
=============================================================================
