-------------------------------- MODULE MCOnce --------------------------------
(* What is to happen once however often it is asked for: IdempotencyLock for   *)
(* two requests with one key on two instances, and WebhookIngest for one       *)
(* notification and two overlapping requests.                                  *)
EXTENDS IdempotencyLock, WebhookIngest, TLC

CONSTANTS c1, c2, q1, q2, redis, e1, r1, r2

TwoCallers == {c1, c2}
TwoProcesses == {q1, q2}
OneEach == c1 :> q1 @@ c2 :> q2

OneEvent == {e1}
TwoRequests == {r1, r2}

(* The two share no state, so each is looked at while the other is as it began.  *)

LockAtRest ==
    /\ operation = "activate_ticket" /\ calm
    /\ \A s \in Stores : locks[s] = "free" /\ s \notin results
    /\ \A c \in Callers : calls[c] = NoCall

IngestAtRest ==
    /\ provider = "sepay" /\ sound
    /\ \A e \in Events : hooks[e] = "none" /\ e \notin marks \cup told /\ sent[e] = 0
    /\ \A r \in Requests : requests[r].pc = "idle"

OnceSpec ==
    /\ \/ IngestInit /\ IngestAtRest /\ Init
       \/ Init /\ LockAtRest /\ IngestInit
    /\ [][\/ IngestAtRest /\ Next /\ UNCHANGED ingestVars
          \/ LockAtRest /\ IngestNext /\ UNCHANGED vars]_<<vars, ingestVars>>
    /\ Fairness /\ IngestFairness
=============================================================================
