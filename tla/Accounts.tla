------------------------------ MODULE Accounts ------------------------------
(***************************************************************************)
(* One passenger's account: the row of auth-service, the profile           *)
(* user-service makes of the event user.created, the profile's copies in   *)
(* the cache that ticket-service reads.  A deletion starts at the profile  *)
(* and reaches the account by passenger.deleted.                           *)
(***************************************************************************)
EXTENDS Naturals, FiniteSets

CONSTANTS
    Requests,      \* HTTP requests to change or delete the profile
    MaxFaults      \* bound: calls that fail, and processes that die

ASSUME RequestsAssumption == IsFiniteSet(Requests)
ASSUME FaultsAssumption == MaxFaults \in Nat

VARIABLES
    user,          \* the row of Users
    announce,      \* the background publish of user.created
    topics,        \* the topics of user-service that hold a message
    consumer,      \* user-service's consumer, one message at a time
    profile,       \* passengerId of the row of Passengers, or None
    lastId,        \* the last passengerId given
    cache,         \* passengerIds in Redis; node-redis takes the arguments
                   \* 'EX', ttl for options and sets no expiry
    syncs,         \* passengerIds in passenger-cache-sync
    requests,
    deleted,       \* passenger.deleted is on its topic
    auth,          \* auth-service's consumer
    faults,        \* history: their number ...
    broken,        \* history: one that may leave a profile or an account alone
    stale          \* history: a cache entry may have outlived its removal

accountVars == <<user, announce, deleted, auth>>
profileVars == <<topics, consumer, profile, lastId, cache, syncs, requests>>
history == <<faults, broken, stale>>
vars == <<accountVars, profileVars, history>>

None == 0
Ids == 1..(MaxFaults + 1)
Topics == {"created", "login", "sync"}
Idle == [step |-> "idle", topic |-> "none", copy |-> None]

TypeOK ==
    /\ user \in {"none", "active", "gone"}
    /\ announce \in {"none", "due", "over"}
    /\ topics \subseteq Topics
    /\ consumer \in [step : {"idle", "read", "create", "store", "publish", "commit"},
                     topic : Topics \cup {"none"}, copy : Ids \cup {None}]
    /\ consumer.step # "idle" => consumer.topic \in topics
    /\ profile \in Ids \cup {None}
    /\ lastId \in Ids \cup {None}
    /\ cache \subseteq 1..lastId /\ syncs \subseteq 1..lastId
    /\ requests \in [Requests -> [step : {"new", "found", "destroy", "clear", "done"},
                                  kind : {"delete", "update"}, copy : Ids \cup {None}]]
    /\ deleted \in BOOLEAN
    /\ auth \in {"idle", "revoke"}
    /\ faults \in 0..MaxFaults
    /\ broken \in BOOLEAN /\ stale \in BOOLEAN

Init ==
    /\ user = "none" /\ announce = "none"
    /\ deleted = FALSE /\ auth = "idle"
    /\ topics = {} /\ consumer = Idle
    /\ profile = None /\ lastId = None
    /\ cache = {} /\ syncs = {}
    /\ requests \in [Requests -> [step : {"new"}, kind : {"delete", "update"}, copy : {None}]]
    /\ faults = 0 /\ broken = FALSE /\ stale = FALSE

\* One more call fails or process dies; harm says what that may leave behind.
Fault(harm) ==
    /\ faults < MaxFaults
    /\ faults' = faults + 1
    /\ broken' = (broken \/ "broken" \in harm)
    /\ stale' = (stale \/ "stale" \in harm)

-----------------------------------------------------------------------------
(* auth-service: signing up, logging in, and the end of the account.       *)

SignUp ==
    /\ user = "none"
    /\ user' = "active" /\ announce' = "due"
    /\ UNCHANGED <<deleted, auth, profileVars, history>>

PublishCreated ==
    /\ announce = "due"
    /\ announce' = "over"
    /\ topics' = topics \cup {"created"}
    /\ UNCHANGED <<user, deleted, auth, consumer, profile, lastId, cache, syncs, requests, history>>

\* The failure is logged; the user has the answer already.
PublishCreatedFails ==
    /\ announce = "due"
    /\ announce' = "over"
    /\ Fault({"broken"})
    /\ UNCHANGED <<user, deleted, auth, profileVars>>

\* A login publishes user.login.  Bound: one message of each topic at a time.
Login ==
    /\ user = "active" /\ "login" \notin topics
    /\ topics' = topics \cup {"login"}
    /\ UNCHANGED <<accountVars, consumer, profile, lastId, cache, syncs, requests, history>>

\* passenger.deleted.
DeleteUser ==
    /\ deleted /\ auth = "idle"
    /\ user' = IF user = "active" THEN "gone" ELSE user
    /\ auth' = "revoke"
    /\ UNCHANGED <<announce, deleted, profileVars, history>>

\* The error is logged and the message committed.
DeleteUserFails ==
    /\ deleted /\ auth = "idle"
    /\ deleted' = FALSE
    /\ Fault({"broken"})
    /\ UNCHANGED <<user, announce, auth, profileVars>>

\* Expires the account's keys, and the message is done.
RevokeAllUserKeys ==
    /\ auth = "revoke"
    /\ auth' = "idle" /\ deleted' = FALSE
    /\ UNCHANGED <<user, announce, profileVars, history>>

\* auth-service dies: an event it has not published is lost, one it has not handled comes
\* again.
AuthStops ==
    /\ Fault(IF announce = "due" THEN {"broken"} ELSE {})
    /\ announce' = IF announce = "due" THEN "over" ELSE announce
    /\ auth' = "idle"
    /\ UNCHANGED <<user, deleted, profileVars>>

-----------------------------------------------------------------------------
(* user-service's consumer.                                                *)

Goto(step, id) == consumer' = [consumer EXCEPT !.step = step, !.copy = id]

Take(t) ==
    /\ consumer.step = "idle" /\ t \in topics
    /\ consumer' = [step |-> "read", topic |-> t, copy |-> None]
    /\ UNCHANGED <<accountVars, topics, profile, lastId, cache, syncs, requests, history>>

\* Mutant: the message is committed when it is read.
ReadProfile_CommitsFirst ==
    /\ consumer.step = "read"
    /\ IF consumer.topic = "created"
       THEN Goto(IF profile = None THEN "create" ELSE "commit", None)
       ELSE Goto(CASE profile = None -> "commit"
                   [] profile # None /\ consumer.topic = "login" -> "store"
                   [] OTHER -> "publish", profile)
    /\ topics' = topics \ {consumer.topic}
    /\ UNCHANGED <<accountVars, profile, lastId, cache, syncs, requests, history>>

\* A new account gets its profile; a login has the cache filled, a sync request has a copy
\* published for ticket-service to fill it.
ReadProfile ==
    /\ consumer.step = "read"
    /\ IF consumer.topic = "created"
       THEN Goto(IF profile = None THEN "create" ELSE "commit", None)
       ELSE Goto(CASE profile = None -> "commit"
                   [] profile # None /\ consumer.topic = "login" -> "store"
                   [] OTHER -> "publish", profile)
    /\ UNCHANGED <<accountVars, topics, profile, lastId, cache, syncs, requests, history>>

CreateProfile ==
    /\ consumer.step = "create"
    /\ lastId' = lastId + 1
    /\ profile' = lastId'
    /\ Goto("store", lastId')
    /\ UNCHANGED <<accountVars, topics, cache, syncs, requests, history>>

\* The row is refused (phoneNumber may be missing); the error is logged.
CreateProfileFails ==
    /\ consumer.step = "create"
    /\ Goto("commit", None)
    /\ Fault({"broken"})
    /\ UNCHANGED <<accountVars, topics, profile, lastId, cache, syncs, requests>>

\* setPassenger of the copy.
StoreCopy ==
    /\ consumer.step = "store"
    /\ cache' = cache \cup {consumer.copy}
    /\ Goto("commit", None)
    /\ UNCHANGED <<accountVars, topics, profile, lastId, syncs, requests, history>>

PublishSync ==
    /\ consumer.step = "publish"
    /\ syncs' = syncs \cup {consumer.copy}
    /\ Goto("commit", None)
    /\ UNCHANGED <<accountVars, topics, profile, lastId, cache, requests, history>>

\* Redis or Kafka takes nothing; the error is logged.
StoreOrPublishFails ==
    /\ consumer.step \in {"store", "publish"}
    /\ Goto("commit", None)
    /\ Fault({})
    /\ UNCHANGED <<accountVars, topics, profile, lastId, cache, syncs, requests>>

Commit ==
    /\ consumer.step = "commit"
    /\ topics' = topics \ {consumer.topic}
    /\ consumer' = Idle
    /\ UNCHANGED <<accountVars, profile, lastId, cache, syncs, requests, history>>

\* user-service dies.  The message comes again: for an account whose profile has been
\* created, and may be deleted by then, this makes another one.  A deletion that has been
\* published is not carried out.
UserServiceStops ==
    /\ Fault((IF \/ consumer.topic = "created" /\ consumer.step \in {"store", "commit"}
                 \/ \E r \in Requests : requests[r].step = "destroy"
              THEN {"broken"} ELSE {})
             \cup (IF \E r \in Requests : requests[r].step = "clear" THEN {"stale"} ELSE {}))
    /\ consumer' = Idle
    /\ requests' = [r \in Requests |->
                       IF requests[r].step = "new" THEN requests[r]
                       ELSE [requests[r] EXCEPT !.step = "done"]]
    /\ UNCHANGED <<accountVars, topics, profile, lastId, cache, syncs>>

-----------------------------------------------------------------------------
(* Requests about the profile, and ticket-service.                         *)

Proceed(r, step) == requests' = [requests EXCEPT ![r].step = step]

FindProfile(r) ==
    /\ requests[r].step = "new"
    /\ requests' = [requests EXCEPT ![r].step = IF profile = None THEN "done" ELSE "found",
                                    ![r].copy = profile]
    /\ UNCHANGED <<accountVars, topics, consumer, profile, lastId, cache, syncs, history>>

\* Of a row deleted meanwhile the update changes nothing, and the cache gets the copy.
UpdateProfile(r) ==
    /\ requests[r].step = "found" /\ requests[r].kind = "update"
    /\ cache' = cache \cup {requests[r].copy}
    /\ Proceed(r, "done")
    /\ UNCHANGED <<accountVars, topics, consumer, profile, lastId, syncs, history>>

\* deletePassengerByUserId publishes first ...
PublishDeleted(r) ==
    /\ requests[r].step = "found" /\ requests[r].kind = "delete"
    /\ deleted' = TRUE
    /\ Proceed(r, "destroy")
    /\ UNCHANGED <<user, announce, auth, topics, consumer, profile, lastId, cache, syncs, history>>

\* Mutant: the failure is logged only.
PublishDeletedFails_Ignored(r) ==
    /\ requests[r].step = "found" /\ requests[r].kind = "delete"
    /\ Proceed(r, "destroy")
    /\ Fault({})
    /\ UNCHANGED <<accountVars, topics, consumer, profile, lastId, cache, syncs>>

\* The failure ends the request.
PublishDeletedFails(r) ==
    /\ requests[r].step = "found" /\ requests[r].kind = "delete"
    /\ Proceed(r, "done")
    /\ Fault({})
    /\ UNCHANGED <<accountVars, topics, consumer, profile, lastId, cache, syncs>>

\* Mutant: the cache is left to its expiry.
DestroyProfile_LeavesCache(r) ==
    /\ requests[r].step = "destroy"
    /\ profile' = IF profile = requests[r].copy THEN None ELSE profile
    /\ Proceed(r, "done")
    /\ UNCHANGED <<accountVars, topics, consumer, lastId, cache, syncs, history>>

\* ... then destroys the row ...
DestroyProfile(r) ==
    /\ requests[r].step = "destroy"
    /\ profile' = IF profile = requests[r].copy THEN None ELSE profile
    /\ Proceed(r, "clear")
    /\ UNCHANGED <<accountVars, topics, consumer, lastId, cache, syncs, history>>

DestroyProfileFails(r) ==
    /\ requests[r].step = "destroy"
    /\ Proceed(r, "done")
    /\ Fault({"broken"})
    /\ UNCHANGED <<accountVars, topics, consumer, profile, lastId, cache, syncs>>

\* Copies of a profile that are yet to reach the cache.
Held(id) ==
    \/ id \in syncs
    \/ consumer.step \in {"store", "publish"} /\ consumer.copy = id
    \/ \E r \in Requests : /\ requests[r].kind = "update" /\ requests[r].step = "found"
                           /\ requests[r].copy = id

\* ... and takes it from the cache.  removePassenger logs its failure.
ClearCache(r) ==
    /\ requests[r].step = "clear"
    /\ Proceed(r, "done")
    /\ \/ /\ cache' = cache \ {requests[r].copy}
          /\ stale' = (stale \/ Held(requests[r].copy))
          /\ UNCHANGED <<faults, broken>>
       \/ Fault({"stale"}) /\ UNCHANGED cache
    /\ UNCHANGED <<accountVars, topics, consumer, profile, lastId, syncs>>

\* ticket-service misses a passenger in the cache; its token outlives the account.
RequestSync ==
    /\ user # "none" /\ "sync" \notin topics
    /\ topics' = topics \cup {"sync"}
    /\ UNCHANGED <<accountVars, consumer, profile, lastId, cache, syncs, requests, history>>

SyncPassengerCache(id) ==
    /\ id \in syncs
    /\ syncs' = syncs \ {id}
    /\ cache' = cache \cup {id}
    /\ UNCHANGED <<accountVars, topics, consumer, profile, lastId, requests, history>>

-----------------------------------------------------------------------------

Consume ==
    \/ \E t \in Topics : Take(t)
    \/ ReadProfile \/ CreateProfile \/ CreateProfileFails
    \/ StoreCopy \/ PublishSync \/ StoreOrPublishFails \/ Commit

Request(r) ==
    \/ FindProfile(r) \/ UpdateProfile(r)
    \/ PublishDeleted(r) \/ PublishDeletedFails(r)
    \/ DestroyProfile(r) \/ DestroyProfileFails(r)
    \/ ClearCache(r)

EndAccount == DeleteUser \/ DeleteUserFails \/ RevokeAllUserKeys

Announce == PublishCreated \/ PublishCreatedFails

Next ==
    \/ SignUp \/ Announce \/ Login \/ EndAccount \/ AuthStops
    \/ Consume \/ UserServiceStops
    \/ \E r \in Requests : Request(r)
    \/ RequestSync
    \/ \E id \in Ids : SyncPassengerCache(id)

Spec == Init /\ [][Next]_vars

\* Consumers handle what there is, and calls end.
Fairness ==
    /\ WF_vars(Announce) /\ WF_vars(EndAccount)
    /\ WF_vars(Consume) /\ SF_vars(Take("created"))

LiveSpec == Spec /\ Fairness

-----------------------------------------------------------------------------

\* Nothing is under way that could still make or end a profile or an account.
Rest ==
    /\ announce # "due" /\ "created" \notin topics \cup {consumer.topic}
    /\ ~deleted
    /\ \A r \in Requests : requests[r].step \in {"new", "done"}

\* There is an account if and only if there is a profile, whatever else fails and however
\* often the services die: only a lost user.created, a refused row, a failed deletion of the
\* account, one of the profile cut short after its event, or a user.created handled again
\* leaves one of them alone.
AgreeAtRest == Rest /\ ~broken => (user = "active" <=> profile # None)

\* A passenger who is gone stays in the cache only if a copy was under way to it when it
\* was cleared, or it could not be cleared.
CacheFollowsProfile ==
    Rest /\ ~stale => \A id \in cache \cup syncs : id = profile

\* An account gets its profile, or is gone, unless user.created was lost or refused.
ProfileFollows == user = "active" ~> (profile # None \/ user = "gone" \/ broken)
=============================================================================
