---------------------------- MODULE AccountsProofs ----------------------------
(***************************************************************************)
(* An account and its profile agree at rest, and the cache follows the     *)
(* profile, for any number of requests and faults.                         *)
(***************************************************************************)
EXTENDS Accounts, TLAPS

USE FaultsAssumption DEF vars, accountVars, profileVars, history, None, Ids, Topics, Idle

\* user.created is yet to be handled.
Due ==
    \/ announce # "over"
    \/ "created" \in topics
       /\ ~(consumer.topic = "created" /\ consumer.step \in {"store", "commit"})

\* It is published once, and handled again only after a fault: so the ids suffice.
Numbered ==
    /\ user = "none" <=> announce = "none"
    /\ "created" \in topics => announce = "over"
    /\ consumer.step = "idle" <=> consumer.topic = "none"
    /\ consumer.step = "create" => consumer.topic = "created"
    /\ profile <= lastId
    /\ consumer.step \in {"store", "publish"} => consumer.copy \in 1..lastId
    /\ \A r \in Requests : requests[r].step \in {"found", "destroy", "clear"}
                            => requests[r].copy \in 1..lastId
    /\ lastId <= faults + 1
    /\ Due => lastId <= faults

TypeInv == TypeOK /\ Numbered

At(step) == \E r \in Requests : requests[r].step = step
Ended == deleted \/ user = "gone"

\* While nothing broke there is one profile at most: before it the account is on its way to
\* user-service, and only a deletion that has published its event takes it away.
Agreeing ==
    /\ lastId \in {0, 1}
    /\ lastId = 0 /\ user # "none" =>
           user = "active" /\ (announce = "due" \/ "created" \in topics)
    /\ lastId = 0 /\ consumer.topic = "created" => consumer.step \in {"read", "create"}
    /\ lastId = 1 => ~Due
    /\ Ended => lastId = 1 /\ (profile = None \/ At("destroy"))
    /\ At("destroy") => Ended
    /\ lastId = 1 /\ profile = None => Ended
    /\ auth = "revoke" => user = "gone"

AgreeInv == ~broken => Agreeing

\* Every copy is the profile's, or that of a profile about to be taken from the cache.
Traced(id) ==
    id = profile \/ \E r \in Requests : requests[r].step = "clear" /\ requests[r].copy = id

CacheInv ==
    /\ consumer.step = "create" => profile = None
    /\ ~stale => \A id \in Ids : id \in cache \/ Held(id) => Traced(id)

\* TypeOK in parts, of which an action leaves most alone.
AccountType ==
    /\ user \in {"none", "active", "gone"}
    /\ announce \in {"none", "due", "over"}
    /\ deleted \in BOOLEAN
    /\ auth \in {"idle", "revoke"}

ConsumerType ==
    /\ topics \subseteq Topics
    /\ consumer \in [step : {"idle", "read", "create", "store", "publish", "commit"},
                     topic : Topics \cup {"none"}, copy : Ids \cup {None}]
    /\ consumer.step # "idle" => consumer.topic \in topics

ProfileType ==
    /\ profile \in Ids \cup {None}
    /\ lastId \in Ids \cup {None}
    /\ cache \subseteq 1..lastId /\ syncs \subseteq 1..lastId

RequestType ==
    requests \in [Requests -> [step : {"new", "found", "destroy", "clear", "done"},
                              kind : {"delete", "update"}, copy : Ids \cup {None}]]

FaultsType == faults \in 0..MaxFaults
FlagsType == broken \in BOOLEAN /\ stale \in BOOLEAN

\* One action at a time.
LEMMA Actions ==
    ASSUME Next
    PROVE  \/ SignUp \/ PublishCreated \/ PublishCreatedFails \/ Login
           \/ DeleteUser \/ DeleteUserFails \/ RevokeAllUserKeys \/ AuthStops
           \/ \E t \in Topics : Take(t)
           \/ ReadProfile \/ CreateProfile \/ CreateProfileFails
           \/ StoreCopy \/ PublishSync \/ StoreOrPublishFails \/ Commit
           \/ UserServiceStops
           \/ \E r \in Requests : \/ FindProfile(r) \/ UpdateProfile(r)
                                  \/ PublishDeleted(r) \/ PublishDeletedFails(r)
                                  \/ DestroyProfile(r) \/ DestroyProfileFails(r)
                                  \/ ClearCache(r)
           \/ RequestSync
           \/ \E id \in Ids : SyncPassengerCache(id)
BY DEF Next, Announce, EndAccount, Consume, Request

\* Where the reading of the profile leads.
LEMMA ReadOutcome ==
    ASSUME TypeOK, ReadProfile
    PROVE  /\ consumer.step = "read" /\ consumer'.topic = consumer.topic
           /\ \/ consumer'.step = "create" /\ consumer.topic = "created" /\ profile = None
              \/ /\ consumer'.step = "commit"
                 /\ consumer.topic = "created" => profile # None
              \/ /\ profile # None /\ consumer.topic # "created"
                 /\ consumer'.step \in {"store", "publish"} /\ consumer'.copy = profile
<1> USE DEF ReadProfile, Goto, TypeOK
<1>1. CASE consumer.topic = "created" /\ profile = None
  BY <1>1
<1>2. CASE consumer.topic = "created" /\ profile # None
  BY <1>2
<1>3. CASE consumer.topic # "created" /\ profile = None
  BY <1>3
<1>4. CASE consumer.topic = "login" /\ profile # None
  BY <1>4
<1>5. CASE consumer.topic \notin {"created", "login"} /\ profile # None
  BY <1>5
<1> QED BY <1>1, <1>2, <1>3, <1>4, <1>5

LEMMA InitType == Init => TypeInv
<1> SUFFICES ASSUME Init PROVE TypeOK /\ Numbered
  BY DEF TypeInv
<1>1. AccountType /\ ConsumerType /\ FlagsType
  BY DEF Init, AccountType, ConsumerType, FlagsType
<1>4. ProfileType /\ FaultsType
  BY DEF Init, ProfileType, FaultsType
<1>2. RequestType
  BY DEF Init, RequestType
<1>3. Numbered
  BY <1>2 DEF Init, Numbered, Due, RequestType
<1> QED
  BY <1>1, <1>2, <1>3, <1>4
  DEF TypeOK, AccountType, ConsumerType, ProfileType, RequestType, FaultsType, FlagsType

LEMMA TypeStep ==
    ASSUME TypeInv, [Next]_vars
    PROVE  TypeInv'
<1> USE DEF TypeInv, TypeOK, Numbered, Due, Fault, Goto, Proceed
<1>1. CASE SignUp
  <2>1. TypeOK'
    BY <1>1 DEF SignUp
  <2>2. Numbered'
    BY <1>1 DEF SignUp
  <2> QED BY <2>1, <2>2
<1>2. CASE PublishCreated
  <2>1. TypeOK'
    BY <1>2 DEF PublishCreated
  <2>2. Numbered'
    BY <1>2 DEF PublishCreated
  <2> QED BY <2>1, <2>2
<1>3. CASE PublishCreatedFails
  <2>1. TypeOK'
    BY <1>3 DEF PublishCreatedFails
  <2>2. Numbered'
    BY <1>3 DEF PublishCreatedFails
  <2> QED BY <2>1, <2>2
<1>4. CASE Login
  <2>1. TypeOK'
    BY <1>4 DEF Login
  <2>2. Numbered'
    BY <1>4 DEF Login
  <2> QED BY <2>1, <2>2
<1>5. CASE DeleteUser
  <2>1. TypeOK'
    BY <1>5 DEF DeleteUser
  <2>2. Numbered'
    BY <1>5 DEF DeleteUser
  <2> QED BY <2>1, <2>2
<1>6. CASE DeleteUserFails
  <2>1. TypeOK'
    <3>1. AccountType'
      BY <1>6 DEF DeleteUserFails, AccountType
    <3>2. ConsumerType'
      BY <1>6 DEF DeleteUserFails, ConsumerType
    <3>3. ProfileType'
      BY <1>6 DEF DeleteUserFails, ProfileType
    <3>4. RequestType'
      BY <1>6 DEF DeleteUserFails, RequestType
    <3>5. FaultsType'
      BY <1>6 DEF DeleteUserFails, FaultsType
    <3>6. FlagsType'
      BY <1>6 DEF DeleteUserFails, FlagsType
    <3> QED
      BY <3>1, <3>2, <3>3, <3>4, <3>5, <3>6
      DEF AccountType, ConsumerType, ProfileType, RequestType, FaultsType, FlagsType
  <2>2. Numbered'
    BY <1>6 DEF DeleteUserFails
  <2> QED BY <2>1, <2>2
<1>7. CASE RevokeAllUserKeys
  <2>1. TypeOK'
    <3>1. AccountType'
      BY <1>7 DEF RevokeAllUserKeys, AccountType
    <3>2. ConsumerType'
      BY <1>7 DEF RevokeAllUserKeys, ConsumerType
    <3>3. ProfileType'
      BY <1>7 DEF RevokeAllUserKeys, ProfileType
    <3>4. RequestType'
      BY <1>7 DEF RevokeAllUserKeys, RequestType
    <3>5. FaultsType'
      BY <1>7 DEF RevokeAllUserKeys, FaultsType
    <3>6. FlagsType'
      BY <1>7 DEF RevokeAllUserKeys, FlagsType
    <3> QED
      BY <3>1, <3>2, <3>3, <3>4, <3>5, <3>6
      DEF AccountType, ConsumerType, ProfileType, RequestType, FaultsType, FlagsType
  <2>2. Numbered'
    BY <1>7 DEF RevokeAllUserKeys
  <2> QED BY <2>1, <2>2
<1>8. CASE AuthStops
  <2>1. TypeOK'
    BY <1>8 DEF AuthStops
  <2>2. Numbered'
    BY <1>8 DEF AuthStops
  <2> QED BY <2>1, <2>2
<1>9. ASSUME NEW t \in Topics, Take(t) PROVE TypeInv'
  <2>1. TypeOK'
    BY <1>9 DEF Take
  <2>2. Numbered'
    BY <1>9 DEF Take
  <2> QED BY <2>1, <2>2
<1>10. CASE ReadProfile
  <2>1. TypeOK'
    <3>1. AccountType'
      BY <1>10 DEF ReadProfile, AccountType
    <3>2. ConsumerType'
      BY <1>10 DEF ReadProfile, ConsumerType
    <3>3. ProfileType'
      BY <1>10 DEF ReadProfile, ProfileType
    <3>4. RequestType'
      BY <1>10 DEF ReadProfile, RequestType
    <3>5. FaultsType'
      BY <1>10 DEF ReadProfile, FaultsType
    <3>6. FlagsType'
      BY <1>10 DEF ReadProfile, FlagsType
    <3> QED
      BY <3>1, <3>2, <3>3, <3>4, <3>5, <3>6
      DEF AccountType, ConsumerType, ProfileType, RequestType, FaultsType, FlagsType
  <2>2. Numbered'
    <3>1. UNCHANGED <<user, announce, topics, profile, lastId, requests, faults>>
      BY <1>10 DEF ReadProfile
    <3>2. /\ consumer'.topic = consumer.topic /\ consumer.step = "read"
          /\ \/ consumer'.step = "create" /\ consumer.topic = "created"
             \/ consumer'.step = "commit"
             \/ /\ profile # None /\ consumer.topic # "created"
                /\ consumer'.step \in {"store", "publish"} /\ consumer'.copy = profile
      BY <1>10, ReadOutcome
    <3>3. Due' => Due
      BY <3>1, <3>2
    <3> QED BY <3>1, <3>2, <3>3
  <2> QED BY <2>1, <2>2
<1>11. CASE CreateProfile
  <2>1. TypeOK'
    <3>1. AccountType'
      BY <1>11 DEF CreateProfile, AccountType
    <3>a. lastId' \in Ids /\ consumer' = [consumer EXCEPT !.step = "store", !.copy = lastId']
      <4>1. Due
        BY <1>11 DEF CreateProfile
      <4> QED BY <4>1, <1>11 DEF CreateProfile
    <3>2. ConsumerType'
      <4>1. topics' = topics /\ consumer.topic \in topics
        BY <1>11 DEF CreateProfile
      <4> HIDE DEF Ids
      <4> QED BY <3>a, <4>1 DEF ConsumerType
    <3>3. ProfileType'
      BY <1>11 DEF CreateProfile, ProfileType
    <3>4. RequestType'
      BY <1>11 DEF CreateProfile, RequestType
    <3>5. FaultsType'
      BY <1>11 DEF CreateProfile, FaultsType
    <3>6. FlagsType'
      BY <1>11 DEF CreateProfile, FlagsType
    <3> QED
      BY <3>1, <3>2, <3>3, <3>4, <3>5, <3>6
      DEF AccountType, ConsumerType, ProfileType, RequestType, FaultsType, FlagsType
  <2>2. Numbered'
    BY <1>11 DEF CreateProfile
  <2> QED BY <2>1, <2>2
<1>12. CASE CreateProfileFails
  <2>1. TypeOK'
    <3>1. AccountType'
      BY <1>12 DEF CreateProfileFails, AccountType
    <3>2. ConsumerType'
      BY <1>12 DEF CreateProfileFails, ConsumerType
    <3>3. ProfileType'
      BY <1>12 DEF CreateProfileFails, ProfileType
    <3>4. RequestType'
      BY <1>12 DEF CreateProfileFails, RequestType
    <3>5. FaultsType'
      BY <1>12 DEF CreateProfileFails, FaultsType
    <3>6. FlagsType'
      BY <1>12 DEF CreateProfileFails, FlagsType
    <3> QED
      BY <3>1, <3>2, <3>3, <3>4, <3>5, <3>6
      DEF AccountType, ConsumerType, ProfileType, RequestType, FaultsType, FlagsType
  <2>2. Numbered'
    BY <1>12 DEF CreateProfileFails
  <2> QED BY <2>1, <2>2
<1>13. CASE StoreCopy
  <2>1. TypeOK'
    BY <1>13 DEF StoreCopy
  <2>2. Numbered'
    BY <1>13 DEF StoreCopy
  <2> QED BY <2>1, <2>2
<1>14. CASE PublishSync
  <2>1. TypeOK'
    BY <1>14 DEF PublishSync
  <2>2. Numbered'
    BY <1>14 DEF PublishSync
  <2> QED BY <2>1, <2>2
<1>15. CASE StoreOrPublishFails
  <2>1. TypeOK'
    <3>1. AccountType'
      BY <1>15 DEF StoreOrPublishFails, AccountType
    <3>2. ConsumerType'
      BY <1>15 DEF StoreOrPublishFails, ConsumerType
    <3>3. ProfileType'
      BY <1>15 DEF StoreOrPublishFails, ProfileType
    <3>4. RequestType'
      BY <1>15 DEF StoreOrPublishFails, RequestType
    <3>5. FaultsType'
      BY <1>15 DEF StoreOrPublishFails, FaultsType
    <3>6. FlagsType'
      BY <1>15 DEF StoreOrPublishFails, FlagsType
    <3> QED
      BY <3>1, <3>2, <3>3, <3>4, <3>5, <3>6
      DEF AccountType, ConsumerType, ProfileType, RequestType, FaultsType, FlagsType
  <2>2. Numbered'
    BY <1>15 DEF StoreOrPublishFails
  <2> QED BY <2>1, <2>2
<1>16. CASE Commit
  <2>1. TypeOK'
    BY <1>16 DEF Commit
  <2>2. Numbered'
    BY <1>16 DEF Commit
  <2> QED BY <2>1, <2>2
<1>17. CASE UserServiceStops
  <2>1. TypeOK'
    BY <1>17 DEF UserServiceStops
  <2>2. Numbered'
    BY <1>17 DEF UserServiceStops
  <2> QED BY <2>1, <2>2
<1>18. ASSUME NEW r \in Requests, FindProfile(r) PROVE TypeInv'
  <2>1. TypeOK'
    <3>1. AccountType'
      BY <1>18 DEF FindProfile, AccountType
    <3>2. ConsumerType'
      BY <1>18 DEF FindProfile, ConsumerType
    <3>3. ProfileType'
      BY <1>18 DEF FindProfile, ProfileType
    <3>4. RequestType'
      <4>1. profile \in Ids \cup {None}
        OBVIOUS
      <4>2. \/ requests' = [requests EXCEPT ![r].step = "done", ![r].copy = profile]
            \/ requests' = [requests EXCEPT ![r].step = "found", ![r].copy = profile]
        BY <1>18 DEF FindProfile
      <4>3. RequestType
        BY DEF RequestType
      <4> HIDE DEF Ids, TypeInv, TypeOK
      <4> QED BY <4>1, <4>2, <4>3 DEF RequestType
    <3>5. FaultsType'
      BY <1>18 DEF FindProfile, FaultsType
    <3>6. FlagsType'
      BY <1>18 DEF FindProfile, FlagsType
    <3> QED
      BY <3>1, <3>2, <3>3, <3>4, <3>5, <3>6
      DEF AccountType, ConsumerType, ProfileType, RequestType, FaultsType, FlagsType
  <2>2. Numbered'
    BY <1>18 DEF FindProfile
  <2> QED BY <2>1, <2>2
<1>19. ASSUME NEW r \in Requests, UpdateProfile(r) PROVE TypeInv'
  <2>1. TypeOK'
    BY <1>19 DEF UpdateProfile
  <2>2. Numbered'
    BY <1>19 DEF UpdateProfile
  <2> QED BY <2>1, <2>2
<1>20. ASSUME NEW r \in Requests, PublishDeleted(r) PROVE TypeInv'
  <2>1. TypeOK'
    BY <1>20 DEF PublishDeleted
  <2>2. Numbered'
    BY <1>20 DEF PublishDeleted
  <2> QED BY <2>1, <2>2
<1>21. ASSUME NEW r \in Requests, PublishDeletedFails(r) PROVE TypeInv'
  <2>1. TypeOK'
    BY <1>21 DEF PublishDeletedFails
  <2>2. Numbered'
    BY <1>21 DEF PublishDeletedFails
  <2> QED BY <2>1, <2>2
<1>22. ASSUME NEW r \in Requests, DestroyProfile(r) PROVE TypeInv'
  <2>1. TypeOK'
    BY <1>22 DEF DestroyProfile
  <2>2. Numbered'
    BY <1>22 DEF DestroyProfile
  <2> QED BY <2>1, <2>2
<1>23. ASSUME NEW r \in Requests, DestroyProfileFails(r) PROVE TypeInv'
  <2>1. TypeOK'
    BY <1>23 DEF DestroyProfileFails
  <2>2. Numbered'
    BY <1>23 DEF DestroyProfileFails
  <2> QED BY <2>1, <2>2
<1>24. ASSUME NEW r \in Requests, ClearCache(r) PROVE TypeInv'
  <2>1. TypeOK'
    <3>1. AccountType'
      BY <1>24 DEF ClearCache, AccountType
    <3>2. ConsumerType'
      BY <1>24 DEF ClearCache, ConsumerType
    <3>3. ProfileType'
      BY <1>24 DEF ClearCache, ProfileType
    <3>4. RequestType'
      BY <1>24 DEF ClearCache, RequestType
    <3>5. FaultsType'
      BY <1>24 DEF ClearCache, FaultsType
    <3>6. FlagsType'
      BY <1>24 DEF ClearCache, FlagsType
    <3> QED
      BY <3>1, <3>2, <3>3, <3>4, <3>5, <3>6
      DEF AccountType, ConsumerType, ProfileType, RequestType, FaultsType, FlagsType
  <2>2. Numbered'
    BY <1>24 DEF ClearCache
  <2> QED BY <2>1, <2>2
<1>25. CASE RequestSync
  <2>1. TypeOK'
    BY <1>25 DEF RequestSync
  <2>2. Numbered'
    BY <1>25 DEF RequestSync
  <2> QED BY <2>1, <2>2
<1>26. ASSUME NEW id \in Ids, SyncPassengerCache(id) PROVE TypeInv'
  <2>1. TypeOK'
    BY <1>26 DEF SyncPassengerCache
  <2>2. Numbered'
    BY <1>26 DEF SyncPassengerCache
  <2> QED BY <2>1, <2>2
<1>27. CASE UNCHANGED vars
  BY <1>27
<1> QED
  BY <1>1, <1>2, <1>3, <1>4, <1>5, <1>6, <1>7, <1>8, <1>9, <1>10, <1>11, <1>12, <1>13,
     <1>14, <1>15, <1>16, <1>17, <1>18, <1>19, <1>20, <1>21, <1>22, <1>23, <1>24, <1>25,
     <1>26, <1>27, Actions

\* Every state of the account, the profile, its copies and the requests has its type,
\* for any number of requests and faults: no handler skips a step or makes up an id.
THEOREM TypeCorrect == Spec => []TypeOK
<1>1. TypeInv => TypeOK
  BY DEF TypeInv
<1> QED BY InitType, TypeStep, <1>1, PTL DEF Spec
LEMMA CacheStep ==
    ASSUME TypeInv, CacheInv, [Next]_vars
    PROVE  CacheInv'
<1> USE DEF Fault, Goto, Proceed, CacheInv, Held, Traced
<1>1. CASE SignUp
  BY <1>1 DEF SignUp, TypeInv, TypeOK, Numbered
<1>2. CASE PublishCreated
  BY <1>2 DEF PublishCreated, TypeInv, TypeOK, Numbered
<1>3. CASE PublishCreatedFails
  BY <1>3 DEF PublishCreatedFails, TypeInv, TypeOK, Numbered
<1>4. CASE Login
  BY <1>4 DEF Login, TypeInv, TypeOK, Numbered
<1>5. CASE DeleteUser
  BY <1>5 DEF DeleteUser, TypeInv, TypeOK, Numbered
<1>6. CASE DeleteUserFails
  BY <1>6 DEF DeleteUserFails, TypeInv, TypeOK, Numbered
<1>7. CASE RevokeAllUserKeys
  BY <1>7 DEF RevokeAllUserKeys, TypeInv, TypeOK, Numbered
<1>8. CASE AuthStops
  BY <1>8 DEF AuthStops, TypeInv, TypeOK, Numbered
<1>9. ASSUME NEW t \in Topics, Take(t) PROVE CacheInv'
  BY <1>9 DEF Take, TypeInv, TypeOK, Numbered
<1>10. CASE ReadProfile
  <2>1. UNCHANGED <<profile, cache, syncs, requests, stale>>
    BY <1>10 DEF ReadProfile
  <2>2. TypeOK
    BY DEF TypeInv
  <2> QED BY <2>1, <2>2, <1>10, ReadOutcome
<1>11. CASE CreateProfile
  BY <1>11 DEF CreateProfile, TypeInv, TypeOK, Numbered
<1>12. CASE CreateProfileFails
  BY <1>12 DEF CreateProfileFails, TypeInv, TypeOK, Numbered
<1>13. CASE StoreCopy
  BY <1>13 DEF StoreCopy, TypeInv, TypeOK, Numbered
<1>14. CASE PublishSync
  BY <1>14 DEF PublishSync, TypeInv, TypeOK, Numbered
<1>15. CASE StoreOrPublishFails
  BY <1>15 DEF StoreOrPublishFails, TypeInv, TypeOK, Numbered
<1>16. CASE Commit
  BY <1>16 DEF Commit, TypeInv, TypeOK, Numbered
<1>17. CASE UserServiceStops
  <2>1. consumer'.step = "idle" /\ UNCHANGED <<profile, cache, syncs>>
    BY <1>17 DEF UserServiceStops
  <2>2. CASE ~stale'
    <3>1. ~stale /\ ~At("clear")
      BY <2>2, <1>17 DEF UserServiceStops, At, TypeInv, TypeOK
    <3>2. \A r \in Requests : requests'[r].step = "found" => FALSE
      BY <1>17 DEF UserServiceStops, TypeInv, TypeOK
    <3>3. \A id \in Ids : id \in cache \cup syncs => id = profile
      BY <3>1 DEF At
    <3> QED BY <2>1, <3>2, <3>3
  <2> QED BY <2>1, <2>2
<1>18. ASSUME NEW r \in Requests, FindProfile(r) PROVE CacheInv'
  BY <1>18 DEF FindProfile, TypeInv, TypeOK, Numbered
<1>19. ASSUME NEW r \in Requests, UpdateProfile(r) PROVE CacheInv'
  BY <1>19 DEF UpdateProfile, TypeInv, TypeOK, Numbered
<1>20. ASSUME NEW r \in Requests, PublishDeleted(r) PROVE CacheInv'
  BY <1>20 DEF PublishDeleted, TypeInv, TypeOK, Numbered
<1>21. ASSUME NEW r \in Requests, PublishDeletedFails(r) PROVE CacheInv'
  BY <1>21 DEF PublishDeletedFails, TypeInv, TypeOK, Numbered
<1>22. ASSUME NEW r \in Requests, DestroyProfile(r) PROVE CacheInv'
  BY <1>22 DEF DestroyProfile, TypeInv, TypeOK, Numbered
<1>23. ASSUME NEW r \in Requests, DestroyProfileFails(r) PROVE CacheInv'
  BY <1>23 DEF DestroyProfileFails, TypeInv, TypeOK, Numbered
<1>24. ASSUME NEW r \in Requests, ClearCache(r) PROVE CacheInv'
  <2>1. /\ UNCHANGED <<profile, consumer, syncs>>
        /\ \A q \in Requests : requests'[q].kind = requests[q].kind
                                /\ requests'[q].copy = requests[q].copy
        /\ \A q \in Requests \ {r} : requests'[q].step = requests[q].step
        /\ requests[r].step = "clear" /\ requests'[r].step = "done"
    BY <1>24 DEF ClearCache, TypeInv, TypeOK
  <2>2. CASE ~stale'
    <3>1. ~stale /\ cache' = cache \ {requests[r].copy} /\ ~Held(requests[r].copy)
      <4>1. CASE Fault({"stale"})
        BY <2>2, <4>1
      <4> QED BY <2>2, <4>1, <1>24 DEF ClearCache
    <3>2. \A id \in Ids : id \in cache' \/ Held(id)' =>
                id # requests[r].copy /\ (id \in cache \/ Held(id))
      BY <2>1, <3>1
    <3>3. \A id \in Ids : id # requests[r].copy /\ Traced(id) => Traced(id)'
      BY <2>1
    <3> HIDE DEF Held, Traced
    <3> QED BY <2>1, <3>1, <3>2, <3>3
  <2> QED BY <2>1, <2>2
<1>25. CASE RequestSync
  BY <1>25 DEF RequestSync, TypeInv, TypeOK, Numbered
<1>26. ASSUME NEW id \in Ids, SyncPassengerCache(id) PROVE CacheInv'
  BY <1>26 DEF SyncPassengerCache, TypeInv, TypeOK, Numbered
<1>27. CASE UNCHANGED vars
  BY <1>27
<1> QED
  BY <1>1, <1>2, <1>3, <1>4, <1>5, <1>6, <1>7, <1>8, <1>9, <1>10, <1>11, <1>12, <1>13, <1>14, <1>15, <1>16, <1>17, <1>18, <1>19, <1>20, <1>21, <1>22, <1>23, <1>24, <1>25, <1>26, <1>27, Actions

LEMMA AgreeStep ==
    ASSUME TypeInv, AgreeInv, [Next]_vars
    PROVE  AgreeInv'
<1> USE DEF Fault, Goto, Proceed, AgreeInv, Agreeing, Ended, At, Due
<1>1. CASE SignUp
  BY <1>1 DEF SignUp, TypeInv, TypeOK, Numbered
<1>2. CASE PublishCreated
  BY <1>2 DEF PublishCreated, TypeInv, TypeOK, Numbered
<1>3. CASE PublishCreatedFails
  BY <1>3 DEF PublishCreatedFails, TypeInv, TypeOK, Numbered
<1>4. CASE Login
  BY <1>4 DEF Login, TypeInv, TypeOK, Numbered
<1>5. CASE DeleteUser
  BY <1>5 DEF DeleteUser, TypeInv, TypeOK, Numbered
<1>6. CASE DeleteUserFails
  BY <1>6 DEF DeleteUserFails, TypeInv, TypeOK, Numbered
<1>7. CASE RevokeAllUserKeys
  BY <1>7 DEF RevokeAllUserKeys, TypeInv, TypeOK, Numbered
<1>8. CASE AuthStops
  BY <1>8 DEF AuthStops, TypeInv, TypeOK, Numbered
<1>9. ASSUME NEW t \in Topics, Take(t) PROVE AgreeInv'
  BY <1>9 DEF Take, TypeInv, TypeOK, Numbered
<1>10. CASE ReadProfile
  <2>1. UNCHANGED <<user, announce, deleted, auth, topics, profile, lastId, requests, broken>>
    BY <1>10 DEF ReadProfile
  <2>2. (lastId = 0 => profile = None) /\ (consumer.step = "read" => consumer.topic \in topics)
    BY DEF TypeInv, TypeOK, Numbered
  <2>3. /\ consumer.step = "read" /\ consumer'.topic = consumer.topic
        /\ \/ consumer'.step = "create" /\ consumer.topic = "created" /\ profile = None
           \/ /\ consumer'.step = "commit"
              /\ consumer.topic = "created" => profile # None
           \/ profile # None /\ consumer.topic # "created"
    BY <1>10, ReadOutcome DEF TypeInv
  <2>4. consumer.topic = "created" /\ Agreeing => lastId = 0 /\ consumer'.step = "create"
    BY <2>2, <2>3
  <2>5. CASE broken
    BY <2>1, <2>5
  <2>6. CASE ~broken
    <3>1. Agreeing'
      BY <2>1, <2>2, <2>3, <2>4, <2>6
    <3> QED BY <3>1
  <2> QED BY <2>5, <2>6
<1>11. CASE CreateProfile
  BY <1>11 DEF CreateProfile, TypeInv, TypeOK, Numbered
<1>12. CASE CreateProfileFails
  BY <1>12 DEF CreateProfileFails, TypeInv, TypeOK, Numbered
<1>13. CASE StoreCopy
  BY <1>13 DEF StoreCopy, TypeInv, TypeOK, Numbered
<1>14. CASE PublishSync
  BY <1>14 DEF PublishSync, TypeInv, TypeOK, Numbered
<1>15. CASE StoreOrPublishFails
  BY <1>15 DEF StoreOrPublishFails, TypeInv, TypeOK, Numbered
<1>16. CASE Commit
  BY <1>16 DEF Commit, TypeInv, TypeOK, Numbered
<1>17. CASE UserServiceStops
  BY <1>17 DEF UserServiceStops, TypeInv, TypeOK, Numbered
<1>18. ASSUME NEW r \in Requests, FindProfile(r) PROVE AgreeInv'
  BY <1>18 DEF FindProfile, TypeInv, TypeOK, Numbered
<1>19. ASSUME NEW r \in Requests, UpdateProfile(r) PROVE AgreeInv'
  BY <1>19 DEF UpdateProfile, TypeInv, TypeOK, Numbered
<1>20. ASSUME NEW r \in Requests, PublishDeleted(r) PROVE AgreeInv'
  BY <1>20 DEF PublishDeleted, TypeInv, TypeOK, Numbered
<1>21. ASSUME NEW r \in Requests, PublishDeletedFails(r) PROVE AgreeInv'
  BY <1>21 DEF PublishDeletedFails, TypeInv, TypeOK, Numbered
<1>22. ASSUME NEW r \in Requests, DestroyProfile(r) PROVE AgreeInv'
  BY <1>22 DEF DestroyProfile, TypeInv, TypeOK, Numbered
<1>23. ASSUME NEW r \in Requests, DestroyProfileFails(r) PROVE AgreeInv'
  BY <1>23 DEF DestroyProfileFails, TypeInv, TypeOK, Numbered
<1>24. ASSUME NEW r \in Requests, ClearCache(r) PROVE AgreeInv'
  BY <1>24 DEF ClearCache, TypeInv, TypeOK, Numbered
<1>25. CASE RequestSync
  BY <1>25 DEF RequestSync, TypeInv, TypeOK, Numbered
<1>26. ASSUME NEW id \in Ids, SyncPassengerCache(id) PROVE AgreeInv'
  BY <1>26 DEF SyncPassengerCache, TypeInv, TypeOK, Numbered
<1>27. CASE UNCHANGED vars
  BY <1>27
<1> QED
  BY <1>1, <1>2, <1>3, <1>4, <1>5, <1>6, <1>7, <1>8, <1>9, <1>10, <1>11, <1>12, <1>13, <1>14, <1>15, <1>16, <1>17, <1>18, <1>19, <1>20, <1>21, <1>22, <1>23, <1>24, <1>25, <1>26, <1>27, Actions

\* A passenger who is gone stays in the cache, for any number of requests and faults, only
\* if a copy was under way to it when it was cleared, or it could not be cleared.
THEOREM CacheHasThePassenger == Spec => []CacheFollowsProfile
<1>1. Init => CacheInv
  BY DEF Init, CacheInv, Held, Traced
<1>2. TypeInv /\ CacheInv => CacheFollowsProfile
  BY DEF TypeInv, TypeOK, CacheInv, CacheFollowsProfile, Rest, Held, Traced
<1> QED BY InitType, TypeStep, CacheStep, <1>1, <1>2, PTL DEF Spec

\* There is an account if and only if there is a profile, for any number of requests and
\* faults, unless a fault of the named kinds happened.
THEOREM AccountHasAProfile == Spec => []AgreeAtRest
<1>1. Init => AgreeInv
  BY DEF Init, AgreeInv, Agreeing, Ended, At, Due
<1>2. TypeInv /\ AgreeInv => AgreeAtRest
  BY DEF TypeInv, TypeOK, Numbered, AgreeInv, Agreeing, Ended, At, Due, AgreeAtRest, Rest
<1> QED BY InitType, TypeStep, AgreeStep, <1>1, <1>2, PTL DEF Spec
=============================================================================
