--------------------------- MODULE OperationsProofs ---------------------------
(***************************************************************************)
(* Theorems about the scheduler's job registry and the gateway's routing,  *)
(* for any number of jobs, runs, services, health checks and requests.     *)
(***************************************************************************)
EXTENDS JobRegistry, GatewayRouting, FiniteSetTheorems, TLAPS

-----------------------------------------------------------------------------
(* The scheduler.                                                          *)

\* The flag stands for one run that nobody forced: OverlapBounded is not inductive, since
\* a forced run clears the flag when it ends while others go on.
Flagged ==
    \A j \in Jobs :
       Cardinality(Active(j)) <= forced[j] + IF jobs[j].running THEN 1 ELSE 0

RegistryInv == RegistryTypeOK /\ Flagged

LEMMA ActiveIsFinite ==
    ASSUME NEW j
    PROVE  IsFiniteSet(Active(j)) /\ Cardinality(Active(j)) \in Nat
<1>1. Active(j) \subseteq Runs
  BY DEF Active
<1> QED BY <1>1, FS_Subset, FS_CardinalityType, RunsAssumption

LEMMA RegistryStart == ASSUME RegistryInit PROVE RegistryInv
<1>1. RegistryTypeOK
  BY ForcedAssumption DEF RegistryInit, RegistryTypeOK, JobState, NoJob
<1>2. \A j \in Jobs : Active(j) = {}
  BY JobsAssumption DEF RegistryInit, Active, NoJob
<1>3. \A j \in Jobs : Cardinality(Active(j)) = 0 /\ forced[j] = 0
  BY <1>2, FS_EmptySet DEF RegistryInit
<1>4. Flagged
  BY <1>3 DEF Flagged
<1> QED BY <1>1, <1>4 DEF RegistryInv

\* A run of j begins.
LEMMA RunBegins ==
    ASSUME RegistryInv, NEW j \in Jobs, NEW r \in Runs, NEW force \in BOOLEAN,
           RunJob(j, r, force),
           IF force THEN forced[j] < MaxForced /\ forced' = [forced EXCEPT ![j] = @ + 1]
                    ELSE forced' = forced,
           enabled' = enabled
    PROVE  RegistryInv'
<1>1. RegistryTypeOK
  BY DEF RegistryInv
<1>2. RegistryTypeOK'
  <2>1. jobs' \in [Jobs -> JobState] /\ runs' \in [Runs -> Jobs \cup {NoJob}]
    BY <1>1 DEF RegistryTypeOK, RunJob, JobState
  <2>2. forced' \in [Jobs -> 0..MaxForced]
    BY <1>1, ForcedAssumption, JobsAssumption DEF RegistryTypeOK
  <2> QED BY <1>1, <2>1, <2>2 DEF RegistryTypeOK
<1>3. /\ r \notin Active(j)
      /\ Active(j)' = Active(j) \cup {r}
      /\ \A k \in Jobs \ {j} : Active(k)' = Active(k)
  BY <1>1, JobsAssumption DEF RegistryTypeOK, RunJob, Active, NoJob
<1>4. Cardinality(Active(j)') = Cardinality(Active(j)) + 1
  BY <1>3, ActiveIsFinite, FS_AddElement
<1>5. /\ jobs'[j].running /\ (jobs[j].running => force)
      /\ forced[j] \in Nat /\ forced'[j] = IF force THEN forced[j] + 1 ELSE forced[j]
      /\ \A k \in Jobs \ {j} : jobs'[k] = jobs[k] /\ forced'[k] = forced[k]
  BY <1>1 DEF RegistryTypeOK, RunJob, JobState
<1>6. Cardinality(Active(j)) <= forced[j] + (IF jobs[j].running THEN 1 ELSE 0)
  BY DEF RegistryInv, Flagged
<1>7. Cardinality(Active(j)') <= forced'[j] + (IF jobs'[j].running THEN 1 ELSE 0)
  BY <1>4, <1>5, <1>6, ActiveIsFinite
<1>8. Flagged'
  BY <1>3, <1>5, <1>7 DEF RegistryInv, Flagged
<1> QED BY <1>2, <1>8 DEF RegistryInv

LEMMA RunEnds ==
    ASSUME RegistryInv, NEW r \in Runs, NEW j \in Jobs, j = runs[r],
           Finish(r)
    PROVE  RegistryInv'
<1>1. RegistryTypeOK
  BY DEF RegistryInv
<1>2. RegistryTypeOK'
  BY <1>1 DEF RegistryTypeOK, Finish, JobState
<1>3. /\ r \in Active(j)
      /\ Active(j)' = Active(j) \ {r}
      /\ \A k \in Jobs \ {j} : Active(k)' = Active(k)
  <2>1. /\ runs' = [runs EXCEPT ![r] = "none"] /\ runs \in [Runs -> Jobs \cup {"none"}]
        /\ "none" \notin Jobs
    BY <1>1, ForcedAssumption, JobsAssumption DEF RegistryTypeOK, Finish, NoJob
  <2>2. r \in Active(j) /\ Active(j)' = Active(j) \ {r}
    BY <1>1, <2>1 DEF Active
  <2>3. ASSUME NEW k \in Jobs \ {j} PROVE Active(k)' = Active(k)
    BY <1>1, <2>1 DEF Active
  <2> QED BY <2>2, <2>3
<1>4. Cardinality(Active(j)') = Cardinality(Active(j)) - 1
  BY <1>3, ActiveIsFinite, FS_RemoveElement
<1>5. /\ forced' = forced /\ forced[j] \in Nat
      /\ \A k \in Jobs \ {j} : jobs'[k] = jobs[k]
  BY <1>1 DEF RegistryTypeOK, Finish, JobState
<1>6. Cardinality(Active(j)) <= forced[j] + (IF jobs[j].running THEN 1 ELSE 0)
  BY <1>1 DEF RegistryInv, Flagged
<1>7. Cardinality(Active(j)') <= forced'[j] + (IF jobs'[j].running THEN 1 ELSE 0)
  BY <1>4, <1>5, <1>6, ActiveIsFinite
<1>8. Flagged'
  BY <1>3, <1>5, <1>7 DEF RegistryInv, Flagged
<1> QED BY <1>2, <1>8 DEF RegistryInv

LEMMA RegistryStep ==
    ASSUME RegistryInv, [RegistryNext]_registryVars
    PROVE  RegistryInv'
<1>1. ASSUME NEW j \in Jobs, NEW r \in Runs, Tick(j, r) PROVE RegistryInv'
  BY <1>1, RunBegins DEF Tick
<1>2. ASSUME NEW j \in Jobs, NEW r \in Runs, NEW force \in BOOLEAN, TriggerJob(j, r, force)
      PROVE  RegistryInv'
  BY <1>2, RunBegins DEF TriggerJob
<1>3. ASSUME \/ \E j \in Jobs, cron \in Crons, on \in BOOLEAN : UpdateJob(j, cron, on)
             \/ StartAll \/ StopAll \/ UNCHANGED registryVars
      PROVE  RegistryInv'
  <2>0. RegistryTypeOK
    BY DEF RegistryInv
  <2>1. UNCHANGED <<runs, forced>> /\ enabled' \in BOOLEAN
    BY <1>3, <2>0 DEF RegistryTypeOK, UpdateJob, StartAll, StopAll,
                      registryVars
  <2>2. /\ jobs' \in [Jobs -> JobState]
        /\ \A j \in Jobs : jobs'[j].running = jobs[j].running
    <3>1. CASE \E j \in Jobs, cron \in Crons, on \in BOOLEAN :
                  UpdateJob(j, cron, on)
      <4>1. PICK j \in Jobs, cron \in Crons, on \in BOOLEAN : UpdateJob(j, cron, on)
        BY <3>1
      <4>2. PICK ticking \in BOOLEAN :
               jobs' = [jobs EXCEPT ![j].enabled = on, ![j].ticking = ticking]
        BY <4>1, <2>0 DEF RegistryTypeOK, UpdateJob, JobState
      <4> QED BY <4>2, <2>0 DEF RegistryTypeOK, JobState
    <3>2. CASE StartAll \/ StopAll
      <4>1. PICK ticking \in BOOLEAN :
               jobs' = [j \in Jobs |-> [jobs[j] EXCEPT !.ticking = ticking]]
        BY <3>2 DEF StartAll, StopAll
      <4>2. \A j \in Jobs : jobs[j] \in JobState
        BY <2>0 DEF RegistryTypeOK
      <4>3. \A j \in Jobs : /\ [jobs[j] EXCEPT !.ticking = ticking] \in JobState
                            /\ [jobs[j] EXCEPT !.ticking = ticking].running = jobs[j].running
        BY <4>2 DEF JobState
      <4> QED BY <4>1, <4>3
    <3>3. CASE UNCHANGED registryVars
      BY <3>3, <2>0 DEF RegistryTypeOK, registryVars
    <3> QED BY <1>3, <3>1, <3>2, <3>3
  <2>3. \A j \in Jobs : Active(j)' = Active(j)
    BY <2>1 DEF Active
  <2>4. RegistryTypeOK'
    BY <2>0, <2>1, <2>2 DEF RegistryTypeOK
  <2> QED BY <2>1, <2>2, <2>3, <2>4 DEF RegistryInv, Flagged
<1>4. ASSUME NEW r \in Runs, Finish(r) PROVE RegistryInv'
  <2>1. runs[r] \in Jobs
    BY <1>4 DEF RegistryInv, RegistryTypeOK, Finish
  <2> QED BY <1>4, <2>1, RunEnds
<1> QED BY <1>1, <1>2, <1>3, <1>4 DEF RegistryNext

LEMMA RegistryInvariant == RegistrySpec => []RegistryInv
<1>1. RegistryInit => RegistryInv
  BY RegistryStart
<1>2. RegistryInv /\ [RegistryNext]_registryVars => RegistryInv'
  BY RegistryStep
<1> QED BY <1>1, <1>2, PTL DEF RegistrySpec

\* The registry's jobs and runs are well-typed, and no job is forced more than the bound.
THEOREM RegistryTypeCorrect == RegistrySpec => []RegistryTypeOK
<1>1. RegistryInv => RegistryTypeOK
  BY DEF RegistryInv
<1> QED BY <1>1, RegistryInvariant, PTL

\* However ticks, forced runs and their ends interleave, a job overlaps with itself at
\* most as often as operators forced it.
THEOREM ForcedOverlaps == RegistrySpec => []OverlapBounded
<1>1. RegistryInv => OverlapBounded
  <2> SUFFICES ASSUME RegistryInv
               PROVE  \A j \in Jobs : Cardinality(Active(j)) <= 1 + forced[j]
    BY DEF OverlapBounded
  <2> TAKE j \in Jobs
  <2>1. forced[j] \in Nat
    BY DEF RegistryInv, RegistryTypeOK
  <2>2. Cardinality(Active(j)) <= forced[j] + (IF jobs[j].running THEN 1 ELSE 0)
    BY DEF RegistryInv, Flagged
  <2> QED BY <2>1, <2>2, ActiveIsFinite
<1> QED BY <1>1, RegistryInvariant, PTL

-----------------------------------------------------------------------------
(* The gateway.                                                            *)

LEMMA Writes ==
    /\ Len(RefreshWrites) = 6
    /\ \A i \in 1..6 : RefreshWrites[i][1] = IF i \in {1, 3, 4} THEN "route" ELSE "instances"
    /\ RefreshWrites[4][2] /\ RefreshWrites[6][2]
    /\ ~RefreshWrites[1][2] /\ ~RefreshWrites[2][2]
    /\ ~RefreshWrites[3][2] /\ ~RefreshWrites[5][2]
<1>1. Len(RefreshWrites) = 6
  BY DEF RefreshWrites
<1>2. /\ RefreshWrites[1] = <<"route", FALSE>> /\ RefreshWrites[2] = <<"instances", FALSE>>
      /\ RefreshWrites[3] = <<"route", FALSE>> /\ RefreshWrites[4] = <<"route", TRUE>>
      /\ RefreshWrites[5] = <<"instances", FALSE>> /\ RefreshWrites[6] = <<"instances", TRUE>>
  BY DEF RefreshWrites
<1>3. \A i \in 1..6 : i \in {1, 2, 3, 4, 5, 6}
  OBVIOUS
<1>4. \A i \in 1..6 : RefreshWrites[i][1] = IF i \in {1, 3, 4} THEN "route" ELSE "instances"
  BY <1>2, <1>3
<1>5. /\ RefreshWrites[4][2] /\ RefreshWrites[6][2]
      /\ ~RefreshWrites[1][2] /\ ~RefreshWrites[2][2]
      /\ ~RefreshWrites[3][2] /\ ~RefreshWrites[5][2]
  BY DEF RefreshWrites
<1> QED BY <1>1, <1>4, <1>5

LEMMA GatewayInit == ASSUME Init PROVE TypeOK
<1>1. NoCycle \in Cycle /\ NoRequest \in Request /\ Closed \in Breaker
  BY Writes, FiresAssumption DEF NoCycle, Cycle, NoRequest, Request, Steps, Closed, Breaker
<1> QED BY <1>1 DEF Init, TypeOK

LEMMA TypeBreaker ==
    ASSUME NEW b \in Breaker
    PROVE  /\ Failed(b) \in Breaker /\ Succeeded(b) \in Breaker
           /\ b.state = "closed" => Succeeded(b).state = "closed"
<1>1. Succeeded(b) \in Breaker
  BY DEF Breaker, Succeeded
<1>2. b.state = "closed" => Succeeded(b) = b
  BY DEF Succeeded
<1> DEFINE counted == [b EXCEPT !.failures = IF @ < MaxFires THEN @ + 1 ELSE @]
<1>3. counted \in Breaker
  BY FiresAssumption DEF Breaker
<1>4. Failed(b) = IF Opens(counted) THEN [counted EXCEPT !.state = "open", !.trial = FALSE] ELSE counted
  BY DEF Failed
<1> HIDE DEF counted
<1>5. [counted EXCEPT !.state = "open", !.trial = FALSE] \in Breaker
  BY <1>3 DEF Breaker
<1> QED BY <1>1, <1>2, <1>3, <1>4, <1>5

LEMMA TypeNextRefresh ==
    ASSUME TypeOK, NEW c \in Cycles, NEW todo \in SUBSET Services, NextRefresh(c, todo)
    PROVE  cycles' \in [Cycles -> Cycle] /\ lost' \subseteq Services
<1>1. Len(RefreshWrites) = 6
  BY Writes
<1>2. CASE todo = {} /\ cycles' = [cycles EXCEPT ![c] = NoCycle] /\ UNCHANGED lost
  BY <1>1, <1>2 DEF TypeOK, NoCycle, Cycle
<1>3. ASSUME NEW s \in todo,
             cycles' = [cycles EXCEPT ![c] = [NoCycle EXCEPT !.step = "refresh",
                                                !.todo = todo \ {s}, !.service = s]],
             lost' = IF Refreshing(s) \subseteq {c} THEN lost \ {s} ELSE lost
      PROVE  cycles' \in [Cycles -> Cycle] /\ lost' \subseteq Services
  <2>0. s \in Services /\ todo \ {s} \in SUBSET Services
    BY <1>3
  <2>1. [NoCycle EXCEPT !.step = "refresh", !.todo = todo \ {s}, !.service = s] \in Cycle
    <3>1. NoCycle \in Cycle
      BY <1>1 DEF NoCycle, Cycle
    <3> QED BY <3>1, <2>0 DEF Cycle
  <2> QED BY <1>3, <2>1 DEF TypeOK
<1> QED BY <1>2, <1>3 DEF NextRefresh

LEMMA TypeEnd ==
    ASSUME TypeOK, NEW r \in Requests, End(r)
    PROVE  /\ requests' \in [Requests -> Request]
           /\ \A q \in Requests : requests'[q].step = "idle" => requests'[q] = NoRequest
<1>1. NoRequest \in Request
  BY DEF NoRequest, Request, Steps
<1> QED BY <1>1 DEF TypeOK, End

\* A request goes on to another step.
LEMMA TypeGoesOn ==
    ASSUME TypeOK, NEW r \in Requests, NEW step \in Steps \ {"idle"}, NEW missed \in BOOLEAN,
           \/ requests' = [requests EXCEPT ![r].step = step]
           \/ requests' = [requests EXCEPT ![r].step = step, ![r].missed = missed]
    PROVE  /\ requests' \in [Requests -> Request]
           /\ \A q \in Requests : requests'[q].step = "idle" => requests'[q] = NoRequest
<1>1. /\ requests' \in [Requests -> Request]
      /\ requests'[r].step = step
      /\ \A q \in Requests \ {r} : requests'[q] = requests[q]
  BY DEF TypeOK, Request
<1> QED BY <1>1 DEF TypeOK

LEMMA TypeCycle ==
    ASSUME TypeOK, NEW c \in Cycles, CycleStep(c) \/ RedisFailsCycle(c)
    PROVE  TypeOK'
<1>0. Len(RefreshWrites) = 6 /\ NoCycle \in Cycle /\ cycles[c] \in Cycle
  BY Writes DEF NoCycle, Cycle, TypeOK
<1>1. CASE StartCycle(c)
  <2>1. [NoCycle EXCEPT !.step = "probe", !.todo = Services] \in Cycle
    BY <1>0 DEF NoCycle, Cycle
  <2> QED BY <1>1, <2>1 DEF StartCycle, TypeOK
<1>2. ASSUME NEW s \in Services, Probe(c, s) PROVE TypeOK'
  <2>1. cycles' \in [Cycles -> Cycle]
    BY <1>0, <1>2 DEF Probe, TypeOK, Cycle
  <2> QED BY <1>2, <2>1 DEF Probe, TypeOK
<1>3. CASE StoreStatuses(c)
  <2>1. cycles[c].healthy \in SUBSET Services
    BY <1>0 DEF Cycle
  <2>2. cycles' \in [Cycles -> Cycle] /\ lost' \subseteq Services
    BY <1>3, <2>1, TypeNextRefresh DEF StoreStatuses
  <2> QED BY <1>3, <2>2 DEF StoreStatuses, TypeOK
<1>4. CASE RefreshStep(c)
  <2>1. cycles[c].service \in Services /\ cycles[c].at + 1 \in 1..6
    BY <1>0, <1>4 DEF RefreshStep, Cycle
  <2>2. RefreshWrites[cycles[c].at + 1][1] \in Keys
    BY <2>1, Writes DEF Keys
  <2>3. cached' \in [Services -> SUBSET Keys]
    BY <1>4, <2>1, <2>2 DEF RefreshStep, Written, TypeOK
  <2>4. cycles' \in [Cycles -> Cycle]
    BY <1>0, <1>4, <2>1 DEF RefreshStep, TypeOK, Cycle
  <2> QED BY <1>4, <2>3, <2>4 DEF RefreshStep, TypeOK
<1>5. CASE EndRefresh(c)
  <2>1. cycles[c].todo \in SUBSET Services
    BY <1>0 DEF Cycle
  <2>2. cycles' \in [Cycles -> Cycle] /\ lost' \subseteq Services
    BY <1>5, <2>1, TypeNextRefresh DEF EndRefresh
  <2> QED BY <1>5, <2>2 DEF EndRefresh, TypeOK
<1>6. CASE RedisFailsCycle(c)
  <2>1. cycles' \in [Cycles -> Cycle]
    BY <1>0, <1>6 DEF RedisFailsCycle, TypeOK, Cycle
  <2>2. lost' \subseteq Services
    BY <1>0, <1>6 DEF RedisFailsCycle, TypeOK, Cycle
  <2> QED BY <1>6, <2>1, <2>2 DEF RedisFailsCycle, TypeOK
<1> QED BY <1>1, <1>2, <1>3, <1>4, <1>5, <1>6 DEF CycleStep

LEMMA TypeRequest ==
    ASSUME TypeOK, NEW r \in Requests,
           Served(r) \/ NotSent(r) \/ ClientLeaves(r) \/ \E s \in Services : RouteRequest(r, s)
    PROVE  TypeOK'
<1>0. requests[r] \in Request /\ breaker \in Breaker /\ requests[r].missed \in BOOLEAN
  BY DEF TypeOK, Request
<1>1. ASSUME NEW key, NEW next \in Steps \ {"idle"}, Look(r, key, next) PROVE TypeOK'
  <2>1. PICK missed \in BOOLEAN :
           requests' = [requests EXCEPT ![r].step = next, ![r].missed = missed]
    BY <1>0, <1>1 DEF Look, TypeOK
  <2> QED BY <1>1, <2>1, TypeGoesOn DEF Look, TypeOK
<1>2. CASE GetRoute(r) \/ GetServiceInstances(r)
  BY <1>1, <1>2 DEF GetRoute, GetServiceInstances, Steps
<1>3. CASE CheckHealth(r)
  <2>1. requests' = [requests EXCEPT ![r].step = "fire"] \/ End(r)
    BY <1>3 DEF CheckHealth
  <2>2. /\ requests' \in [Requests -> Request]
        /\ \A q \in Requests : requests'[q].step = "idle" => requests'[q] = NoRequest
    BY <2>1, TypeEnd, TypeGoesOn DEF Steps
  <2> QED BY <1>3, <2>2 DEF CheckHealth, TypeOK
<1>4. CASE Fire(r)
  <2>1. requests' = [requests EXCEPT ![r].step = "proxied"] \/ End(r)
    BY <1>4 DEF Fire
  <2>2. /\ requests' \in [Requests -> Request]
        /\ \A q \in Requests : requests'[q].step = "idle" => requests'[q] = NoRequest
    BY <2>1, TypeEnd, TypeGoesOn DEF Steps
  <2>3. breaker.fires \in 0..MaxFires /\ breaker.fires + 1 \in 0..MaxFires
    BY <1>0, <1>4, FiresAssumption DEF Fire, Breaker
  <2>4. breaker' \in Breaker
    BY <1>0, <1>4, <2>3 DEF Fire, Breaker
  <2> QED BY <1>4, <2>2, <2>4 DEF Fire, TypeOK
<1>5. CASE Answer(r) \/ ProxyError(r) \/ BreakerTimeout(r) \/ NotSent(r)
  <2>1. breaker' \in Breaker
    BY <1>0, <1>5, TypeBreaker DEF Answer, ProxyError, BreakerTimeout, NotSent
  <2>2. End(r)
    BY <1>5 DEF Answer, ProxyError, BreakerTimeout, NotSent
  <2> QED BY <1>5, <2>1, <2>2, TypeEnd
     DEF Answer, ProxyError, BreakerTimeout, NotSent, TypeOK
<1>6. CASE ClientLeaves(r)
  <2>1. /\ requests' \in [Requests -> Request]
        /\ \A q \in Requests : requests'[q].step = "idle" => requests'[q] = NoRequest
    BY <1>6, TypeGoesOn DEF ClientLeaves, Steps
  <2> QED BY <1>6, <2>1 DEF ClientLeaves, TypeOK
<1>7. ASSUME NEW s \in Services, RouteRequest(r, s) PROVE TypeOK'
  <2>1. [NoRequest EXCEPT !.step = "route", !.service = s] \in Request
    BY DEF NoRequest, Request, Steps
  <2>2. [NoRequest EXCEPT !.step = "route", !.service = s].step = "route"
    BY DEF NoRequest
  <2> QED BY <1>7, <2>1, <2>2 DEF RouteRequest, TypeOK
<1> QED BY <1>2, <1>3, <1>4, <1>5, <1>6, <1>7 DEF Served

LEMMA TypeSurroundings ==
    ASSUME TypeOK,
           \/ ResetTimeout \/ RollWindow \/ Restart \/ UNCHANGED vars
           \/ \E s \in Services : Falls(s) \/ Rises(s) \/ \E key \in Keys : Expire(s, key)
    PROVE  TypeOK'
<1>1. CASE ResetTimeout \/ RollWindow
  <2>1. breaker' \in Breaker
    <3>1. breaker \in Breaker /\ 0 \in 0..MaxFires
      BY FiresAssumption DEF TypeOK
    <3>2. CASE ResetTimeout
      BY <3>1, <3>2 DEF ResetTimeout, Breaker
    <3>3. CASE RollWindow
      BY <3>1, <3>3 DEF RollWindow, Breaker
    <3> QED BY <1>1, <3>2, <3>3
  <2> QED BY <1>1, <2>1 DEF ResetTimeout, RollWindow, TypeOK
<1>2. CASE Restart
  <2>1. NoCycle \in Cycle /\ NoRequest \in Request /\ Closed \in Breaker
    BY Writes, FiresAssumption DEF NoCycle, Cycle, NoRequest, Request, Steps, Closed, Breaker
  <2> QED BY <1>2, <2>1 DEF Restart, TypeOK
<1>3. CASE \E s \in Services : Falls(s) \/ Rises(s) \/ \E key \in Keys : Expire(s, key)
  BY <1>3 DEF Falls, Rises, Expire, TypeOK
<1>4. CASE UNCHANGED vars
  BY <1>4 DEF vars, TypeOK
<1> QED BY <1>1, <1>2, <1>3, <1>4

LEMMA TypeStep == TypeOK /\ [Next]_vars => TypeOK'
BY TypeCycle, TypeRequest, TypeSurroundings DEF Next

\* Cycles, requests, the cache and the breaker are well-typed, whatever the number of
\* health checks that overlap; a request's place is free only with nothing left in it.
THEOREM GatewayTypeCorrect == Spec => []TypeOK
<1>1. Init => TypeOK
  BY GatewayInit
<1> QED BY <1>1, TypeStep, PTL DEF Spec

-----------------------------------------------------------------------------
(* The breaker.                                                            *)

\* What keeps the breaker closed: no failure can be counted, since a failure needs a
\* service that is down, a client that has left or a request that cannot be sent.
Smooth ==
    ~trouble => /\ \A s \in Services : up[s]
                /\ \A r \in Requests : requests[r].step # "left"
                /\ breaker.state = "closed"

\* A request in progress has a service: without it a failure could be counted for none.
Addressed == \A r \in Requests : requests[r].step # "idle" => requests[r].service \in Services

LEMMA AddressedStep == TypeOK /\ Addressed /\ [Next]_vars => Addressed'
<1> SUFFICES ASSUME TypeOK, Addressed, [Next]_vars PROVE Addressed'
  OBVIOUS
<1>1. ASSUME NEW r \in Requests,
             Served(r) \/ NotSent(r) \/ ClientLeaves(r) \/ \E s \in Services : RouteRequest(r, s)
      PROVE  Addressed'
  <2>0. requests[r] \in Request
    BY DEF TypeOK
  <2>1. \A q \in Requests \ {r} : requests'[q] = requests[q]
    BY <1>1 DEF Served, GetRoute, GetServiceInstances, Look, CheckHealth, Fire, Answer, ProxyError,
           BreakerTimeout, NotSent, ClientLeaves, RouteRequest, End, TypeOK
  <2>2. CASE GetRoute(r) \/ GetServiceInstances(r)
    <3>1. requests'[r].service = requests[r].service /\ requests[r].step # "idle"
      BY <2>0, <2>2 DEF GetRoute, GetServiceInstances, Look, TypeOK, Request
    <3> QED BY <2>1, <3>1 DEF Addressed
  <2>3. CASE \/ End(r)
             \/ /\ requests[r].step # "idle"
                /\ \E step \in Steps : requests' = [requests EXCEPT ![r].step = step]
    <3>1. \/ requests'[r].step = "idle"
          \/ requests'[r].service = requests[r].service /\ requests[r].step # "idle"
      BY <2>0, <2>3 DEF End, NoRequest, TypeOK, Request
    <3> QED BY <2>1, <3>1 DEF Addressed
  <2>4. CASE CheckHealth(r) \/ Fire(r) \/ Answer(r) \/ ProxyError(r) \/ BreakerTimeout(r)
             \/ NotSent(r) \/ ClientLeaves(r)
    BY <2>3, <2>4 DEF CheckHealth, Fire, Answer, ProxyError, BreakerTimeout, NotSent,
           ClientLeaves, Steps
  <2>5. ASSUME NEW s \in Services, RouteRequest(r, s) PROVE Addressed'
    <3>1. requests'[r].service = s
      BY <2>5 DEF RouteRequest, NoRequest, TypeOK
    <3> QED BY <2>1, <3>1 DEF Addressed
  <2> QED BY <1>1, <2>2, <2>4, <2>5 DEF Served
<1>2. CASE UNCHANGED requests
  BY <1>2 DEF Addressed
<1>3. CASE Restart
  BY <1>3 DEF Restart, NoRequest, Addressed
<1> QED BY <1>1, <1>2, <1>3
        DEF Next, vars, CycleStep, StartCycle, Probe, StoreStatuses, RefreshStep, EndRefresh,
            RedisFailsCycle, ResetTimeout, RollWindow, Falls, Rises, Expire

LEMMA SmoothRequest ==
    ASSUME TypeOK, Addressed, Smooth, ~trouble', NEW r \in Requests,
           Served(r) \/ NotSent(r) \/ ClientLeaves(r) \/ \E s \in Services : RouteRequest(r, s)
    PROVE  Smooth'
<1>1. UNCHANGED <<up, trouble>>
  BY DEF Served, GetRoute, GetServiceInstances, Look, CheckHealth, Fire, Answer, ProxyError,
         BreakerTimeout, NotSent, ClientLeaves, RouteRequest
<1>2. /\ \A s \in Services : up[s]
      /\ \A q \in Requests : requests[q].step # "left" /\ requests[q] \in Request
      /\ breaker.state = "closed" /\ breaker \in Breaker
  BY <1>1 DEF Smooth, TypeOK
<1>3. \A q \in Requests \ {r} : requests'[q] = requests[q]
  BY DEF Served, GetRoute, GetServiceInstances, Look, CheckHealth, Fire, Answer, ProxyError,
         BreakerTimeout, NotSent, ClientLeaves, RouteRequest, End, TypeOK
<1>4. End(r) => requests'[r].step # "left"
  BY DEF TypeOK, End, NoRequest
<1>5. requests'[r].step # "left" /\ breaker'.state = "closed"
  <2>1. ASSUME NEW key, NEW next \in Steps \ {"left"}, Look(r, key, next)
        PROVE  requests'[r].step # "left" /\ breaker' = breaker
    BY <1>2, <2>1 DEF Look, TypeOK, Request
  <2>2. CASE GetRoute(r) \/ GetServiceInstances(r)
    BY <1>2, <2>1, <2>2 DEF GetRoute, GetServiceInstances, Steps
  <2>3. CASE CheckHealth(r) \/ Fire(r)
    <3>1. \/ End(r)
          \/ \E step \in Steps \ {"left"} : requests' = [requests EXCEPT ![r].step = step]
      BY <2>3 DEF CheckHealth, Fire, Steps
    <3>2. requests'[r].step # "left"
      BY <1>2, <1>4, <3>1 DEF TypeOK, Request
    <3>3. breaker'.state = "closed"
      BY <1>2, <2>3 DEF CheckHealth, Fire, Breaker
    <3> QED BY <3>2, <3>3
  <2>4. CASE Answer(r)
    BY <1>2, <1>4, <2>4, TypeBreaker DEF Answer
  <2>5. CASE ProxyError(r) \/ BreakerTimeout(r) \/ NotSent(r) \/ ClientLeaves(r)
    <3>1. requests[r].step # "idle" => requests[r].service \in Services
      BY DEF Addressed
    <3> QED BY <1>2, <2>5, <3>1 DEF ProxyError, BreakerTimeout, NotSent, ClientLeaves
  <2>6. ASSUME NEW s \in Services, RouteRequest(r, s)
        PROVE  requests'[r].step # "left" /\ breaker' = breaker
    BY <2>6 DEF RouteRequest, NoRequest, TypeOK
  <2> QED BY <1>2, <2>2, <2>3, <2>4, <2>5, <2>6 DEF Served
<1> QED BY <1>1, <1>2, <1>3, <1>5 DEF Smooth

LEMMA SmoothStep == TypeOK /\ Addressed /\ Smooth /\ [Next]_vars => Smooth'
<1> SUFFICES ASSUME TypeOK, Addressed, Smooth, [Next]_vars, ~trouble' PROVE Smooth'
  BY DEF Smooth
<1>1. ASSUME NEW c \in Cycles, CycleStep(c) \/ RedisFailsCycle(c) PROVE Smooth'
  <2>1. UNCHANGED <<up, requests, breaker, trouble>>
    BY <1>1 DEF CycleStep, RedisFailsCycle, StartCycle, Probe, StoreStatuses, RefreshStep, EndRefresh
  <2> QED BY <2>1 DEF Smooth
<1>2. CASE ResetTimeout \/ RollWindow
  <2>1. UNCHANGED <<up, requests, trouble>>
    BY <1>2 DEF ResetTimeout, RollWindow
  <2>2. breaker.state = "closed" /\ breaker \in Breaker
    BY <2>1 DEF Smooth, TypeOK
  <2>3. breaker'.state = "closed"
    BY <1>2, <2>2 DEF ResetTimeout, RollWindow, Breaker
  <2> QED BY <2>1, <2>3 DEF Smooth
<1>3. ASSUME NEW s \in Services, Falls(s) \/ Rises(s) \/ \E key \in Keys : Expire(s, key)
      PROVE  Smooth'
  <2>1. UNCHANGED <<requests, breaker, trouble>> /\ (up' = up \/ up' = [up EXCEPT ![s] = TRUE])
    BY <1>3 DEF Falls, Rises, Expire
  <2> QED BY <2>1 DEF Smooth, TypeOK
<1>4. CASE Restart
  BY <1>4 DEF Restart, Smooth, Closed, NoRequest
<1>5. CASE UNCHANGED vars
  BY <1>5 DEF vars, Smooth
<1> QED BY <1>1, <1>2, <1>3, <1>4, <1>5, SmoothRequest DEF Next

\* While every service stays up, every client waits for its answer and every request can
\* be sent, the breaker the services share never opens, whatever the number of requests,
\* of errors the services answer and of time-outs.
THEOREM ErrorsDoNotOpen == Spec => []BreakerNeedsFailure
<1>1. Init => TypeOK /\ Addressed /\ Smooth
  <2> SUFFICES ASSUME Init PROVE Addressed /\ Smooth
    BY GatewayInit
  <2> QED BY DEF Init, Addressed, Smooth, Closed, NoRequest
<1>2. TypeOK /\ Addressed /\ Smooth /\ [Next]_vars => TypeOK' /\ Addressed' /\ Smooth'
  BY TypeStep, AddressedStep, SmoothStep
<1>3. Smooth => BreakerNeedsFailure
  BY DEF Smooth, BreakerNeedsFailure
<1> QED BY <1>1, <1>2, <1>3, PTL DEF Spec

-----------------------------------------------------------------------------
(* The cache.                                                              *)

\* Health check c still has its write of key before it.
Ahead(c, key) == cycles[c].at <= IF key = "route" THEN 3 ELSE 5

\* Only a health check that refreshes has a service.
RefreshingOnly == \A c \in Cycles : cycles[c].step # "refresh" => cycles[c].service = None

\* RefreshRestores is not inductive: of two refreshes of a service one may end while the
\* other has just deleted a key.  What holds in between: a key that is missing is one
\* some refresh is yet to write.
MissingIsComing ==
    \A s \in Services \ lost, key \in Keys :
       key \in cached[s] \/ \E c \in Refreshing(s) : Ahead(c, key)

CacheInv == TypeOK /\ RefreshingOnly /\ MissingIsComing

\* Nothing is deleted, and no refresh that was yet to write a key is given up.
LEMMA NothingDeleted ==
    ASSUME MissingIsComing, UNCHANGED cached,
           \A s \in Services \ lost' : s \notin lost \/ \E c \in Refreshing(s)' : cycles'[c].at = 0,
           \A s \in Services \ lost' : \A c \in Refreshing(s) :
              \/ c \in Refreshing(s)' /\ cycles'[c].at = cycles[c].at
              \/ cycles[c].at = 6
    PROVE  MissingIsComing'
<1> SUFFICES ASSUME NEW s \in Services \ lost', NEW key \in Keys
             PROVE  key \in cached[s] \/ \E c \in Refreshing(s)' : Ahead(c, key)'
  BY DEF MissingIsComing
<1>1. CASE \E c \in Refreshing(s)' : cycles'[c].at = 0
  BY <1>1 DEF Ahead
<1>2. CASE s \notin lost
  <2>1. key \in cached[s] \/ \E c \in Refreshing(s) : Ahead(c, key)
    BY <1>2 DEF MissingIsComing
  <2>2. ASSUME NEW c \in Refreshing(s), Ahead(c, key) PROVE c \in Refreshing(s)' /\ Ahead(c, key)'
    BY <2>2 DEF Ahead
  <2> QED BY <2>1, <2>2
<1> QED BY <1>1, <1>2

\* The health check goes on to its next service, having done with its last.
LEMMA NextRefreshKeeps ==
    ASSUME CacheInv, NEW c \in Cycles, NEW todo \in SUBSET Services, NextRefresh(c, todo),
           cycles[c].service = None \/ cycles[c].at = 6, UNCHANGED cached
    PROVE  RefreshingOnly' /\ MissingIsComing'
<1>1. CASE cycles' = [cycles EXCEPT ![c] = NoCycle] /\ UNCHANGED lost
  <2>1. /\ cycles'[c].service = None
        /\ \A d \in Cycles \ {c} : cycles'[d] = cycles[d]
    BY <1>1 DEF CacheInv, TypeOK, NoCycle
  <2>2. RefreshingOnly'
    BY <2>1 DEF CacheInv, RefreshingOnly
  <2>3. ASSUME NEW s \in Services, NEW d \in Refreshing(s)
        PROVE  \/ d \in Refreshing(s)' /\ cycles'[d].at = cycles[d].at
               \/ cycles[d].at = 6
    BY <2>1, ServicesAssumption DEF Refreshing, None
  <2> QED BY <1>1, <2>2, <2>3, NothingDeleted DEF CacheInv
<1>2. ASSUME NEW s \in todo,
             cycles' = [cycles EXCEPT ![c] = [NoCycle EXCEPT !.step = "refresh",
                                                !.todo = todo \ {s}, !.service = s]],
             lost' = IF Refreshing(s) \subseteq {c} THEN lost \ {s} ELSE lost
      PROVE  RefreshingOnly' /\ MissingIsComing'
  <2> DEFINE new == [NoCycle EXCEPT !.step = "refresh", !.todo = todo \ {s}, !.service = s]
  <2>1. new.step = "refresh" /\ new.service = s /\ new.at = 0
    <3>1. NoCycle \in Cycle /\ NoCycle.at = 0
      BY Writes DEF NoCycle, Cycle
    <3> QED BY <3>1 DEF Cycle
  <2>2. cycles' = [cycles EXCEPT ![c] = new]
    BY <1>2
  <2> HIDE DEF new
  <2>3. /\ cycles'[c].step = "refresh" /\ cycles'[c].service = s /\ cycles'[c].at = 0
        /\ \A d \in Cycles \ {c} : cycles'[d] = cycles[d]
    BY <2>2, <2>1 DEF CacheInv, TypeOK
  <2>4. RefreshingOnly'
    BY <2>3 DEF CacheInv, RefreshingOnly
  <2>5. ASSUME NEW t \in Services, NEW d \in Refreshing(t)
        PROVE  \/ d \in Refreshing(t)' /\ cycles'[d].at = cycles[d].at
               \/ cycles[d].at = 6
    BY <2>3, ServicesAssumption DEF Refreshing, None
  <2>6. ASSUME NEW t \in Services \ lost'
        PROVE  t \notin lost \/ \E d \in Refreshing(t)' : cycles'[d].at = 0
    <3>1. c \in Refreshing(s)'
      BY <2>3 DEF Refreshing
    <3> QED BY <1>2, <2>3, <2>6, <3>1
  <2> QED BY <2>4, <2>5, <2>6, NothingDeleted DEF CacheInv
<1> QED BY <1>1, <1>2 DEF NextRefresh

\* One write of a refresh: what it deletes it is yet to write.
LEMMA WriteKeeps ==
    ASSUME CacheInv, NEW c \in Cycles, RefreshStep(c)
    PROVE  RefreshingOnly' /\ MissingIsComing'
<1> DEFINE at == cycles[c].at
           w == RefreshWrites[at + 1]
<1>1. /\ cycles[c] \in Cycle /\ Len(RefreshWrites) = 6
      /\ cycles[c].service \in Services
      /\ at \in 0..5
  <2>1. cycles[c] \in Cycle /\ Len(RefreshWrites) = 6
    BY Writes DEF CacheInv, TypeOK
  <2> QED BY <2>1 DEF RefreshStep, Cycle
<1>2. PICK s \in Services : s = cycles[c].service
  BY <1>1
<1>3. /\ cycles' = [cycles EXCEPT ![c].at = at + 1]
      /\ cached' = [cached EXCEPT ![s] = Written(w, @)]
      /\ UNCHANGED lost
  BY <1>2 DEF RefreshStep
<1>4. /\ cycles'[c].at = at + 1 /\ cycles'[c].service = s /\ cycles'[c].step = cycles[c].step
      /\ \A d \in Cycles \ {c} : cycles'[d] = cycles[d]
      /\ cached'[s] = Written(w, cached[s])
      /\ \A t \in Services \ {s} : cached'[t] = cached[t]
  BY <1>1, <1>2, <1>3 DEF CacheInv, TypeOK, Cycle
<1>5. RefreshingOnly'
  BY <1>2, <1>4 DEF CacheInv, RefreshingOnly
<1>6. \A t \in Services : Refreshing(t)' = Refreshing(t)
  BY <1>2, <1>4 DEF Refreshing
<1>7. /\ w[1] = IF at \in {0, 2, 3} THEN "route" ELSE "instances"
      /\ w[2] <=> at \in {3, 5}
  <2>1. w[1] = IF at + 1 \in {1, 3, 4} THEN "route" ELSE "instances"
    BY <1>1, Writes
  <2>2. at = 0 \/ at = 1 \/ at = 2 \/ at = 3 \/ at = 4 \/ at = 5
    BY <1>1
  <2> QED BY <2>1, <2>2, Writes
<1> HIDE DEF w
<1>8. ASSUME NEW key \in Keys, s \notin lost
      PROVE  key \in cached'[s] \/ \E d \in Refreshing(s) : Ahead(d, key)'
  <2>1. key \in cached[s] \/ \E d \in Refreshing(s) : Ahead(d, key)
    BY <1>8 DEF CacheInv, MissingIsComing
  <2>2. ASSUME NEW d \in Refreshing(s) \ {c}, Ahead(d, key) PROVE Ahead(d, key)'
    BY <1>4, <2>2 DEF Ahead, Refreshing
  <2>3. c \in Refreshing(s)
    BY <1>2 DEF Refreshing
  <2>4. Ahead(c, key) /\ ~Ahead(c, key)' => key = w[1] /\ w[2]
    BY <1>1, <1>4, <1>7 DEF Ahead, Keys
  <2>5. key \in cached[s] /\ key \notin cached'[s] => Ahead(c, key)'
    <3>1. key \in cached[s] /\ key \notin cached'[s] => key = w[1] /\ ~w[2]
      BY <1>4 DEF Written
    <3> QED BY <1>1, <1>4, <1>7, <3>1 DEF Ahead
  <2>6. key = w[1] /\ w[2] => key \in cached'[s]
    BY <1>4 DEF Written
  <2> QED BY <2>1, <2>2, <2>3, <2>4, <2>5, <2>6
<1>9. ASSUME NEW t \in Services \ lost, t # s, NEW key \in Keys
      PROVE  key \in cached'[t] \/ \E d \in Refreshing(t) : Ahead(d, key)'
  <2>1. key \in cached[t] \/ \E d \in Refreshing(t) : Ahead(d, key)
    BY DEF CacheInv, MissingIsComing
  <2>2. ASSUME NEW d \in Refreshing(t), Ahead(d, key) PROVE Ahead(d, key)'
    BY <1>2, <1>4, <1>9, <2>2 DEF Ahead, Refreshing
  <2> QED BY <1>4, <1>9, <2>1, <2>2
<1>10. MissingIsComing'
  BY <1>3, <1>6, <1>8, <1>9 DEF MissingIsComing
<1> QED BY <1>5, <1>10

LEMMA CycleKeeps ==
    ASSUME CacheInv, NEW c \in Cycles, CycleStep(c) \/ RedisFailsCycle(c)
    PROVE  RefreshingOnly' /\ MissingIsComing'
<1>0. /\ TypeOK /\ RefreshingOnly /\ cycles[c] \in Cycle /\ Len(RefreshWrites) = 6
      /\ cycles[c].step # "refresh" => cycles[c].service = None
  BY Writes DEF CacheInv, TypeOK, RefreshingOnly
\* Before the refreshes: c has no service, and gets none.
<1>1. ASSUME UNCHANGED <<cached, lost>>, cycles[c].service = None, NEW cycle \in Cycle,
             cycles' = [cycles EXCEPT ![c] = cycle], cycle.service = None
      PROVE  RefreshingOnly' /\ MissingIsComing'
  <2>1. /\ cycles'[c].service = None
        /\ \A d \in Cycles \ {c} : cycles'[d] = cycles[d]
    BY <1>0, <1>1 DEF TypeOK
  <2>2. RefreshingOnly'
    BY <1>0, <2>1 DEF RefreshingOnly
  <2>3. ASSUME NEW s \in Services, NEW d \in Refreshing(s)
        PROVE  d \in Refreshing(s)' /\ cycles'[d].at = cycles[d].at
    BY <1>1, <2>1, ServicesAssumption DEF Refreshing, None
  <2> QED BY <1>1, <2>2, <2>3, NothingDeleted DEF CacheInv
<1>2. NoCycle \in Cycle /\ NoCycle.service = None
  BY <1>0 DEF NoCycle, Cycle
<1>3. CASE StartCycle(c)
  <2>1. cycles[c].service = None
    BY <1>0, <1>3 DEF StartCycle
  <2>2. /\ [NoCycle EXCEPT !.step = "probe", !.todo = Services] \in Cycle
        /\ [NoCycle EXCEPT !.step = "probe", !.todo = Services].service = None
    BY <1>2 DEF Cycle
  <2> QED BY <1>1, <1>3, <2>1, <2>2 DEF StartCycle
<1>4. ASSUME NEW s \in Services, Probe(c, s) PROVE RefreshingOnly' /\ MissingIsComing'
  <2>1. cycles[c].service = None
    BY <1>0, <1>4 DEF Probe
  <2>2. PICK healthy \in SUBSET Services :
           cycles' = [cycles EXCEPT ![c].todo = @ \ {s}, ![c].healthy = healthy]
    BY <1>0, <1>4 DEF Probe, TypeOK, Cycle
  <2>3. cycles' = [cycles EXCEPT ![c] =
                      [cycles[c] EXCEPT !.todo = @ \ {s}, !.healthy = healthy]]
    BY <1>0, <2>2 DEF TypeOK, Cycle
  <2>4. /\ [cycles[c] EXCEPT !.todo = @ \ {s}, !.healthy = healthy] \in Cycle
        /\ [cycles[c] EXCEPT !.todo = @ \ {s}, !.healthy = healthy].service = None
    BY <1>0, <2>1 DEF Cycle
  <2> QED BY <1>1, <1>4, <2>1, <2>3, <2>4 DEF Probe
<1>5. CASE StoreStatuses(c)
  BY <1>0, <1>5, NextRefreshKeeps DEF StoreStatuses, Cycle
<1>6. CASE RefreshStep(c)
  BY <1>6, WriteKeeps
<1>7. CASE EndRefresh(c)
  BY <1>0, <1>7, NextRefreshKeeps DEF EndRefresh, Cycle
<1>8. CASE cycles[c].step = "probe" /\ cycles' = [cycles EXCEPT ![c] = NoCycle]
           /\ UNCHANGED <<cached, lost>>
  BY <1>0, <1>1, <1>2, <1>8
<1>9. ASSUME cycles[c].service # None, NEW at \in 0..6,
             cycles' = [cycles EXCEPT ![c].at = at],
             lost' = lost \cup {cycles[c].service}, UNCHANGED cached
      PROVE  RefreshingOnly' /\ MissingIsComing'
  <2>1. /\ cycles'[c].service = cycles[c].service /\ cycles'[c].step = cycles[c].step
        /\ \A d \in Cycles \ {c} : cycles'[d] = cycles[d]
    BY <1>0, <1>9 DEF TypeOK, Cycle
  <2>2. RefreshingOnly'
    BY <1>0, <2>1 DEF RefreshingOnly
  <2>3. ASSUME NEW s \in Services \ lost', NEW d \in Refreshing(s)
        PROVE  d \in Refreshing(s)' /\ cycles'[d].at = cycles[d].at
    BY <1>9, <2>1 DEF Refreshing
  <2> QED BY <1>9, <2>2, <2>3, NothingDeleted DEF CacheInv
<1>10. CASE RedisFailsCycle(c)
  <2>1. (IF cycles[c].at \in {2, 3} THEN 4 ELSE Len(RefreshWrites)) \in 0..6
    BY <1>0
  <2> QED BY <1>0, <1>8, <1>9, <1>10, <2>1 DEF RedisFailsCycle, TypeOK
<1> QED BY <1>3, <1>4, <1>5, <1>6, <1>7, <1>10 DEF CycleStep

LEMMA CacheStep == CacheInv /\ [Next]_vars => CacheInv'
<1> SUFFICES ASSUME CacheInv, [Next]_vars PROVE RefreshingOnly' /\ MissingIsComing'
  BY TypeStep DEF CacheInv
<1>0. TypeOK /\ RefreshingOnly /\ MissingIsComing
  BY DEF CacheInv
<1>1. ASSUME UNCHANGED <<cached, cycles, lost>> PROVE RefreshingOnly' /\ MissingIsComing'
  BY <1>0, <1>1 DEF RefreshingOnly, MissingIsComing, Refreshing, Ahead
<1>2. ASSUME NEW r \in Requests,
             Served(r) \/ NotSent(r) \/ ClientLeaves(r) \/ \E s \in Services : RouteRequest(r, s)
      PROVE  RefreshingOnly' /\ MissingIsComing'
  BY <1>1, <1>2 DEF Served, GetRoute, GetServiceInstances, Look, CheckHealth, Fire, Answer,
                    ProxyError, BreakerTimeout, NotSent, ClientLeaves, RouteRequest
<1>3. ASSUME \/ ResetTimeout \/ RollWindow \/ UNCHANGED vars
             \/ \E s \in Services : Falls(s) \/ Rises(s)
      PROVE  RefreshingOnly' /\ MissingIsComing'
  BY <1>1, <1>3 DEF ResetTimeout, RollWindow, vars, Falls, Rises
<1>4. ASSUME NEW s \in Services, NEW key \in Keys, Expire(s, key)
      PROVE  RefreshingOnly' /\ MissingIsComing'
  <2>1. /\ UNCHANGED cycles /\ lost' = lost \cup {s}
        /\ \A t \in Services \ {s} : cached'[t] = cached[t]
    BY <1>0, <1>4 DEF Expire, TypeOK
  <2> QED BY <1>0, <2>1 DEF RefreshingOnly, MissingIsComing, Refreshing, Ahead
<1>5. CASE Restart
  <2>1. /\ \A c \in Cycles : cycles'[c].service = None
        /\ UNCHANGED cached
        /\ \A s \in Services \ lost' : s \notin lost /\ Refreshing(s) = {}
    BY <1>5 DEF Restart, NoCycle
  <2> QED BY <1>0, <2>1 DEF RefreshingOnly, MissingIsComing
<1> QED BY <1>2, <1>3, <1>4, <1>5, CycleKeeps DEF Next

\* However many health checks refresh a service at once and in whatever order their
\* deletions and writes reach Redis, the last one to end leaves both keys cached, unless
\* Redis, a restart or an expiry disturbed the service since.
THEOREM CacheRestored == Spec => []RefreshRestores
<1>1. Init => CacheInv
  <2> SUFFICES ASSUME Init PROVE RefreshingOnly /\ MissingIsComing
    BY GatewayInit DEF CacheInv
  <2> QED BY DEF Init, RefreshingOnly, MissingIsComing, NoCycle
<1>2. CacheInv => RefreshRestores
  <2> SUFFICES ASSUME CacheInv, NEW s \in Services \ lost, Refreshing(s) = {}
               PROVE  cached[s] = Keys
    BY DEF RefreshRestores
  <2>1. Keys \subseteq cached[s]
    BY DEF CacheInv, MissingIsComing
  <2> QED BY <2>1 DEF CacheInv, TypeOK
<1> QED BY <1>1, <1>2, CacheStep, PTL DEF Spec
=============================================================================
