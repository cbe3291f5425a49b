---------------------------- MODULE GatewayRouting ----------------------------
(***************************************************************************)
(* The API gateway's way from a request to a service: the route cache in   *)
(* Redis, the health check that fills it every minute, and the one circuit *)
(* breaker all services share.  config.json gives each service a single    *)
(* instance, so a service stands for its instance.                         *)
(***************************************************************************)
EXTENDS Naturals, Sequences, FiniteSets

CONSTANTS
    Services,      \* endpoints of config.json
    Flaky,         \* those that go down and come up
    Cycles,        \* health checks in progress: a slow one overlaps with the next
    Requests,      \* requests in progress
    MaxFires       \* bound: requests in one window of the breaker's statistics

ASSUME FlakyAssumption == Flaky \subseteq Services
ASSUME FiresAssumption == MaxFires \in Nat \ {0}
\* What stands for no service is none.
ASSUME ServicesAssumption == "none" \notin Services

VARIABLES
    up,            \* per service: its process answers
    health,        \* Redis: loadbalancer:instances:service:<s>, field status
    cached,        \* Redis: per service, which of its keys exist
    cycles,        \* updateAllInstancesStatus, per health check
    requests,      \* routeRequest, per request
    breaker,       \* proxyBreaker
    lost,          \* history: services whose refresh was disturbed, or that expired,
                   \* since the last refresh that began alone
    trouble        \* history: since the start, a service was down, a client left or
                   \* a request could not be sent

vars == <<up, health, cached, cycles, requests, breaker, lost, trouble>>

Keys == {"route", "instances"}

\* What refreshServiceCache does to the two keys, await by await: both are deleted,
\* then each is deleted once more and written.
RefreshWrites ==
    << <<"route", FALSE>>, <<"instances", FALSE>>,
       <<"route", FALSE>>, <<"route", TRUE>>,
       <<"instances", FALSE>>, <<"instances", TRUE>> >>

None == "none"

Cycle == [step : {"idle", "probe", "refresh"},
          todo : SUBSET Services,                \* left to probe, or to refresh
          healthy : SUBSET Services,             \* found healthy
          service : Services \cup {None},        \* being refreshed
          at : 0..Len(RefreshWrites)]            \* writes done
NoCycle == [step |-> "idle", todo |-> {}, healthy |-> {}, service |-> None, at |-> 0]

Steps == {"idle", "route", "instances", "health", "fire", "proxied", "left"}
Request == [step : Steps, service : Services \cup {None}, missed : BOOLEAN]
NoRequest == [step |-> "idle", service |-> None, missed |-> FALSE]

Breaker == [state : {"closed", "open", "half"},
            trial : BOOLEAN,                     \* pendingClose
            fires : 0..MaxFires,
            failures : 0..MaxFires]
Closed == [state |-> "closed", trial |-> FALSE, fires |-> 0, failures |-> 0]

TypeOK ==
    /\ up \in [Services -> BOOLEAN]
    /\ health \in [Services -> BOOLEAN]
    /\ cached \in [Services -> SUBSET Keys]
    /\ cycles \in [Cycles -> Cycle]
    /\ requests \in [Requests -> Request]
    /\ \A r \in Requests : requests[r].step = "idle" => requests[r] = NoRequest
    /\ breaker \in Breaker
    /\ lost \subseteq Services
    /\ trouble \in BOOLEAN

\* storeInstances declares every instance healthy.  preloadAllActiveServices caches
\* nothing: it wants services whose status is 'active', and config.json has none.
Init ==
    /\ up = [s \in Services |-> TRUE]
    /\ health = [s \in Services |-> TRUE]
    /\ cached = [s \in Services |-> {}]
    /\ cycles = [c \in Cycles |-> NoCycle]
    /\ requests = [r \in Requests |-> NoRequest]
    /\ breaker = Closed
    /\ lost = Services
    /\ trouble = FALSE

Refreshing(s) == {c \in Cycles : cycles[c].service = s}

-----------------------------------------------------------------------------
(* The health check, every minute.                                         *)

StartCycle(c) ==
    /\ cycles[c].step = "idle"
    /\ cycles' = [cycles EXCEPT ![c] = [NoCycle EXCEPT !.step = "probe", !.todo = Services]]
    /\ UNCHANGED <<up, health, cached, requests, breaker, lost, trouble>>

\* Mutant: a failed request leaves the status as it is.
Probe_KeepsStatus(c, s) ==
    /\ cycles[c].step = "probe" /\ s \in cycles[c].todo
    /\ cycles' = [cycles EXCEPT ![c].todo = @ \ {s},
                                ![c].healthy = IF up[s] \/ health[s] THEN @ \cup {s} ELSE @]
    /\ UNCHANGED <<up, health, cached, requests, breaker, lost, trouble>>

Probe(c, s) ==
    /\ cycles[c].step = "probe" /\ s \in cycles[c].todo
    /\ cycles' = [cycles EXCEPT ![c].todo = @ \ {s},
                                ![c].healthy = IF up[s] THEN @ \cup {s} ELSE @]
    /\ UNCHANGED <<up, health, cached, requests, breaker, lost, trouble>>

\* The cycle goes on to refresh a service of todo, or ends.
NextRefresh(c, todo) ==
    \/ /\ todo = {}
       /\ cycles' = [cycles EXCEPT ![c] = NoCycle]
       /\ UNCHANGED lost
    \/ \E s \in todo :
          /\ cycles' = [cycles EXCEPT ![c] = [NoCycle EXCEPT !.step = "refresh",
                                                !.todo = todo \ {s}, !.service = s]]
          /\ lost' = IF Refreshing(s) \subseteq {c} THEN lost \ {s} ELSE lost

\* All statuses in one transaction, as old as their probes.
StoreStatuses(c) ==
    /\ cycles[c].step = "probe" /\ cycles[c].todo = {}
    /\ health' = [s \in Services |-> s \in cycles[c].healthy]
    /\ NextRefresh(c, cycles[c].healthy)
    /\ UNCHANGED <<up, cached, requests, breaker, trouble>>

Written(w, keys) == IF w[2] THEN keys \cup {w[1]} ELSE keys \ {w[1]}

\* Mutant: a route that is there again is left alone, and so are the instances.
RefreshStep_KeepsExisting(c) ==
    /\ cycles[c].service # None /\ cycles[c].at < Len(RefreshWrites)
    /\ LET s == cycles[c].service
           w == RefreshWrites[cycles[c].at + 1]
       IN  IF cycles[c].at = 2 /\ "route" \in cached[s]
           THEN /\ cycles' = [cycles EXCEPT ![c].at = Len(RefreshWrites)]
                /\ UNCHANGED cached
           ELSE /\ cached' = [cached EXCEPT ![s] = Written(w, @)]
                /\ cycles' = [cycles EXCEPT ![c].at = @ + 1]
    /\ UNCHANGED <<up, health, requests, breaker, lost, trouble>>

RefreshStep(c) ==
    /\ cycles[c].service # None /\ cycles[c].at < Len(RefreshWrites)
    /\ cached' = [cached EXCEPT ![cycles[c].service] = Written(RefreshWrites[cycles[c].at + 1], @)]
    /\ cycles' = [cycles EXCEPT ![c].at = @ + 1]
    /\ UNCHANGED <<up, health, requests, breaker, lost, trouble>>

EndRefresh(c) ==
    /\ cycles[c].service # None /\ cycles[c].at = Len(RefreshWrites)
    /\ NextRefresh(c, cycles[c].todo)
    /\ UNCHANGED <<up, health, cached, requests, breaker, trouble>>

\* Redis refuses a command: the statuses are given up; so is a refresh whose first
\* two deletions fail; _cacheRoute and _cacheInstances fail each for itself.
RedisFailsCycle(c) ==
    /\ \/ /\ cycles[c].step = "probe"
          /\ cycles' = [cycles EXCEPT ![c] = NoCycle]
          /\ UNCHANGED lost
       \/ /\ cycles[c].service # None
          /\ cycles' = [cycles EXCEPT ![c].at = IF @ \in {2, 3} THEN 4 ELSE Len(RefreshWrites)]
          /\ lost' = lost \cup {cycles[c].service}
    /\ UNCHANGED <<up, health, cached, requests, breaker, trouble>>

-----------------------------------------------------------------------------
(* The circuit breaker (opossum: no volume threshold, a rolling window).   *)

Opens(b) == 2 * b.failures > b.fires \/ b.state = "half"

Failed(b) ==
    LET counted == [b EXCEPT !.failures = IF @ < MaxFires THEN @ + 1 ELSE @]
    IN  IF Opens(counted) THEN [counted EXCEPT !.state = "open", !.trial = FALSE] ELSE counted

Succeeded(b) == IF b.state = "half" THEN [b EXCEPT !.state = "closed", !.trial = FALSE] ELSE b

\* Mutant: half open refuses like open.
Admits_NoTrial(b) == b.state = "closed"

Admits(b) == b.state = "closed" \/ b.trial

ResetTimeout ==
    /\ breaker.state = "open"
    /\ breaker' = [breaker EXCEPT !.state = "half", !.trial = TRUE]
    /\ UNCHANGED <<up, health, cached, cycles, requests, lost, trouble>>

RollWindow ==
    /\ breaker.fires > 0
    /\ breaker' = [breaker EXCEPT !.fires = 0, !.failures = 0]
    /\ UNCHANGED <<up, health, cached, cycles, requests, lost, trouble>>

-----------------------------------------------------------------------------
(* A request.                                                              *)

\* A request that ends frees its place for another.
End(r) == requests' = [requests EXCEPT ![r] = NoRequest]

RouteRequest(r, s) ==
    /\ requests[r].step = "idle"
    /\ requests' = [requests EXCEPT ![r] = [NoRequest EXCEPT !.step = "route", !.service = s]]
    /\ UNCHANGED <<up, health, cached, cycles, breaker, lost, trouble>>

\* getRoute and getServiceInstances, also after a miss of the first; a read Redis
\* refuses is a miss.
Look(r, key, next) ==
    /\ requests[r].step = key
    /\ \E hit \in BOOLEAN :
          /\ hit => key \in cached[requests[r].service]
          /\ requests' = [requests EXCEPT ![r].step = next,
                                          ![r].missed = @ \/ ~hit]
    /\ UNCHANGED <<up, health, cached, cycles, breaker, lost, trouble>>

GetRoute(r) == Look(r, "route", "instances")
GetServiceInstances(r) == Look(r, "instances", "health")

\* The status of the instance; without route, instances or status the answer is 404.
CheckHealth(r) ==
    /\ requests[r].step = "health"
    /\ IF ~requests[r].missed /\ health[requests[r].service]
       THEN requests' = [requests EXCEPT ![r].step = "fire"]
       ELSE End(r)
    /\ UNCHANGED <<up, health, cached, cycles, breaker, lost, trouble>>

\* fire counts the request also when it rejects it (503).
Fire(r) ==
    /\ requests[r].step = "fire"
    /\ breaker.fires < MaxFires
    /\ IF Admits(breaker)
       THEN requests' = [requests EXCEPT ![r].step = "proxied"]
       ELSE End(r)
    /\ breaker' = [breaker EXCEPT !.fires = @ + 1, !.trial = FALSE]
    /\ UNCHANGED <<up, health, cached, cycles, lost, trouble>>

\* Mutant: an answer with a status of 500, or a 504 of the proxy, counts as a failure.
Answer_ByStatus(r) ==
    /\ requests[r].step = "proxied"
    /\ End(r)
    /\ breaker' \in {Succeeded(breaker), Failed(breaker)}
    /\ UNCHANGED <<up, health, cached, cycles, lost, trouble>>

\* Any answer of the service, whatever its status, and the 504 with which the proxy
\* itself answers for a connection that is reset or silent for 10 seconds (of a service
\* that is down, or up and slow): the response finishes, which resolves the call.
Answer(r) ==
    /\ requests[r].step = "proxied"
    /\ End(r)
    /\ breaker' = Succeeded(breaker)
    /\ UNCHANGED <<up, health, cached, cycles, lost, trouble>>

\* Mutant: the place of the request is freed, what it found is not.
ProxyError_Kept(r) ==
    /\ requests[r].step = "proxied" /\ ~up[requests[r].service]
    /\ requests' = [requests EXCEPT ![r].step = "idle"]
    /\ breaker' = Failed(breaker)
    /\ UNCHANGED <<up, health, cached, cycles, lost, trouble>>

\* The connection is refused.
ProxyError(r) ==
    /\ requests[r].step = "proxied" /\ ~up[requests[r].service]
    /\ End(r)
    /\ breaker' = Failed(breaker)
    /\ UNCHANGED <<up, health, cached, cycles, lost, trouble>>

\* The call throws before anything is sent, whether the service is up or not: a path that
\* http.request refuses, since it is sent on as Express decoded it, or no secret to sign
\* the service token with.
NotSent(r) ==
    /\ requests[r].step = "proxied"
    /\ End(r)
    /\ breaker' = Failed(breaker)
    /\ trouble' = TRUE
    /\ UNCHANGED <<up, health, cached, cycles, lost>>

\* The response of a client that is gone never finishes: the call stays unresolved
\* until the breaker's own 30 seconds end, and counts as a failure.
ClientLeaves(r) ==
    /\ requests[r].step = "proxied"
    /\ requests' = [requests EXCEPT ![r].step = "left"]
    /\ trouble' = TRUE
    /\ UNCHANGED <<up, health, cached, cycles, breaker, lost>>

BreakerTimeout(r) ==
    /\ requests[r].step = "left"
    /\ End(r)
    /\ breaker' = Failed(breaker)
    /\ UNCHANGED <<up, health, cached, cycles, lost, trouble>>

-----------------------------------------------------------------------------
(* The surroundings.                                                       *)

Falls(s) ==
    /\ s \in Flaky /\ up[s]
    /\ up' = [up EXCEPT ![s] = FALSE]
    /\ trouble' = TRUE
    /\ UNCHANGED <<health, cached, cycles, requests, breaker, lost>>

Rises(s) ==
    /\ ~up[s]
    /\ up' = [up EXCEPT ![s] = TRUE]
    /\ UNCHANGED <<health, cached, cycles, requests, breaker, lost, trouble>>

\* A key's time to live ends half an hour or more after its last refresh: the service was
\* down, the gateway stopped or Redis refused the checks in between, which is left open.
Expire(s, key) ==
    /\ key \in cached[s] /\ Refreshing(s) = {}
    /\ cached' = [cached EXCEPT ![s] = @ \ {key}]
    /\ lost' = lost \cup {s}
    /\ UNCHANGED <<up, health, cycles, requests, breaker, trouble>>

\* The gateway stops and starts: what was in memory is gone, Redis keeps the cache.
Restart ==
    /\ health' = [s \in Services |-> TRUE]
    /\ lost' = lost \cup {s \in Services : Refreshing(s) # {}}
    /\ cycles' = [c \in Cycles |-> NoCycle]
    /\ requests' = [r \in Requests |-> NoRequest]
    /\ breaker' = Closed
    /\ UNCHANGED <<up, cached, trouble>>

CycleStep(c) ==
    \/ StartCycle(c)
    \/ \E s \in Services : Probe(c, s)
    \/ StoreStatuses(c)
    \/ RefreshStep(c)
    \/ EndRefresh(c)

Served(r) ==
    \/ GetRoute(r) \/ GetServiceInstances(r) \/ CheckHealth(r) \/ Fire(r)
    \/ Answer(r) \/ ProxyError(r) \/ BreakerTimeout(r)

Next ==
    \/ \E c \in Cycles : CycleStep(c) \/ RedisFailsCycle(c)
    \/ \E r \in Requests :
          \/ Served(r) \/ NotSent(r) \/ ClientLeaves(r)
          \/ \E s \in Services : RouteRequest(r, s)
    \/ ResetTimeout
    \/ RollWindow
    \/ \E s \in Services :
          Falls(s) \/ Rises(s) \/ \E key \in Keys : Expire(s, key)
    \/ Restart

Spec == Init /\ [][Next]_vars

Serviceable(s) == cached[s] = Keys /\ health[s]

\* The cron fires every minute; calls and timers end.
Fairness ==
    /\ \A c \in Cycles : WF_vars(CycleStep(c))
    /\ \A r \in Requests : WF_vars(Served(r))
    /\ WF_vars(ResetTimeout) /\ WF_vars(RollWindow)

LiveSpec == Spec /\ Fairness

-----------------------------------------------------------------------------

\* However the refreshes of a service overlap, the last one leaves both its keys
\* cached: only a refresh that Redis or a restart broke off, or an expiry, leaves the
\* service unknown (404) between refreshes.
RefreshRestores ==
    \A s \in Services : s \notin lost /\ Refreshing(s) = {} => cached[s] = Keys

\* As long as every service was up, every client waited for its answer and every request
\* could be sent, the breaker all services share refuses nobody: neither errors a service
\* answers nor the proxy's own time-outs open it.
BreakerNeedsFailure == ~trouble => breaker.state = "closed"

\* From some time on no health check is broken off.
ChecksEnd == <>[][~(Restart \/ \E c \in Cycles : RedisFailsCycle(c))]_vars

\* From some time on every client waits for its answer, and every request can be sent.
CallsEnd == <>[][~(\E r \in Requests : ClientLeaves(r) \/ NotSent(r))]_vars

\* A service that stays down is found out in the end, also when an older, slower health
\* check stores its statuses after a newer one's.
DownIsNoticed ==
    ChecksEnd => \A s \in Services : (<>[]~up[s]) => <>[]~health[s]

\* Health checks of services that answer take moments, and the next starts a minute later.
AllAnswer ==
    /\ <>[](\A s \in Services : up[s])
    /\ <>[](Cardinality({c \in Cycles : cycles[c].step # "idle"}) <= 1)

\* Whatever was down, left half refreshed or refused before: when all services stay up,
\* each is found in the cache again and again, and if requests get through the cache
\* (a refresh hides the service for a moment of each minute), are sent and are waited
\* for, the breaker closes for good.
ServiceComesBack ==
    ChecksEnd /\ AllAnswer
        => /\ \A s \in Services : []<>Serviceable(s)
           /\ CallsEnd /\ ([]<>(\E r \in Requests : requests[r].step = "fire"))
                 => <>[](breaker.state = "closed")
=============================================================================
