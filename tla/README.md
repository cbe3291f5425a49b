# Metro-backend: a TLA+ model of the ticketing core

The repository is the backend of a metro operator: some thirteen services, most of
them Node.js, that talk over REST, gRPC and Kafka and keep their state in
PostgreSQL, MongoDB and Redis. This directory holds TLA+ modules translated from
that code, the TLC configurations that check them, and theorems that TLAPS proves
for every number of tickets, request handlers and messages, and for every network and map.

Where a document and the code disagree, the modules follow the code; section 12 lists
the disagreements.

## 1. The system

| component | state | operations | talks to | what is hard |
|---|---|---|---|---|
| **ticket-service, ticket lifecycle** | `tickets` (PostgreSQL) | purchase, settle, cancel, status route, activate, expire, use at a gate, lock an abused ticket, delete | Kafka topics `ticket.*`, `payment.*`; gRPC from scheduler-service | every handler reads a row, awaits, and writes it back without a transaction or a version; duplicated and reordered payment messages; crashes |
| ticket-service, idempotency helper | Redis lock and result keys, or a per-process map | lock, run, store, release, clear | wraps purchase and activation | check-then-lock, time to live, crash between two Redis calls |
| ticket-service, fares and prices | `fares`, `transit_passes` | fare of a station pair, of several routes, of a pass | transport-service by gRPC | rounding, missing routes, discounts |
| ticket-service, promotions and discounts | `promotions` | validate, apply, count a use | - | the usage counter is read, incremented and saved |
| **payment-service** | `payments`, `transactions`, `payment_logs` | make a payment from `ticket.created`, build a payment URL or QR code, settle it from a webhook event | Kafka | three writes and a publish without a transaction; redelivery |
| **webhook** | hooks (MongoDB), idempotency marks (Redis) | receive a SePay or PayPal notification once, publish it | Kafka | provider retries, crash between mark and publish |
| **scheduler-service** | job registry in memory | register, run, force, update, start, stop | gRPC to ticket-service | overlapping runs |
| api-gateway | services and instances (PostgreSQL and a Redis copy), API keys, rate counters | route a request, pick an instance, health checks, keys | every service over HTTP | refresh of the copy against health checks; one circuit breaker |
| auth-service | users, tokens, login attempts | sign up, log in, verify, reset, revoke | Kafka `user.*` | counters written from copies, publishes in the background |
| user-service | passengers, staff, admins, a Redis cache | make and remove profiles | Kafka `user.*`, `passenger.*` | redelivered `user.created`, swallowed errors |
| transport-service | stations, routes, route stations, trains, trips, stops | CRUD, path search | gRPC | sequence numbers within a route |
| public-service | Redis mirror of transport and fares | refresh on a timer, read | gRPC | stale mirror |
| notification-service | e-mail and SMS logs | send | Kafka | no retry |
| report-, control-, management-service | reports, devices (Python) | - | - | outside the ticketing core |
| dashboard, nginx, deploy | configuration | - | - | - |

A sale runs through four of them:

```
 passenger -> ticket-service --ticket.created--> payment-service --URL/QR--> bank
                    ^                                  ^                       |
                    |                                  +--sepay/paypal events- webhook
                    +--payment.completed|failed|cancelled--+
 scheduler-service --ActivateDueTickets--> ticket-service        gate --use--> ticket-service
```

What makes each of them correct:

* **Ticket lifecycle.** A ticket admits no more rides than its kind allows and none
  after it was cancelled, used up or expired. What has a price is activated only if
  its payment completed, nobody rides unpaid, and what was paid is settled and, for a pass, activated
  once its countdown ends. Cancellation is final. The list of uses is what happened.
  Redelivered messages change nothing.
* **Idempotency helper.** One execution per key, a retry gets the first result, no
  key is locked for ever.
* **Payments and webhooks.** What the provider notified is published; nothing is
  completed that was not paid in full; a completed payment is announced, stays completed
  and reaches its ticket.
* **Promotions and prices.** A code is used no more often than its limit; a passenger
  pays for a ride there is, and never more because a call failed.
* **Route search.** The path it answers is a ride and there is none cheaper; it ends.
* **Job registry.** One run of a job at a time unless it is forced; what is switched on runs
  again and again.
* **Gateway.** A service that is up is found and let through; one that is down is found
  out; the breaker opens for failures only.
* **Accounts and profiles.** There is an account if and only if there is a profile; the
  cache forgets a passenger who is gone.

`PROJECT.json` lists the hazards behind these at the lines where they bite, each
with the properties that would catch it, or with the reason why none does.

## 2. Modules

| module | component | proofs |
|---|---|---|
| `TicketContract`, `TicketLifecycle` | ticket-service: the ticket and every handler that writes it; the contract it implements | `TicketLifecycleProofs` |
| `IdempotencyLock` | ticket-service: `executeWithIdempotency` | `IdempotencyLockProofs` |
| `WebhookIngest` | webhook: SePay and PayPal notifications | `WebhookIngestProofs` |
| `PaymentSettlement` | payment-service: payments from `ticket.created` to their outcome | `PaymentSettlementProofs` |
| `TicketSale` | payment-service and the ticket's consumer, composed | `PaymentSettlementProofs` |
| `PromotionUsage` | ticket-service: the usage counter of a promotion | `PricingProofs` |
| `FarePricing` | ticket-service: the price of a journey | `PricingProofs` |
| `RouteSearch` | transport-service: the path search with transfers | `RouteSearchProofs` |
| `Accounts` | auth-service and user-service: account, profile, cache copies | `AccountsProofs` |
| `JobRegistry` | scheduler-service | `OperationsProofs` |
| `GatewayRouting` | api-gateway: route cache, health checks, circuit breaker | `OperationsProofs` |

An `MC` module holds the instance of each, with one `.cfg`, but for tickets, which have five, and jobs, which have
two. `MCOnce` (`IdempotencyLock` and `WebhookIngest`) and `MCJourney` (`RouteSearch`, `FarePricing` and `PromotionUsage`)
hold more than one component. These share no state; each takes its steps while the others are at rest as they began, so
that the run sees exactly the states of each, side by side and not multiplied. At rest nothing of the others is
due, so what is assumed to go on in one is not held up by them.
Modules that stand beside another one, in a run or in a proof, have specifications with names of their own:
`RegistrySpec`, `FareSpec`, `SearchSpec` and `IngestSpec`, and likewise `RegistryLiveSpec` and so on.

**How they fit together.** `TicketSale` extends `PaymentSettlement` by the consumer of
its outcomes, so that properties reach from the provider's notification to the ticket.
Elsewhere a module stands at the border of the next with an action that allows
at least what the other one does: `Notify` of `PaymentSettlement` delivers any notification of a
provider, also twice, where `WebhookIngest` shows that one is published at most once;
`PublishOutcome` of `TicketLifecycle` publishes any outcome at any time, where
`PaymentSettlement` publishes some; the `ActivateDueTickets` that `CronScan` stands for
comes from a job that `JobRegistry` shows to run for ever; what `SyncPassengerCache` of `Accounts`
writes is what the ticket purchase reads. What is shown of a module with such an
action holds with the other module in its place. The whole chain in one state space (a
row, three consumers, webhook requests and ticket handlers) is beyond TLC at any
bound where something overlaps.

## 3. Tickets: `TicketLifecycle`

### State

| variable | code |
|---|---|
| `tickets` | the rows of `ticket.model.js`: `status`, `ticketType` (the five long-term types are one kind, "pass"), `finalPrice` = 0 (`free`), `fareId` (`fare`), `isActive`, the length of `usedList` (`uses`), `validFrom`/`validUntil` (`validity`: none, running, over), `activatedAt` (`countdown`: none, running, due). `absent`: not sold yet; `deleted`: removed by `DELETE /:id/delete` |
| `jobs` | handlers in flight: the operation, where it is between two awaits, the Sequelize instance it holds (`mem`), the status it will write, the message it was called for |
| `cronDue`, `expiring` | ids that `activateDueTickets` and `expireTickets` have read and not yet written |
| `topics` | the uncommitted messages of `payment.completed`, `payment.failed`, `payment.cancelled`, one partition each |
| `settled`, `spent` | history: payments ever completed; uses granted |

### Actions

A handler is split where it awaits the database and its answer matters to another
handler: one action reads and decides, the next writes. What lies between two
statements without such a point is one action, saves and trailing calls included.

| actions | code |
|---|---|
| `CreateShortTerm`, `CreateLongTerm` | `_createShortTermTicketInternal`, `_createLongTermTicketInternal`; a free short-term ticket goes on to `processPaymentCompletion` in the same request |
| `PublishOutcome` | payment-service, as ticket-service sees it: any outcome of a ticket with a price, any number of times, in any order |
| `HandleCompleted`, `WriteCompletion`, `StampPurchase` | `processPaymentCompletedEvent`, `PaymentCompletionHandler`, and the purchase date written after it |
| `HandleNotPaid`, `WriteStatus` | `processPaymentFailedEvent`, `processPaymentCancelledEvent`, through `updateTicketStatus` |
| `CancelTicket`/`WriteCancel`, `UpdateTicketStatus`/`WriteStatus`, `ActivateTicket`/`WriteActivation`, `DeleteTicket` | the routes of `ticket.route.js` |
| `UseTicket`, `UseTicketByQRCode`, `ReadForUse`, `WriteUse`, `TrackAbuse`, `RecheckAbuse`, `RelockAbuse` | a gate scan: the status check, the second read by the use handler, its write, the abuse detector, and the third read that only `useTicket` makes |
| `CronScan`/`CronActivate`, `ExpireScan`/`ExpireWrite` | `activateDueTickets`, `expireTickets` |
| `ValidityEnds`, `CountdownEnds`, `WriteFails`, `Crash` | time, a write the database refuses, the end of the process |

Three details carry much of the behaviour. `Store` is an UPDATE by primary key, so
it does nothing once the row is gone. `NewStatus` is Sequelize's: `instance.update`
sends only the columns that differ from the instance's copy, so a handler whose copy
already says `used` leaves the column alone. And `Finish` commits the Kafka offset
when the consumer's handler returns, whether it did its work or swallowed an error;
only an exception (the missing ticket of `HandleCompleted`, `StampPurchase`) keeps
the message.

`TicketContract` is what ticket-service promises of a ticket (the states and transitions of its
README and the tables of TicketStatusService.js): phases unsold, reserved, paid, valid, closed, void,
gone, a count of rides, an allowance of one or two for short-term tickets, and the few changes of
phase there are. It has no handlers, messages or copies. `Ride` takes a short-term ticket that is
paid or valid, or a pass that is valid. The code does one thing more: it lets a reserved short-term
ticket ride. That is the contract's `RideUnpaid`, which is in `LenientSpec` and not in `Spec`;
`ImplementsContract` is the refinement of `LenientSpec`, and `ticket_unpaid_ride` shows that the
exception is needed (section 12).

### Runs

All runs are of `MCTicketLifecycle`. `CHECK_DEADLOCK FALSE` throughout: tickets are
finite, and a system whose tickets are all deleted and whose topics are empty has
nothing left to do.

| run | specification, bounds | properties | shows |
|---|---|---|---|
| `ticket_contract` | `SerialSpec`, 1 ticket, 3 uses, 1 message per topic, every operator status, expiry job, refused writes | `LedgerExact`, `ImplementsContract` | one handler at a time, the code implements the contract but for unpaid rides, and its use list is exact, crashes and refused writes included |
| `ticket_payments` | `LiveSpec`, 1 ticket, 1 request handler beside the consumer and the batches, 1 use, 1 message per topic, operators who ask for anything but `active` | `UnpaidNeverActive`, `CancelledStaysWhenQuiet`, `CountdownNeverRewinds`, `NoPaymentDropped`, `PaidIsSettled`, `PaidPassActivates` | under any interleaving nothing unpaid is activated, a cancellation is final once older readers ended, redelivery never restarts a countdown, no completed payment is dropped; what is paid is settled, and a paid pass is activated, cancelled or deleted |
| `ticket_ledger` | `Spec`, 1 ticket, 2 request handlers beside the batches, 3 uses, every operator status, expiry job, refused writes, no messages, symmetric in the handlers; 1 440 000 states | `LedgerBounded` | scans and operators rewrite the use list from copies and lose entries of each other's, but never write one that nobody had, nor a used ticket back as unused |
| `ticket_double_ride` | `Spec`, 2 request handlers, no operator, no payments | `AllowanceKept` | violated, see section 12 |
| `ticket_unpaid_ride` | `SerialSpec`, 1 request handler, 1 use, no operator | `UnpaidNeverRides` | violated, see section 12 |

**Bounds.** No action reads or writes two tickets: the batches treat each id of their
list alone (one UPDATE over ids, or one per id), and topics only order messages.
One ticket therefore shows every interleaving of handlers on it; a second one would
only put its messages in front of the first's, and liveness excludes the one way
that matters (a deleted ticket in front). One request handler beside the consumer and
two batches gives every pair of different readers of one row; two scans of one ticket meet in
`ticket_ledger` and `ticket_double_ride`, and what holds of any number of handlers is proved. `MaxSpent` stops new scans at that
many uses, one beyond a return ticket's allowance in the contract's run. `MaxBacklog`
bounds the uncommitted messages of a topic; one suffices for duplicates, since an
outcome may be published again as soon as the earlier message is committed. `CronScan` reads
every due ticket at once and one scan is in flight at a time: the code reads 500 ids, and the rest
at its next dates. The
theorems below have none of these bounds.

**Constants that describe the environment.** `Operator` is the set of statuses an
administrator asks for. `UnpaidNeverActive` is about the system and not about an
administrator who sets a pending ticket active on purpose, so that run leaves `active`
out. (Such an operator also makes a pass active without any validity, and gates refuse
it: `_addStatusSpecificFields` starts the validity of an inactive copy only.)
`ExpiryJob` is there because `expireTickets` has no caller in the repository; the
models allow it where it can only hurt. `DbFaults` lets the database refuse a write;
`NoPaymentDropped` holds without such faults only (section 12).

**Fairness** (`LiveSpec`). The consumer's fetch loop takes its topics in turn and
kafkajs runs one message at a time, so a topic whose head can again and again be
handled is handled: strong fairness per topic, because another topic's message
makes the consumer busy in between. A handler the consumer began returns (weak
fairness of its steps): its awaits are database calls with time-outs. The scheduler
registers `activateDueTickets` as a recurring job (schedulerServer.js), hence weak fairness of
the scan and of its writes; a countdown ends since time passes. Nothing is assumed of
passengers, operators, gates, payments or the end of a validity. `CrashesStop` is a
premise of both properties: a process that dies in every handler does nothing.

## 4. The idempotency helper: `IdempotencyLock`

`executeWithIdempotency` for one key. Keys share no state, so one key is enough and
what the key is made of is left out (`requestTimestamp`, which a comment in
createShortTermTicket adds "to make idempotency key unique", is one of the fields
`_normalizeData` drops).

| variable | code |
|---|---|
| `locks` | per store (Redis, and the memory of each instance) the lock key: free, set without a time to live (`bare`: SET NX done, EXPIRE not), or timed |
| `results` | the stores that hold the result key |
| `calls` | per caller, the Redis call its `executeWithIdempotency` is about to make; what EXISTS told it |
| `operation` | `create_ticket`, whose callers clear the key after every success, or `activate_ticket`, which keeps the result |
| `calm` | history: no Redis call failed, and no lock expired while somebody was inside |

Every Redis call is one action with two outcomes: it answers, or the helper falls back to
the memory of its instance (`withRedisClient` returns null). `ExpireLock` and
`ExpireResult` end a time to live whenever they like, also under a running
operation; `Crash` takes an instance's memory and its callers. A call that Redis
carried out but whose reply was lost leaves Redis as an `Orphaned` or a timed lock
would, with `calm` false.

| run | bounds | properties | shows |
|---|---|---|---|
| `once`, with `WebhookIngest` | `OnceSpec`, 2 callers, each on its own instance | `MutualExclusion`, `RetryIsAnswered`, `NoLockForEver` | while Redis answers and no operation outlives its lock, activation is never performed by two callers at once, and who comes after a result is stored is answered from it; whatever fails, a lock with a time to live goes away in the end |

There is no bound on time or on repetitions: a caller that ends may begin again, and
the state is finite. Two callers on two instances give the
race for the shared key and the split between memories; more of either only repeat it, and
the theorems are for any number. Deadlock is checked.

Two limits of the properties are the code's. Ticket creation clears the key after each
success without asking who holds it, so it can remove another caller's lock:
`MutualExclusion` speaks of activation. And a lock between SET NX and EXPIRE whose
caller dies, or whose EXPIRE Redis refuses, has no time to live: `NoLockForEver`
assumes that no lock is `Orphaned`. Fairness: a caller's next call returns or throws (weak
fairness of `Step`), and a time to live ends.

## 5. Webhooks: `WebhookIngest`

`processWebhook` of the SePay and of the PayPal service, which are the same up to names and
the idempotency key. `provider` says which; the difference that matters is `KeyOfHook`: a
retry of a stored PayPal hook reads the transmission id under a name the stored headers do
not have, so it makes another key. (SePay's older format takes the clock for a
key when it has no time stamp; that looks like a Redis that never finds the mark, which the
module has.)

| variable | code |
|---|---|
| `hooks` | the MongoDB document of a notification (unique `webhookId`): none, or its `status` |
| `marks` | the Redis idempotency keys, "processing" and "processed" alike, since `isProcessed` only asks whether there is one |
| `requests` | per HTTP request, the call it is about to make, whether it belongs to `POST /retry`, and the status in the document it loaded (`save` sends only what changed) |
| `sent`, `told`, `sound` | history: messages in the topic; notifications answered with 200; whether nothing but Redis has failed |

Every call is one action that succeeds or throws; a MongoDB write or a publish that throws
may or may not have been carried out. What `retryFailedWebhooks` read earlier is covered by a
retry that stays before its first call for as long as it likes.

| run | bounds | properties | shows |
|---|---|---|---|
| `once`, with `IdempotencyLock` | `OnceSpec`, 1 notification, 2 requests at a time | `PublishedAtMostOnce`, `AcceptedIsPublishedWhenSound`, `ReceivedIsPublished` | at most one message whatever fails; while nothing but Redis fails, what is accepted and everything that arrives is published |

That nothing is answered 200 of which there is no hook (`AcceptedIsRecorded`) is proved
and not in the run.

A publish that returns adds one message. The producers are not idempotent, so a retry inside kafkajs
may store a message twice at the broker; that is outside the model, and `PaymentSettlement` takes
notifications any number of times.

Notifications share no state, so one is enough; the number of deliveries is not
bounded, only how many overlap. `PublishedAtMostOnce` is worth a remark: it is the unique index that gives it.
The Redis mark, which the documents call the idempotency, is set after the
lookup by another call, can be lost or expire, and the property holds without it; the price is that a request
that loses the insert marks the winner's hook `failed`. Fairness: each request's next call returns or throws.

## 6. Payments: `PaymentSettlement` and `TicketSale`

The payments of one ticket: the row made from `ticket.created`, further rows from the SePay
order route, the capture of a PayPal order, and the two consumers that settle rows.

| variable | code |
|---|---|
| `rows` | `paymentStatus` of each payment of the ticket, `none` before its insert |
| `method`, `amount` | of the bought payment; what each row asks for. PayPal's price is in dollars, so no bank transfer equals it |
| `queue`, `handled` | per topic, what is not committed and how much of it was handled: kafkajs commits some time after the handler returned |
| `jobs` | per worker (three consumers, an HTTP request), the await it stands at, the status it read and the one it will write |
| `offered`, `captured` | whose QR code or link the passenger has; PayPal's capture |
| `received`, `announced`, `sound` | history: what providers notified, outcomes published, whether a worker stopped or a call failed |
| `ticket` (`TicketSale`) | the ticket's status as the sale makes it |

| actions | code |
|---|---|
| `TakeCreated`, `CreateQr`, `LinkQr`, `CreatePaypal`, `SaveOrder`, `Fallback`, `AnnounceReady`, `AnnounceFailure` | `handleTicketCreated` and the SePay, PayPal and default strategies, PayPal's fallback included |
| `CreateSepayOrder`, `CaptureOrder`, `FindCaptured`, `SaveCapture` | `createSepayOrder`, `capturePayment` |
| `TakeTransfer`, `CompleteTransfer`, `PublishTransfer` | the SePay hook consumer: any payment of the ticket, its amount, COMPLETED, then transaction, log and `payment.completed` |
| `TakeCapture`, `WriteCapture`, `PublishCapture` | the PayPal hook consumer, for COMPLETED and DENIED captures |
| `Transfer`, `PayPalNotifies`, `Commit`, `Stop` | providers, offsets, and a worker that stops and gets its messages again |
| `CreditTicket`, `CancelUnpaid` (`TicketSale`) | the ticket's consumer of `payment.completed` and `payment.failed` |

The one run is of the composition, `MCTicketSale`; the theorem `SaleHasPayments` says that
it is the payment service with something beside it.

| run | bounds | properties | shows |
|---|---|---|---|
| `payments` | `SaleLiveSpec`, the bought payment and one more, 2 notifications; all three methods; 596 000 states | `CompletedWasPaid`, `CompletedIsAnnounced`, `CompletedStaysWhenQuiet`, `CancelledWithCause`, `CaptureReachesTicket` | nothing is completed that was not paid in full; a completed payment is announced (PayPal's through any stop); it stays completed once older readers ended and unless PayPal denies; a sound service cancels no ticket without a cause; a captured payment reaches the ticket |

Two payments give the choice `findOne` has and a wrong amount; two notifications give a
duplicate, a reordering and a denial after a completion. `CHECK_DEADLOCK FALSE`: a settled sale has
nothing left to do. Fairness: the PayPal consumer and the ticket's consumer go on; nothing of
passengers, providers or the other workers. `StopsEnd` is a premise: a consumer that stops for
ever handles nothing. That promise cannot be made of SePay: its consumer skips a
COMPLETED row, so a stop between the update and the publish loses the announcement.

What the messages are is exact although `announced` is a set: a `completed` after the
first changes nothing, the first `failed` cancels for good, and the topics are read in any order.

## 7. Promotions: `PromotionUsage`

One code with a limit, and everybody who uses it: purchases of short-term tickets and of passes
and the apply route. Each request prices with the promotion (`Price`, `Refuse`), sells (`Sell`,
`SellFree`, `SellFails`), reads the counter (`ReadCount`) and writes one more than it read (`SaveCount`), or
does not get to (`Uncounted`). Around them a code is switched on and off (`SetActive`), and
deleted in two steps (`CheckTickets`, `Destroy`). The route behind `SetActive` hands its body to the row
(PromotionRepository.js:116-148), so an administrator may rewrite the counter or the limit as well;
that is left out. `disturbed` remembers whether two requests
overlapped, a use went uncounted or a free ticket was given.

The run `journey` has 3 requests of any kinds and a limit of 2. It shows
`NeverOvercounted`, that the counter never exceeds the uses there were, and
`LimitKeptAlone`, that only an overlap, an uncounted use or a free ticket can pass the limit.
Three requests are one more than the limit: two stale readers, and a use before or after them. The theorems are
for any number and any limit. (`CHECK_DEADLOCK FALSE`: the requests come to an end.)

## 8. Prices: `FarePricing`

A short-term ticket's price for a group, from two stations: `FindRoutes`, `PlanDirect` or
`PlanTransfer` (at most one change, always from the first route found at the origin),
`Count` with its three ways (transport-service counts both ends of a ride; the local fallback counts
one of them; 5 if neither answers), `PriceJourney` by tiers, trip factor and discounts. Routes come in
any order and any of them may be missing, since a route whose stations do not come is
passed over. Prices are exact: tiers in tenths, trips in halves, rates in
hundredths, and `Rounded` is `Math.round` to thousands on a fraction. (The program uses floats;
where a float lands on the other side of an exact tie it may differ by 1000.) A group counts the six
`Types` of passengers that the calculator lists; a fare's base price is at least 0, as
fare.model.js demands (`FareAssumption`).

The run `journey` asks for every pair of stations of three maps (branches, a route within another one,
routes in a row), one way and return, with 2 tables of fares, 3 of discounts and 3 groups:
`FareTypeOK`, no count and no price negative; `NoNeedlessTransfer`, one leg when one route serves both and no call failed; `LegsAreARide`, the
charged legs join and each lies on its route; `FailureFavoursPassenger`, an estimate in place of a failed call
never raises a price. Maps of three routes and seven stations reach the first two tiers, each
fallback and both ends of a connection; a journey has at most two legs.

## 9. The path search: `RouteSearch`

`findShortestPathWithTransfers`, iteration by iteration: `FindShortestPath` reads the table and
fills the heap, `SkipStale`, `Arrive`, `Relax` and `Exhausted` are the loop, `Answer` returns.
Keys are pairs of a station and the route it was reached by; of several nodes at the same cost
the heap may give any. The heap is a set, which drops a node pushed twice at one cost: the second
would be skipped or relaxed without effect.

The run `journey` also puts every query to 108 networks of four stations and three routes (a trunk, any line of two or three
stations beside it, a shuttle or none) with penalties -1 and 2 and compares with a reference that
enumerates rides: `FoundIsCheapest` (no ride is cheaper than the answer), `PathIsARide` (the path leads
from the origin to the destination and costs what the answer says), and `SearchEnds` under weak fairness of
the loop. -1 is the lowest penalty for which no step has a negative cost; the route takes the
penalty from the query unchecked, and below it the search may not end.

## 10. Accounts and profiles: `Accounts`

One passenger across three services. `SignUp`, `PublishCreated`, `DeleteUser` and
`RevokeAllUserKeys` are auth-service; `Take`, `ReadProfile`, `CreateProfile`, `StoreCopy`, `PublishSync` and `Commit` are
user-service's consumer of `user.created`, `user.login` and the cache requests;
`FindProfile`, `UpdateProfile`, `PublishDeleted`, `DestroyProfile` and `ClearCache` its routes;
`RequestSync` and `SyncPassengerCache` are ticket-service. Every call has an action that fails
it (`Fault`), and both services stop anywhere. A profile has an id, so that a later one is told from
an earlier one's copies. `broken` remembers a fault that may leave one of account and profile alone
(a lost or refused `user.created`, one handled again, a deletion cut short), `stale` one
that may leave a cached passenger; each is set exactly where the model says so.

| run | bounds | properties | shows |
|---|---|---|---|
| `accounts` | `LiveSpec`, 2 requests of either kind, 2 faults | `AgreeAtRest`, `CacheFollowsProfile`, `ProfileFollows` | at rest there is an account if and only if there is a profile; the cache holds nobody who is gone; an account gets its profile; but for the faults named |

Two requests give two deletions, or an update beside a deletion; two faults a fault in the
handling of another. Fairness: consumers handle what is there and calls end; strong fairness of
taking `user.created`, since other topics make the consumer busy in between.

## 11. The scheduler and the gateway: `JobRegistry`, `GatewayRouting`

`JobRegistry` has per job the flags `enabled`, `running` and whether its cron task ticks; a run is
`RunJob` up to the handler (by `Tick` or `TriggerJob`, forced or not) and `Finish` after it,
which clears the flag whoever set it. `UpdateJob` with a bad expression leaves the task stopped;
`StartAll` and `StopAll` are the registry's. The run `jobs` (2 jobs, 3 runs at a
time, 1 forced run each) shows `RegistryTypeOK`; `OverlapBounded`, at most one run more of a job is active than
were forced; and `JobKeepsRunning`, a job that stays switched on runs again and again while handlers
return, whatever was forced, failed or restarted before. Fairness: a started cron task fires at each
of its dates, for ever; strong, since the runs may all be taken in between. The run `jobs_forced` checks
what the service's README promises, `UnforcedRunsAlone`: only the force flag starts a run beside
another one. It is violated, and `OverlapBounded` is what is left (section 12).

`GatewayRouting` has per service its entry in the Redis copy (route and instances), its
health status, and the one circuit breaker of all services. `StartCycle`, `Probe`, `StoreStatuses`,
`RefreshStep` and `EndRefresh` are the minute's health check, Redis write by Redis write, and cycles overlap
when a probe takes longer than a minute; `RouteRequest` to `Fire` a request on its way to the proxy. There it
ends in one of four ways. `Answer`: a response finishes, the service's with any status or the 504 that
express-http-proxy itself gives when a connection is reset or silent for 10 seconds; the breaker counts a
success. `ProxyError`: the connection is refused. `NotSent`: the call throws before anything is sent, with the service up or
not. `ClientLeaves`: the response never finishes, and the breaker's own 30 seconds end (`BreakerTimeout`). The last three
count as failures; `ResetTimeout` and `RollWindow` opossum's timers; services fall and
rise, entries expire (at any time that no refresh is under way: why the last one is half an hour ago is left open), Redis refuses
commands, the gateway restarts.

| run | bounds | properties | shows |
|---|---|---|---|
| `gateway` | `LiveSpec`, 1 service, 2 overlapping cycles, 1 request at a time, 2 requests in a window; 421 000 states | `TypeOK`, `RefreshRestores`, `BreakerNeedsFailure`, `DownIsNoticed`, `ServiceComesBack` | however refreshes overlap the last leaves the service cached; the breaker opens only if a service was down, a client left or a request could not be sent, not for an answer of whatever status; a service that stays down is found out; one that stays up is found and let through again |

Services share nothing but the breaker, whose counts do not say whose failure they are, so that one service shows
what opens and closes it. That the failures of one service cut off the others is what the code does and nothing excludes; no
property is about it. Nor is one about the moment of each refresh in which a service is not in the cache and
a request is answered 404: `RefreshRestores` says that it ends with the last refresh.

The liveness properties assume that Redis errors and restarts come to an end (`ChecksEnd`).
`ServiceComesBack` assumes also that checks of services that answer do not overlap for ever (`AllAnswer`), and, for
the breaker, that from some time on clients wait and requests can be sent (`CallsEnd`): one request in each window
that cannot be sent keeps it open with every service up. Fairness is that the cron fires, calls end and timers run out.

## 12. Where the code and its documents part

Three disagreements are shown by runs; the others follow from reading the code beside the modules,
and a property or a premise of each module names the case.

* **A one-way ticket can ride twice** (`ticket_double_ride`): two scans between the
  status check and the write. The use handlers read the row again but do not look at
  its status; there is no transaction. Serially the allowance is kept
  (`ImplementsContract`).
* **An unpaid ticket can ride** (`ticket_unpaid_ride`). ticket-service/README.md:796-821 leads from
  `pending_payment` to a usable ticket by a payment only, and says of a paid short-term ticket that it may
  be used at once; ticket-usage.test.js:98-110 expects 'Ticket is not active and cannot be used'. Both
  routes refuse a list of statuses without `pending_payment`, and `handleUseShortTermTicket` looks at
  none. Passes are refused until they have a validity.
* **Two unforced runs of a job can overlap** (`jobs_forced`). "1 job instance" at a time
  (scheduler-service/README.md:309), unless forced (320). A run that ends clears `running` whoever set it
  (jobRegistry.js:75), so after a forced run beside another, ticks join the one still in progress.
* **A cancelled ticket can come back.** "No transitions from
  cancelled" (TicketStatusService.js:19) holds of the table, not of the writers that
  do not ask it: a completion, an activation, the activation job or a scan that read
  the row earlier overwrites a cancellation. `CancelledStaysWhenQuiet` is what does
  hold, and is proved.
* **A completed payment can be lost**: the completion
  handler turns a database error into a return value, and the offset is committed.
* **A paid ticket can be cancelled** by its own `ticket.created`, delivered again after a
  stop: the insert fails on the primary key, `payment.failed` is published and the ticket
  cancelled whatever its status (`CancelledWithCause` says that it takes a stop).
* **An operation can be performed twice for one key.**
  "Ensures operations are performed only once" (IdempotencyHelper.js:6): the result is looked up
  before the lock is taken and not again after, and `storeResult` deletes the
  lock. A caller that looked before the other's lock and locks after its end runs too.
* **An accepted notification can be lost.** "At-least-once"
  (webhook/README.md:289): a failed publish is a return value that nobody reads, the
  hook becomes `processed` and the provider is answered 200.
* **"No valid path found" is never thrown** by the fare planner: the list it tests is never
  empty, and two stations no route joins are sold as one leg on a route that serves only the first.
* **A group's `pricePerPerson`** is the rounded total divided by the count; the example of
  ticket-service/README.md:1079 has 15000 for each of two passengers beside a subtotal of 30000.
* **`FareService.calculateStationBasedFare`** (FareService.js:134) names an undeclared variable and throws.
* **Cached passengers do not expire**: node-redis v4 takes the arguments `'EX', ttl` for options
  it does not know.
* **An account's API keys outlive it**: their owner is set to NULL before
  `revokeAllUserKeys` looks for keys of that owner.
* **The gateway's routes for managing services** do not reach the Redis copy that requests
  are routed by.

## 13. Proofs

TLC finds out on an instance; the theorems are for any number of handlers, messages,
payments, networks and faults. **Every safety invariant and every action property that a passing run
checks is also a theorem**, and so is the refinement of the ticket contract; what is left to TLC alone
is liveness. Type correctness is a theorem in each proof module; where a run does not list it, it is only that.

The theorems assume of the constants what the modules assume by name, and TLC evaluates
these assumptions in every run:

| assumption | why the code justifies it |
|---|---|
| `ConsumerAssumption`, `RedisAssumption`, `BoughtAssumption`, `JobsAssumption`, `ServicesAssumption`, `NoneAssumption`, `FlakyAssumption`, `HomeAssumption` | names of different things differ, and each thing is where it belongs |
| `BoundAssumption`, `FaultsAssumption`, `ForcedAssumption`, `FiresAssumption`, `LimitAssumption`, `FlagAssumption` | bounds are numbers and flags are Booleans; any will do |
| `RequestsAssumption`, `RunsAssumption`, `UsesAssumption`, `FiniteAssumption` | there are finitely many requests, runs, stations and routes, however many |
| `TablesAssumption`, `NetworkAssumption`, `GroupAssumption`, `FareAssumption`, `DiscountAssumption` | the validations of the models: passenger counts and base prices are not negative, percentages are at most 100, a station is on a route once |
| `PenaltiesAssumption` | section 9: below -1 the search may not end |

### Tickets: `TicketLifecycleProofs`

The three invariants about types (`TypeInvariant`: `TypeOK`, `OneJobEach`, `MessageHeld`) say that a handler has one job
and that the consumer's message is still the head of its topic, so that committing removes that one. Lemmas say once
what a step may do to a row, a job, a topic or a batch; each theorem then takes the actions of `Next` one by one.

* `LedgerCovered` (`LedgerBounded`). A handler writes `mem.uses + 1` from a copy it read earlier, so
  the invariant must speak of copies: `CopiesCovered`, each copy in flight is covered by the uses granted, which only grow.
  That a used ticket keeps an entry follows from `GrantWrites` and `EntriesStay`, what a step may do to `spent` and `uses`.
* `CancelledStays` (`CancelledStaysWhenQuiet`). Once nobody holds a copy of a
  cancelled ticket, every action that could change its status needs a guard that `cancelled` fails.
* `PaidBeforeActive` (`UnpaidNeverActive`), for operators who do not ask for `active`. What makes a ticket active was often read long
  before: `PaidInv` says that each status about to be written, each id in the batches of the two cron jobs
  and each `payment.completed` in a topic belongs to a ticket that was paid or is free.
* `CountdownStaysOver` (`CountdownNeverRewinds`). A completion is the only write that starts a countdown, so it must
  not meet one that is over. `CreditInv`: who completes a payment holds a copy that waits for it, and at most one does for a ticket;
  `FreshInv`: of a ticket that waits, or is being completed, no countdown has begun and no other handler will start a validity.
* `PaymentsCredited` (`NoPaymentDropped`), as long as the database takes every write (`~DbFaults`; section 12 has the
  loss without it), from `CreditInv`: the message is committed by the stamp after the completion, or when the ticket is settled already.
* `LedgerIsExact` (`LedgerExact`), `AllowanceKeptAlone` and `KeepsTheContract` (`ImplementsContract`) are about `SerialSpec`, handlers one at
  a time. `SerialInv`: at most one handler is at work (`OneAtWork`), its copy is the row (`Knows`), and the row's columns
  agree with each other (`Sound`); then each step is a step of `TicketContract` under the refinement mapping
  (its exception `RideUnpaid` included), or leaves it alone. `AllowanceKept` is the property the run `ticket_double_ride` violates without the serialisation.

### The idempotency helper and webhooks

`IdempotencyLockProofs` proves `TypeCorrect`, `Exclusion` (`MutualExclusion`) and `LateCallers`
(`RetryIsAnswered`) for any callers, instances and assignment of one to the other.
`MutualExclusion` needs that whoever is inside holds the
Redis lock (`Held`) and that activation never reaches the clearing steps (`NeverClears`);
`RetryIsAnswered` needs that the result a late caller saw is still there.

`WebhookIngestProofs` proves `TypeCorrect`, `PublishedOnce`, `AcceptedOnRecord` and
`AcceptedPublished`, for any notifications and requests, without assumptions. The
first safety theorem rests on `OnceInv`: the request that inserted a hook (`Owner`) is the
only one of its notification between insert and answer, nothing has been
sent before its publish, and nothing is sent of a notification without hook. `RecordInv` adds that
marks, and requests on the duplicate and failure paths, have a hook; `SoundInv` that
while nothing breaks a hook's message is sent or its owner is on the way to it.

### Payments: `PaymentSettlementProofs`

`TypeCorrect` and `CompletedPaid` (`CompletedWasPaid`) follow the money: topics hold what providers
notified (`Heard`), only a PayPal payment has captures (`Origin`), what a consumer is about to write was notified
(`Backed`); `Within` keeps a handled message in its topic until it is committed.

`CompletionsAnnounced` (`CompletedIsAnnounced`), `CompletedStays` (`CompletedStaysWhenQuiet`) and `CancelledForCause`
(`CancelledWithCause`) share `OutcomeInv`: which payment is PayPal's and which rows a worker touches (`Kinds`, `Theirs`), that a consumer works
on the message at its position (`Current`), that a completed row is announced, about to be, or its message still to be handled
(`Due`), that whoever writes a row read one (`Present`), that without a stop `ticket.created` is handled once (`FirstTime`), and
what a failure was announced for (`Caused`).

`SaleHasPayments` (the composition implements the payment service) carries these to `SaleSpec`;
`SaleTypeCorrect` and `TicketIsPaid` say that a ticket is settled only for money. An announced completion stays announced,
so the ticket's consumer may act on it at any later time.

### Prices: `PricingProofs`

*Promotions.* `TypeCorrect` and `CounterCovered` (`NeverOvercounted`): the counter,
and every copy of it, is compared with the uses that are already counted or given up (`Settled`), of
which there are no more than uses granted. `LimitKept` (`LimitKeptAlone`): while nobody disturbed anybody, `InTurn` says that
at most one request is under way, how far the counter is behind it, and that a request that has passed the check and not
yet sold leaves room for one more.

*Fares.* `DirectWhenPossible` (`NoNeedlessTransfer`) and `ChargedForARide` (`LegsAreARide`) hold for every map and every order in which
routes are listed; `PlanInv` says of each state that its routes serve the stations asked for (`Found`) and that its legs are one
ride or two that meet (`Planned`). `FareTypeCorrect` (`FareTypeOK`) and `FailuresAreFree` (`FailureFavoursPassenger`) are about numbers:
`CountsFavour`, a count is at most 5 or at most the stations ridden, so its tier is no higher; `PriceInv`, a quote is the
`TotalPrice` of the legs it shows; and `TierGrows`, `RoundedGrows`, `LegsPriceGrows`, `TotalGrows`, each factor of a price only grows with the
one before, for any group and any percentages.

### The path search: `RouteSearchProofs`

For every network, query and penalty of at least -1:

* `FoundCheapest` and `NothingMissed`: no ride of any length costs less than the answer, and an empty answer means that
  no ride ends there. `Labels` is the invariant of the loop: each settled key's neighbours are labelled no
  worse than through it, and no label on the heap is below a settled one. A ride is a sequence, and
  induction over its length is replaced by its first position that beats its label.
* `AnswerIsCheapest` (`FoundIsCheapest`) brings that to the reference the run compares with, whose set of ways is a recursive
  function.
* `AnswerIsARide` (`PathIsARide`): `Links`, every `prev` is a settled neighbour and the costs differ by that step; `Trails`, following them
  back from any key one meets the origin, without crossing oneself, after exactly the steps and transfers its cost
  says. A trail has no key twice, so it is no longer than `prev`, and `Path`, which goes back that often, is that trail.

`Back` and `Within` are recursive functions on Nat. What they compute is not proved by induction, which the provers
cannot instantiate; that each is what its definition says at every number is shown by taking a solution up to
each bound and the least number where two of them differ (`BackUnfolds`, `WithinUnfolds`).

### Accounts: `AccountsProofs`

`TypeCorrect`, `AccountHasAProfile` (`AgreeAtRest`) and `CacheHasThePassenger`
(`CacheFollowsProfile`). `Numbered` says that at most one more profile is made than there are
faults, so the ids suffice; `Agreeing` where an account is on its way to its
profile or the profile's deletion to its account; `CacheInv` that each copy under way or cached is the profile's or one about to be cleared.

### Scheduler and gateway: `OperationsProofs`

* `RegistryTypeCorrect` (`RegistryTypeOK`) and `ForcedOverlaps` (`OverlapBounded`). The bound alone is not inductive: a forced
  run clears the flag when it ends, though others go on. `Flagged` counts it: runs are at most those forced, and one more only if the flag
  is set.
* `GatewayTypeCorrect` (`TypeOK`).
* `ErrorsDoNotOpen` (`BreakerNeedsFailure`). `Smooth`: while there was no trouble every service is up, no request was left by
  its client and the breaker is closed, so that only `Answer` is counted. It needs `Addressed`, that a request in progress has a
  service, without which a refused connection could be counted for none.
* `CacheRestored` (`RefreshRestores`). `MissingIsComing`: a key that is missing from the copy is one that some refresh is yet
  to write. `RefreshingOnly`, that only a refresh has a service, tells which.

### Only model-checked

Liveness, which is outside what TLAPS proves (fairness and ENABLED): `PaidIsSettled`, `PaidPassActivates`, `NoLockForEver`,
`ReceivedIsPublished`, `CaptureReachesTicket`, `JobKeepsRunning`, `DownIsNoticed`, `ServiceComesBack`, `SearchEnds` and
`ProfileFollows`. No module uses RECURSIVE.

### What would come next

Components that are only in the table of section 1 (the reasons are in section 14), the hazards without a property in `PROJECT.json`,
and theorems about the composition of tickets and payments beyond `TicketSale`.

## 14. Not modelled

In the ticket lifecycle: `PUT /:id/update`, which hands the request body to
`Ticket.update` (any column, no rule to check); the `qrCode`, `paymentId` and promotion columns;
`Ticket.createFromBooking` and `TicketRepository.activateLongTermTicket`, which have no caller;
`processPaymentReadyEvent`, which changes no modelled column; what an abuse lock measures
(`TrackAbuse` leaves open how close two scans were, but needs two entries in the list). A free pass
is born with `activatedAt` null, so the activation job never finds it, and only its passenger
can activate it (TicketService.js:822); `expireTickets` has no caller (TicketService.js:1195).
The idempotency wrapper around purchase and activation is a module of its own and left out of
the lifecycle: it may refuse a request, and the lifecycle lets requests be refused by never being made.

In the webhook service: what payloads say and how they are validated, statistics, the rate limiter,
and the publishers without a caller (`publishEvents`, `publishPaymentCompleted` and its siblings).

In the payment service: `handleTicketCancelled`, which writes statuses the column does not have and always
throws; VNPay and the PayPal order route, which insert a row without its key; its own
webhook routes, older copies of the webhook service's.

In ticket-service: pass prices (a table lookup) and the CRUD of fares, promotions, passes and discounts; a
promotion's `userUsageLimit`, which nothing enforces; QR rotation.

In auth-service and user-service: `POST createPassenger` (passenger.controller.js:475-534), with which a signed-in user makes a
profile outside `user.created`, and `POST sync-passenger` (657-702), which publishes a copy outside the
events and the update route; the administrator's creation of a profile; tokens, verification and password reset; profiles of staff and
administrators, which are made and deleted in the same way and not cached. Failed logins: the counter
(user.model.js:126-149; five attempts, two hours) is written from the copy the login read, so that concurrent
attempts count once; a module of two actions would show only that.

In transport-service: the direct answer of `findRoutesBetweenTwoStations` and the CRUD of stations,
routes, trains, trips and stops. `setupCompleteRoute` removes a route's stations and then
always fails, since its rows have no `routeStationId`; `reorderRouteStations` validates after it
has written.

In the api-gateway: API keys, validated from a cache of 24 hours that revoking and deleting do not touch; the rate
limiter, whose `incr` and `expire` are two calls; the management of services and instances (section 12).

Not at all: public-service (a mirror refreshed on a timer that nothing of the core reads back),
notification-service (templates and providers), report-, control- and management-service, deployment. They are
listed in `PROJECT.json` with the reason. Most lines of the repository are of this kind, or are
API descriptions, seeds, controllers and routes that hand a request to a service and its answer back:
they keep no state of their own, and no definition stands for them.
