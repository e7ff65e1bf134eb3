# Verification of the reliable messaging system

TLA+ models of the two services in this repository, the TLC runs that check
them on small instances, and theorems about them that TLAPS checks for every
value of the constants.

    cd tla
    tlc -workers 2 -config MCReliableMessaging_faults.cfg MCReliableMessaging
    tlapm ReliableMessagingProofs.tla

The table of runs below names the module and the property of every `.cfg`.
`PROJECT.json` maps each definition to the lines it models, and gives for each
property a mutant of the model (a definition marked "faulty" in the modules)
that the property notices.

## 1. The system

A client stores a message through the sender's HTTP API. The sender's scheduler
publishes stored messages to RabbitMQ. The processor takes them from there and
sends them to a webhook endpoint.

    client -> HTTP API -> MongoDB <- sender's scheduler -> main queue -> processor -> webhook
                             ^                                 ^   |        |  |
                             |                           10 s  |   v        |  v
                             +---- status, retry_count ------ retry queue <-+  Redis (inbox)
                                   (processor, monitor)      dead letter queue <-+

| Component | State it keeps | Operations |
|---|---|---|
| sender: API (`message_handler.go`) | none | create a message, start and stop the scheduler, list the messages |
| sender: `senderService` | `isRunning`, `done` | CreateMessage, processUnsentMessages, handleMessage |
| sender: `MessageScheduler` | `isRunning`, `done`, the ticker | Start, Stop, run |
| sender: `main` | none | wait for a signal, stop the scheduler, close the connections |
| processor: consumer | the delivery it handles | Start, processMessage, handleWebhookError, handleMaxRetriesReached, handleStaleMessage, handleMalformedMessage, handleInvalidID, handleDuplicateMessage, handleSuccessfulProcessing |
| processor: monitor | the list it fetched | checkStaleMessages, handleStaleMessageRecovery |
| message repository (MongoDB) | documents: status, retry_count, updated_at | CreateMessage, UpdateStatus, IncrementRetryCount, GetByID, FindUnsentMessages, FindStaleProcessingMessages |
| message queue (RabbitMQ) | main, retry and dead letter queue, one channel per service | PublishMessage, MoveToRetryQueue, MoveToDeadLetter, ConsumeMessages, Ack, Nack |
| idempotency service (Redis) | `inbox:<id>`, `webhook:msg:<id>`, 24 h each | IsProcessed, MarkAsProcessed, StoreWebhookMessageID |
| webhook client | breaker, rate limiter | SendMessage |
| circuit breakers (MongoDB, Redis, webhook) | counts, state and generation of three gobreakers | Execute |
| rate limiters | token buckets (webhook; API middleware) | Wait, Allow |
| health endpoints | none; the probe of Redis is a lookup in the inbox | readiness, liveness |
| configuration, Swagger, mocks | none of interest | |

How they interact. The two services share no memory: they meet at the MongoDB
document and in the main queue. Inside the sender the HTTP handlers, `main` and
the goroutines of `run` share `isRunning` and the unbuffered channel `done`,
without a lock. Inside the processor the consumer and the monitor are two
goroutines that share one RabbitMQ channel, the documents and the breaker in
front of MongoDB; the breaker in front of Redis is shared with the health probes.

What is hard:

- nothing is transactional: publishing and updating the status are two calls
  (sender), and so are delivering, marking the inbox and updating the status, or
  dead-lettering and updating the status (processor). A crash, an error or
  another actor comes in between;
- status updates filter on the id alone, so the last writer wins, whatever it
  knew;
- the processor acknowledges a delivery before it does anything with it, so only
  the stale-message monitor can find a message whose copy was given up. A `Nack`
  after that makes the broker close the channel;
- every update renews `updated_at`, which decides whether a message is stale;
- publications are not confirmed, and retry entries and dead letters are transient;
- start and stop of the scheduler race with each other and with the shutdown;
- each call the open breaker refuses counts as an attempt, and the breaker's
  interval (10 s) is shorter than the default time limit of a call (30 s);
- calls that began in one state of a breaker end in another.

What makes each part correct:

- *outbox*: a message is published again only because of a fault or of a second
  scheduler, and the number of copies stays bounded by these;
- *inbox*: copies never cause a second delivery, only faults do;
- *retries*: the attempts counted never exceed `MAX_RETRIES`, however many copies
  there are;
- *records*: inbox, webhook id and the statuses `sent` and `duplicate` are there
  only for delivered messages; `failed` only for dead-lettered ones (as long as
  the processor has its channel);
- *dead letters*: consumer and monitor give messages up without asking whether that was
  done, yet a message's dead letters stay bounded by its attempts and publications;
- *progress*: every stored message reaches a terminal status for good;
- *scheduler*: the flag and the pending stops agree with the runners there are;
- *process*: told to end, the sender ends, and nothing publishes on the connections
  it has closed; what a client was told is accepted is stored;
- *breakers*: every call counts once, in its own generation; half-open is never
  stuck; after the store has recovered the breaker closes;
- *outage*: a message with enough attempts left when the endpoint recovers is
  delivered.

## 2. The modules

| Module | Models | In the code |
|---|---|---|
| `Contracts` | bodies, statuses, the budget of faults, `Write` (a remote write that may fail) | `models/message.go`, `contracts/` |
| `MessageRepository` | `status`, `retryCount`, `stale` | `message_repository_adapter.go` |
| `MessageQueue` | `mainQ`, `retryQ`, `dlq`, `unacked`, `channel` | `message_queue_adapter.go` |
| `IdempotencyService` | `inbox`, `webhookIDs` | `idempotency_service_adapter.go` |
| `WebhookClient` | `delivered` | `http_client.go` |
| `ProcessorService` | consumer (`pc`, `cur`), monitor (`found`, `failing`) | `processor_service.go`, `processor.go` |
| `SenderService` | per runner `rpc`, `batch`, `rcur` | `sender_service.go` |
| `ReliableMessaging` | the composition: Sender, Processor, Environment | |
| `DeliveryLedger` | abstract: `accepted`, `delivered`, `known`, `confirmed` | what the system promises |
| `MCReliableMessaging` | symmetry for TLC | |
| `MessageScheduler` | `isRunning`, `call`, `runner` | `sender_service.go` (MessageScheduler) |
| `SenderProcess` | `main`, the clients' `request`, `documents`, `accepted`, on top of the scheduler | `cmd/main.go`, `message_handler.go` of the sender |
| `OperatedSystem` | the composition with `MessageScheduler` in the place of runners that come and go at will: `isRunning`, `call` | `sender_service.go`, both parts together |
| `Breaker` | what a gobreaker computes with the adapters' settings | the `gobreaker.Settings` of the three adapters |
| `CircuitBreaker` | goroutines that share a breaker | `message_repository_adapter.go`, `idempotency_service_adapter.go`, `health_service.go` |
| `WebhookOutage` | consumer, breaker and retry queue against the clock | `http_client.go`, `processor_service.go` |
| `ReliableMessagingProofs`, `DeliveryLedgerProofs`, `PublicationProofs`, `MessageSchedulerProofs`, `SenderProcessProofs`, `OperatedSystemProofs`, `CircuitBreakerProofs`, `WebhookOutageProofs` | theorems and proofs | |

How they are put together:

    Contracts <- MessageRepository, MessageQueue, IdempotencyService, WebhookClient   (the stores)
              <- SenderService, ProcessorService <- ReliableMessaging  -implements->  DeliveryLedger
    MessageScheduler <- SenderProcess                       (who starts and stops the runners)
    ReliableMessaging, MessageScheduler <- OperatedSystem   -implements->  ReliableMessaging
    Breaker <- CircuitBreaker, WebhookOutage                (what is inside "the call failed")

The four stores are modules of state and operations; an operation is an action
formula that the services conjoin with their own control. `ProcessorService` and
`SenderService` extend the stores they call, `ReliableMessaging` extends both and
adds what the stores do by themselves.

`DeliveryLedger` knows nothing of queues, schedulers, retries or processes: a
message is taken by the endpoint only after it was accepted and not again while its
delivery is known, and it is confirmed only once delivered; every exception is a
fault, and faults are counted. The refinement mapping (`ReliableMessaging!Ledger`)
takes as known what is in the inbox or what the consumer is about to put there, and
as confirmed what has the status `sent` or `duplicate`. The whole system, with every
crash and restart, implements it.

`OperatedSystem` is `ReliableMessaging` under its API. It conjoins `StartScheduler`
of `SenderService`, by which a goroutine of `run` appears, with the last statement of
a Start, and `StopScheduler`, by which one returns, with the rendezvous of a Stop.
`MessageScheduler` is instantiated with a `runner` that is computed from `rpc`: a
goroutine anywhere between two ticks is at "work". A crash of the sender takes the
flag and the calls in progress along with the runners; `overlapped`, the history of
the calls, is kept, so that what is said of calls that do not overlap spans crashes.

**Grain.** One step is one call to MongoDB, Redis, RabbitMQ or the webhook, with
the local code up to the next call. That is the finest interleaving two
processes can observe. `pc` of the consumer is the name of its next call, and
`rpc` the same for a runner of the sender. In `MessageScheduler` a step is one
access to `isRunning` or one rendezvous on `done`; a Start sets the flag and starts
its goroutine in one step, because a goroutine that is yet to be started is, to
everybody else, one that is slow to reach its select. In `CircuitBreaker` a step is one
of the two moments a call holds the breaker's mutex. `WebhookOutage` counts time in
ticks of five seconds, half of the breaker's interval and of the retry delay, so that
retries and the breaker's periods need not begin together.

**Calls and errors.** An operation with continuations (`PublishMessage(b, OnOk,
OnErr)`, `Write(Effect, NoEffect, OnOk, OnErr)`, `SendMessage(m, OnID, OnNoID,
OnErr)`) says what the call does to the store and, for each answer, what the
caller does next: the code's `if err != nil`. A failing write may or may not have
had its effect, since the reply may be what was lost.

**Faults.** A fault is a step that spends one of `MaxFaults`. `Faults` names the
kinds a run allows: `lookup` (a read returns an error), `write` (a write returns
an error), `broker` (a connection is lost), `webhook` (the endpoint takes a
message and its answer is lost), `crash` (a service dies and is started again),
`restart` (RabbitMQ or Redis is restarted),
`ttl` (a Redis key expires), `drop` (`make seed` drops the collection), `foreign`
(somebody else publishes an unusable body). A refused or unreachable webhook is
*not* a fault: it may happen at every attempt. A restarted RabbitMQ has lost every
retry entry and dead letter (published without `DeliveryMode`, hence transient, in
queues that are durable), any persistent entry it had not written to disk, and every
channel. A restarted Redis comes back with an older snapshot.

**Abstractions.**

- A queue is a bag. RabbitMQ's order is lost anyway between two publishers, the
  retry queue and redeliveries. A body is its message's id: the processor reads
  nothing else of it. A body that is not JSON and one whose id is no ObjectID are
  members of `Malformed` and `InvalidIDs`.
- `updated_at` is one bit: `stale` holds the messages whose last update is more
  than four minutes old. Both places that look at the time (`ShouldProcessMessage`
  and the monitor's query) use four minutes, and any time may pass between
  two steps.
- A channel is open, lost (the broker has dropped it, the client does not know
  yet) or closed. Publishing on a lost channel returns nil and reaches nobody; on
  a closed one it is an error. Nothing in the code opens a new one before the
  service starts again. On a lost channel the consumer may still take deliveries
  its client had buffered: `TakeDelivery` lets it take any entry, and the broker
  keeps that entry (`unacked`) for the next processor.
- When the channel is closed the code's loop spins on empty deliveries: the
  acknowledgement and the publication of the dead letter fail, nothing else
  changes, so the loop is a stutter.
- A query of the sender or the monitor that fails changes nothing and is no step.
  `CreateMessage` that fails is no step, or it is a creation whose client saw an
  error.
- `GetByID` of a document that is gone gives nil, the nil is dereferenced, and
  the process ends (`Die`), which no fault pays for. Only `drop` removes documents.
- The processor's `Start`, `Stop` and `main` are `ProcessorCrash` and
  `ProcessorRestart`: `main` waits for neither goroutine, so a shutdown is a crash
  with a farewell. The sender's shutdown calls `Stop` on the scheduler
  (`MessageScheduler`) and otherwise is a crash between two calls.
- `SenderService` lets any number of `Runners` run, without the flag: how many
  really do is `MessageScheduler`'s question, and its answer (overlapping calls
  give two runners) is the reason to have more than one here. `OperatedSystem` has
  both, and so the flag.
- `overlapped` is history, not state of the code: "start" and "stop" once two such
  calls stood between their check and their write at once, "cross" once a Start took
  effect while a Stop had cleared the flag and was waiting for the runner.
- A racing read of `isRunning` gives the old or the new value, that is, it comes
  before or after the write.
- In the composed system an open breaker is a call that fails without effect. What
  opens and closes it is the subject of `CircuitBreaker`, where of a generation's
  number only this is kept: does a call in flight belong to the present one?
- In `WebhookOutage` (`RetryDelay` 2 ticks, `Interval` 2, `OpenTime` 6)
  everything but the endpoint works, and only a call that hangs takes time. The time
  limit of a call is the constant `CallTime`, 6 ticks by default (`config.go:49`,
  `docker-compose.yml`) and 1 according to README:152; a limit of less than a tick, and
  0, with which `http.Client` has none, are left out. A call that hangs ends with an
  answer, at the time limit, or, if the endpoint is one that refuses, with its
  connection at any moment. The age of a message is left out: `NoneGetsStale` bounds
  the number of messages so that none waits `StaleTime` (48 ticks) behind the others,
  seven with a limit of 30 s and 45 with one of 5 s.
- In `CircuitBreaker` a call may fail if the store was not well at some moment of it,
  also when it ends after the store has recovered (`spoiled`).
- In `SenderProcess` a request that is refused (400 for its content, 429 by the rate
  limiter) calls nothing and is no step. A client posts its message until it is
  accepted, `MaxPosts` times at most.

## 3. The runs

| Run (`<module>_<run>.cfg`) | Instance | Checks | Shows |
|---|---|---|---|
| `faults` (`MCReliableMessaging`) | 1 message, 2 runners, `MaxRetries` 2, eight kinds of fault, 2 faults (2.1 million states) | `TypeOK`, `RetryBounded`, `DeliveriesPaidByFaults`, `RemembersOnlyDelivered`, `CopiesBounded`, `NeverResentWhileRemembered`, `LedgerSpec`, `SettledStays` | retry limit, inbox, records and copies hold, the ledger is implemented, and only a fault touches a settled message, with two faults at any two steps |
| `outbox` (`MCReliableMessaging`) | 2 messages in one batch, 1 runner, `MaxRetries` 1, an unusable body of each kind, 2 of `write`, `crash`, `foreign` (2.3 million states) | `PublishedOnce`, `CopiesBounded`, `DeadLettersBounded`, `FailedMeansDeadLettered`, `ConfirmedIsRemembered`, `ConsumerKeepsDeliveries` | what is published again, and why; nothing fails without a dead letter, and how many of them there can be; the consumer does not undo a confirmed delivery for a late copy |
| `operated` (`OperatedSystem`) | 1 message, 2 runners, 1 caller of Start, 1 of Stop, `MaxRetries` 2, 1 of `write`, `webhook`, `crash` (470 thousand states) | `CopiesByTurns`, `PublishedByTurns`, `Settles` | as long as calls do not overlap, stops, starts and crashes publish nothing twice; every stored message ends, for good, in a terminal status while the scheduler says that it runs |
| `process` (`SenderProcess`) | 2 callers of Start, 1 of Stop besides `main`, 3 runners, 1 client with 2 posts (265 thousand states) | `ProcessTypeOK`, `EnoughRunners`, `NoStrayRunner`, `OneRunner`, `ShutdownStops`, `AcceptedIsStored`, `StopReturns`, `ShutdownExits` | start, stop, creation and shutdown at any moment: no runner missing or left over, two at a time only after an overlap, the process ends, what was accepted is stored |
| `breaker` (`CircuitBreaker`) | 4 callers, 3 half-open requests, 6 calls in an interval (12 thousand states) | `CountsAgree`, `HalfOpenNotWedged`, `Recovers` | every call counts once, half-open is never stuck, the breaker closes after a recovery |
| `outage` (`WebhookOutage`) | 3 messages, `MaxRetries` 5, `CallTime` 1 (the documented 5 s), an endpoint that is up, refuses, hangs or breaks connections as it likes (610 thousand states) | `TypeOK`, `RefusalsPerOpening`, `OneCallPerWindow`, `OutageSurvived`, `OutageSpares` | what an outage costs a message, whose calls the breaker counts, which message survives |
| `republish`, `late_status`, `nack`, `no_dlq` (`MCReliableMessaging`), `overlap` (`MessageScheduler`), `hanging` (`WebhookOutage`) | the smallest that shows it | one documented claim each | section 4 |

**Why the bounds are enough.** The processor has one consumer and one monitor
whatever the load, and all of its decisions are about one message at a time, so
messages interact only in a batch of the sender, in the monitor's list, and through the
shared channel. One message with two runners has up to six copies at a time in
`faults`, so that every interleaving of copies of the same message is there. Two
messages in one batch are there in `outbox`. `MaxRetries` 2 separates the first attempt (retry
later), the last (give up) and a copy that arrives after the last. Two faults
allow a fault and a second one while the first is being dealt with. Every
round of overlapping Starts can leave one more runner behind, so their number has no
bound in the code: `Runners` bounds it (a Start waits when no runner is free), three
let one round of leftovers meet the next, and the theorems about runners hold for any
number. In `operated` one caller of each kind is enough for a Start to overtake a Stop
that waits, hence for two runners; two overlapping Starts are in `process`, and the
theorems about `OperatedSystem` hold for any number of calls. Two posts let one fail and the next be accepted. In `process` two overlapping
Stops may wait for ever (hazard at `sender_service.go:90`), but `main` still takes its
signal, so there is no deadlock; all runs check for it. The four callers of
`breaker` are the three a half-open breaker lets through and one that it refuses;
`MaxWindow` 6 lets the failure ratio be crossed with and without successes. Three
messages that fail at once are what it takes to open the breaker in `outage` (a
retry comes after the interval has passed), and `MaxRetries` 5, the default, is what
`OutageSurvived` and `OutageSpares` are about: three refusals, or a hung call and two of
them, then the call that gets through, and an attempt used up before. With `CallsNeeded`
one smaller TLC finds `OutageSpares` violated in this instance. `CallTime` 1 is the
limit at which a call that is given up may still be counted by a closed breaker; from 2
on it never is. The instance passes with 6 as well, in twice the time.

**Fairness.** `ReliableMessaging!Fairness`: weak
fairness for the consumer, the monitor and each runner: Go's scheduler runs every
runnable goroutine, and the tickers fire for ever. Weak fairness for the passing
of four minutes, the expiry of the retry queue's TTL and the noticing of a lost
channel: time and the client library. No fairness for
creating messages, starting or stopping the scheduler, restarting a dead service,
for faults, or for a good answer of the webhook. `OperatedSystem!OperatedFairSpec` is
the same with the calls of the API, none of which has to be made. The premise of
`Settles` is not that some goroutine runs, but what the code says of it: from some
point on `isRunning` is set (and no two Stops have overlapped, after which the flag
can be wrong) for as long as the message is unsent, and the processor is up. Then it
says that the flag has a goroutine behind it, through crashes and restarts of the
scheduler, and that this is enough. `SenderProcess!ProcessFairSpec`: weak fairness for the statements of
`main`, of a Stop and of a runner's batch, strong fairness for the
rendezvous of a Stop with a runner: the runner is in its select again and again,
the sender on `done` is ready each time, the ticker only every two minutes. No
fairness for requests or for the signal. `CircuitBreaker!FairSpec`: time passes, and a
call in flight ends, since every store has a time limit; nobody has to call, and
`Recovers` has calls as its premise. `WebhookOutage!FairSpec`: the consumer, the
clock and the expiry of the retry delay; the endpoint changes as it likes.

## 4. What the code does and the documents do not say

| Run | Says | What happens |
|---|---|---|
| `republish` | README:57 "published exactly once" | publish succeeds, the update to `processing` fails, the next tick publishes again |
| `late_status` | README:193 "Message status updated based on delivery result" | the consumer delivers and marks `sent` before the sender's update, which turns it back into `processing`; later the monitor dead-letters a delivered message |
| `nack` | README:198 "Stale messages detected and recovered" | one failed lookup, `Nack` after `Ack`, the broker closes the channel: the monitor can dead-letter nothing any more |
| `no_dlq` | README:197 "Messages exceeding retry limit moved to DLQ" | the connection is lost, the error of the publication is ignored: `failed` and in no queue |
| `overlap` | `message_handler.go:125` "Stop the message processing scheduler" | two overlapping Starts start two runners, Stop ends one |
| `hanging` | README:199 "Circuit breaker prevents cascade failures", `http_client_test.go:101-117`: open after five failures | with the default limit a call to an endpoint that does not answer fails after 30 s; by then the breaker's interval of 10 s has passed and the failure, of an old generation, is dropped. Every message uses up its attempts of 30 s each and the breaker never opens |

`late_status` and `hanging` need no fault at all.

The documents do not agree on the time limit of a call: README:152 has
`WEBHOOK_TIMEOUT=5s`, a variable that nothing reads, and the client's tests use five
seconds, with a server that answers at once; `config.go:49` reads
`WEBHOOK_TIMEOUT_SECONDS`, 30 unless it is set, and `docker-compose.yml:79` sets 30. With
five seconds one time-out in an interval is counted, but a second one ends only when the
interval does, and the breaker needs two failures at least: it does not open either
(`HangingNeverOpens`). It can open once the endpoint also refuses calls or breaks connections.

Seen while modelling, and not checked by a run: `CreateMessage`
(`sender_service.go:46`) returns `msg.ID`, which nothing sets before the driver's
insertion; README:196 speaks of "exponential backoff", the retry delay is a fixed
10 s; the monitor can dead-letter and fail a message whose copy is still
on its way, which renews its age, and the consumer then sends it; and with four or
more messages one can be given up with most of its attempts refused, when the calls
of the others open the breaker again each time it is half-open.

## 5. The proofs

The theorems hold for any number of messages, bodies, runners, callers and faults; those
about `WebhookOutage` for as many messages as `NoneGetsStale` allows.
They assume what the modules name: `ContractsAssumption` (bodies of
the three kinds differ, `None` is none of them, `MaxRetries` and `MaxFaults` are
natural numbers), `SenderAssumption` (`BatchSize` at least 1, finitely many
`Runners`), `SchedulerAssumption`, `ProcessAssumption`, `BreakerAssumption`,
`CallersAssumption`, `OutageAssumption` (a time limit of at least a tick, finitely many
messages), `NoneGetsStale`, `OperatedAssumption`.

`ReliableMessagingProofs`

| Theorem | States | Inductive invariant |
|---|---|---|
| `TypeCorrect` | `Spec => []TypeOK` | `TypeOK` itself: it ties `pc` to what `cur` may be, without which no operation of a store is typed |
| `RetryLimitHolds` | `[]RetryBounded` | `RetryInv`: at `send` and `increment` the count is strictly below the limit. Only the consumer increments, and it does so only after `ShouldProcessMessage` saw the count below; the bound alone is not inductive at `increment` |
| `DeliveriesBounded` | `[]DeliveriesPaidByFaults` | `DeliveryInv`: a message not in the inbox that the consumer is not about to mark was delivered at most `faults` times. It carries "already delivered" from the call of the webhook over `storeID` and `mark` into the inbox, and pays for every way out of this path (failing write, lost answer, expired key, restart, crash) with the fault it takes. At `getByID` and `send` the consumer's message is not in the inbox, or a second delivery would be unpaid |
| `RememberedIsNotResent` | `NeverResentWhileRemembered` | `DeliveryInv` again, its second part: only the consumer marks, and there is one consumer |
| `RecordsAreTrue` | `[]RemembersOnlyDelivered` | `RememberInv`: at `storeID`, `mark`, `sent` and `duplicate` the consumer's message was delivered |
| `ConfirmedInInbox` | `[]ConfirmedIsRemembered` | `InboxInv`: without `restart` and `ttl` faults the inbox has every message whose status says that it was delivered, and the consumer's message at the two calls that write these statuses |
| `DeliveriesKept` | `ConsumerKeepsDeliveries` | `InboxInv` again, with what the inbox excludes: past `CheckInbox` and until the webhook has answered, the consumer's message is not in the inbox, hence not confirmed, and so every write of these steps is about another message |
| `SettledIsForGood` | `SettledStays` | `TypeOK`: the steps of the model that have no message in their hands have none to change |
| `FailedIsDeadLettered` | `[]FailedMeansDeadLettered` | `DeadLetterInv`: without `broker`, `lookup` and `restart` faults the processor's channel is open, and whoever is about to write `failed` has put the dead letter there |

`PublicationProofs`

| Theorem | States | Inductive invariant |
|---|---|---|
| `CopiesOfActive` | for every K: `[]`(at most K runners at a time) implies `[]`(a message has at most K copies, and K more per fault) | `BusyInv`: a runner between two batches has nothing in its hands, so who has a part in a message is active. `CopiesInv(K)`: the copies of a message and the runners that hold it unsent are together at most K, times one more than the faults that can have made copies. A publication turns a holder into a copy; only a fault puts an unsent message back within reach. The fault that took the processor's channel pays for the delivery in its hand, which may come again |
| `CopiesStayBounded` | `[]CopiesBounded` | the same with K the number of runners |
| `DeadLettersOfActive` | for every K: `[]`(at most K runners at a time) implies, unless the collection is dropped, `[]`(the dead letters of a message exceed its counted attempts by at most 2K, and by 2K more per fault) | `DeadInv(K)`: what can still make a dead letter of a message is a burden it carries: a copy whose handling has not made its own, the consumer about to set `processing`, and that status until the monitor has made the dead letter it stands for. Dead letters and burdens, with two for each runner that holds the message and one for each about to set its status, stay below the bound. A counted attempt pays for the status set after it; a lost status update, and a monitor that dies between its dead letter and the status, are paid by the fault. `CopiesInv(K)` says that an unsent message is held anew only when there is room |
| `DeadLettersStayBounded` | `[]DeadLettersBounded` | the same with K the number of runners |
| `PublishedOnceByTurns` | `[]OneAtATime` implies that without a fault a publication is the first of its message | `FreshInv`: a message that is absent or unsent has left no trace in any queue, count or list, unless a runner is about to update its status; and what a runner holds is unsent, because a message that could have left `unsent` is one it has handled already. The step needs `BusyInv`: a runner that starts has no old batch |
| `PublishedOnceHolds` | `PublishedOnce` | the same for a single runner |

The bound on dead letters is met without any fault: a message whose copy waits for four
minutes after its publication gets one from the monitor and one from the consumer. A message whose collection was dropped has no
status, and a processor that dies of it may die at any step without a fault of its own,
which is why `drop` is excluded.

The premises `[]OneAtATime` and "at most K" are not assumptions about the code: they are
what `OperatedSystemProofs` establishes, and under which calls.

`OperatedSystemProofs` puts them together, for any number of calls, starts, stops and
crashes:

| Theorem | States | By |
|---|---|---|
| `SystemIsImplemented` | `OperatedSpec => Spec`: all theorems about `ReliableMessaging` hold of the system under its API | each step of `OperatedNext` is a step of `Next`, or one access to the flag, which is a stutter there |
| `OneRunnerByTurns` | `[](ByTurns => OneAtATime)` | `TurnsInv`: until two Starts overlap, the runners are at most those the flag and the waiting Stops account for, and a Start past its check finds the flag clear, alone. So a Start that takes effect while no Stop waits finds no runner. The count alone is not inductive there: without the two other parts a Start could set a flag that is set |
| `PublishedByTurnsHolds` | `PublishedByTurns` | `ByTurns => FreshInv`; `ByTurns` is never regained (`OverlapsAreKept`), so what holds of one runner at a time holds up to the first overlap |
| `CopiesByTurnsHolds` | `[]CopiesByTurns` | `ByTurns => CopiesInv(1)`, likewise |
| `FlagIsTrue` | `[]FlagHasRunner`: `EnoughRunners` of `MessageScheduler`, of the goroutines of the whole system | `EnoughInv`, the other side of the account: until two Stops overlap there are at least as many runners, and a Stop past its check finds the flag set, alone. A crash takes both sides at once. So the premise of `Settles` on the flag says that a runner is there |
| `DeadLettersByTurns` | until calls overlap, and unless the collection is dropped, a message's dead letters exceed its counted attempts by two at most, and by two more per fault | `ByTurns => DeadInv(1)`, likewise |

`DeliveryLedgerProofs`: `LedgerImplemented`, `Spec => LedgerSpec`. Initial states map
to initial states and every step to a ledger step or a stutter: the webhook's answer
is `Deliver`, the writes of `sent` and `duplicate` are `Confirm`, the writes of other
statuses `Withdraw`, and each fault is `Fail`. It needs `TypeOK`, `DeliveryInv` and
`RememberInv`. `LedgerPromises` says what that is worth: from `LedgerSpec` alone, by
`LedgerInv` (a message was delivered at most as often as there were faults, and once
more if that is known), the endpoint takes only accepted messages, once and once more
per fault, and no confirmation is untrue. Any other system with this ledger keeps
these promises.

`MessageSchedulerProofs` (finite sets, no goroutine
is both a starter and a stopper): `TypeCorrect`, `NoRunnerIsMissing`
(`EnoughRunners`, from `EnoughInv`: a Stop between its check and its clearing of the
flag, still alone, finds the flag set), `NoRunnerIsLeftOver` (`NoStrayRunner`, from
`StrayInv`: a Start between its check and its write, still alone, finds the flag
clear), `OneRunnerAtATime` (`OneRunner`, from `OneInv` with `StrayInv`) and
`StoppedUnlessOverlapped`, which delimits the finding of run `overlap`: until two
Starts overlap, "stopped" means that nothing publishes. All count with cardinalities
of finite sets.

`SenderProcessProofs`: `SchedulerIsImplemented` (the process implements
`MessageScheduler`, so that its theorems carry over: `ProcessMissesNoRunner`,
`ProcessLeavesNoRunner`, `ProcessHasOneRunner`), `ProcessTypeCorrect`, `ShutdownIsClean`
(`ShutdownStops`: once `main` is past Stop the flag is clear and stays so as long as no
Start comes late, and `NoStrayRunner` does the rest) and `AcceptedMessagesAreStored`.

`CircuitBreakerProofs`: `TypeCorrect`, `EveryCallIsCounted` (`CountsAgree`, by counting
the calls in flight) and `HalfOpenGoesOn` (`HalfOpenNotWedged`: a half-open breaker has
no failure and fewer successes than requests it admits, or it would have changed
its state; the rest of its requests is in flight).

`WebhookOutageProofs`: `TypeCorrect`; `OpeningCostsThree` (`RefusalsPerOpening`: the
refusals of a message since the present opening are at most the ticks that have
passed over the retry delay, since each puts the message aside for that long);
`EachMessageOncePerWindow` (`OneCallPerWindow`, from `WindowInv`: the requests a closed
breaker has counted are at most the messages that are settled, in the call, or aside
since the interval began); and `EnoughAttemptsSuffice` (`OutageSpares`, the safety half of
`OutageSurvived`, by `Spared`: an open breaker refuses a message once for every two ticks
that are left of its timeout and of the message's wait, and what the message has left
covers them; `RefusalsInv` says that nothing else refuses, `PlaceInv` that a hung call is
about a message nobody else moves). It does not matter whose call hangs when the endpoint
recovers: the message of that call loses the attempt, but is put aside at the moment the
breaker opens and misses a refusal for it. Two more theorems say when it does not open at all:
with fewer than three messages, whatever the endpoint does (`TwoMessagesNeverOpen`), and
with an endpoint that neither refuses nor breaks a connection, however many calls hang
(`HangingNeverOpens`: the finding of run `hanging`, for every time limit of five seconds
or more). The latter is `HangInv`: a time-out that is counted finds the interval one tick
old at least, so a call after it ends with the interval or later, and no interval counts
two; what one failure makes of three requests is below the 60 % it takes.

That `WebhookOutage` implements `CircuitBreaker` is not stated: an answered call is one
step there and two in `CircuitBreaker`, so a mapping would have to split it.

Each proof has the shape: initial states satisfy the invariant; every action of
`Next` keeps it, one step per action; the invariant implies the property; PTL puts
them together.

Only model-checked: the liveness properties (`Settles`, `StopReturns`, `ShutdownExits`,
`Recovers`, `OutageSurvived`): TLAPS here proves neither liveness under fairness nor
facts about ENABLED. For each of them a theorem says that the wait it is about can end:
`FlagIsTrue` (`Settles`: the flag of its premise has a runner behind it),
`EnoughRunners` (`StopReturns`, `ShutdownExits`: a Stop that waits has a runner to end),
`HalfOpenNotWedged` (`Recovers`: a call in flight will decide) and `OutageSpares`
(`OutageSurvived`: the message is not given up before). Every safety property of a passing
run, invariant or action property, is a theorem.

## 6. Not modelled

- The rate limiters. A request refused with 429 reaches no handler. The limiter of the
  webhook client only delays a call, for `Wait` is given a context that never ends; the
  token bucket itself is a library's.
- Validation and status codes of the HTTP API: a refused request calls nothing.
  `ListMessages` only reads.
- Health endpoints but for their probe of Redis, which is a caller in `CircuitBreaker`:
  they only read.
- Reading the configuration (its values are CONSTANTS), the generated
  Swagger code, mocks.
- `Save` and `FindByID` of the repository have no caller.
- The age of messages in `WebhookOutage` (see above): with many messages behind a
  hanging endpoint, the single consumer takes up to 30 s for each and those at the end become
  stale, which the composed system covers without the clock (`stale`).
- The handler's time limit of five seconds is an error of the insertion that may hide
  a stored document; no other duration of the sender matters to what is checked.

## 7. State of the plan

Done: the services and stores with their faults, restarts included; the ledger and the
proof that the system implements it; the sender as a process; the system under its API;
the breakers, shared and in an outage; the theorems of section 5, among them every
safety property that a passing run checks.

Left, in the order of what it would add:

1. The shutdown of the sender in `OperatedSystem`, where it is a crash now: `main`'s Stop
   and the closed channel of the sender, as in `SenderProcess`.
2. The order of deliveries in the main queue, for how long a message can wait behind
   others while the endpoint hangs.
3. More than one instance of the processor: the code has no lease for a message, and
   the inbox alone would not keep two consumers from delivering the same one.
