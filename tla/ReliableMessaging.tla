------------------------- MODULE ReliableMessaging -------------------------
(***************************************************************************)
(* The whole system: the sender and the processor around one MongoDB       *)
(* collection, one RabbitMQ, one Redis and one webhook endpoint, with the  *)
(* time that passes and the faults that happen around them.                *)
(***************************************************************************)
EXTENDS ProcessorService, SenderService

vars == <<repoVars, queues, channel, redisVars, delivered, faults,
          consumerVars, monitorVars, senderVars>>

TypeOK ==
  /\ RepoTypeOK /\ QueueTypeOK /\ RedisTypeOK /\ WebhookTypeOK
  /\ ProcessorTypeOK /\ SenderTypeOK
  /\ faults \in 0..MaxFaults

Init ==
  /\ RepoInit /\ QueueInit /\ RedisInit /\ WebhookInit
  /\ ProcessorInit /\ SenderInit
  /\ faults = 0

-----------------------------------------------------------------------------
Sender == SenderStep /\ UNCHANGED <<redisVars, delivered, consumerVars, monitorVars>>

Processor == ProcessorStep /\ UNCHANGED senderVars

\* What the stores do on their own, and what other programs do to them.
MongoDB ==
  /\ \/ \E m \in Messages : TimePasses(m) /\ NoFault
     \/ DropCollection /\ Fault("drop")
  /\ UNCHANGED <<queues, channel, redisVars>>

RabbitMQ ==
  /\ \/ \E b \in Bodies : RetryExpires(b) /\ NoFault
     \/ \E b \in Bodies : ForeignPublish(b) /\ Fault("foreign")
     \/ \E s \in Services : ConnectionLost(s) /\ Fault("broker")
     \/ \E s \in Services : ChannelCloses(s) /\ NoFault
     \/ BrokerRestarts /\ Fault("restart")
  /\ UNCHANGED <<repoVars, redisVars>>

Redis ==
  /\ \/ KeyExpires /\ Fault("ttl")
     \/ RedisRestarts /\ Fault("restart")
  /\ UNCHANGED <<repoVars, queues, channel>>

Environment ==
  /\ MongoDB \/ RabbitMQ \/ Redis
  /\ UNCHANGED <<delivered, consumerVars, monitorVars, senderVars>>

Next == Sender \/ Processor \/ Environment

Spec == Init /\ [][Next]_vars

\* The services' goroutines go on when they can, four minutes and ten seconds
\* pass, a client library notices a lost channel. Nobody has to start or stop
\* the scheduler, to restart a dead processor, or to create a message.
Fairness ==
  /\ WF_vars(ConsumerStep /\ UNCHANGED senderVars)
  /\ WF_vars(MonitorStep /\ UNCHANGED senderVars)
  /\ \A r \in Runners :
       WF_vars(RunnerStep(r) /\ UNCHANGED <<redisVars, delivered, consumerVars,
                                            monitorVars>>)
  /\ \A m \in Messages : WF_vars(Environment /\ TimePasses(m))
  /\ \A b \in Bodies : WF_vars(Environment /\ RetryExpires(b))
  /\ \A s \in Services : WF_vars(Environment /\ ChannelCloses(s))

FairSpec == Spec /\ Fairness

-----------------------------------------------------------------------------
\* Entries of m that can still reach the consumer, the one it handles included.
InFlight(m) ==
  mainQ[m] + retryQ[m] + unacked[m] + (IF cur = m THEN 1 ELSE 0)

Terminal == {"sent", "failed", "duplicate"}

\* However often a message is published and tried, the failed attempts counted
\* for it never exceed MAX_RETRIES: ShouldProcessMessage refuses another copy of
\* a message that reached the limit, and handleWebhookError gives it up.
RetryBounded == \A m \in Messages : retryCount[m] <= MaxRetries

\* The degradation of "processed exactly once": the endpoint takes a message
\* once, and once more at most for each fault. Copies, retries and concurrent
\* schedulers alone never make it take a message twice: the inbox sees to it.
DeliveriesPaidByFaults == \A m \in Messages : delivered[m] <= 1 + faults

\* No record of success without a delivery: a message in the inbox, with a
\* webhook id or with the status sent or duplicate was taken by the endpoint.
RemembersOnlyDelivered ==
  \A m \in Messages :
    m \in inbox \cup webhookIDs \/ status[m] \in {"sent", "duplicate"}
      => delivered[m] > 0

\* A message whose inbox key is there is not sent to the endpoint: nothing can
\* put it there between the lookup and the call.
NeverResentWhileRemembered ==
  [][\A m \in inbox : delivered'[m] = delivered[m]]_vars

\* As long as the processor keeps its channel and the broker its entries, a
\* message that is given up, by the consumer or by the monitor, is in the dead
\* letter queue.
FailedMeansDeadLettered ==
  \A m \in Messages :
    status[m] = "failed" /\ Faults \cap {"broker", "lookup", "restart"} = {} => dlq[m] > 0

\* The schedulers that run, and that no two of them do at the same time.
Active == {r \in Runners : rpc[r] # "off"}

OneAtATime == \A q, r \in Runners : rpc[q] # "off" /\ rpc[r] # "off" => q = r

\* A publication finds nothing left of an earlier one of the same message.
FirstPublication ==
  \A m \in Messages :
    mainQ'[m] > mainQ[m] /\ retryQ' = retryQ =>
      InFlight(m) = 0 /\ delivered[m] = 0 /\ retryCount[m] = 0 /\ dlq[m] = 0

\* The sender's outbox without faults and with one scheduler: it publishes a
\* message only when no earlier publication of it has left a trace.
PublishedOnce ==
  [][faults = 0 /\ Cardinality(Runners) = 1 => FirstPublication]_vars

\* Each scheduler publishes a message once, and once more at most for each
\* fault; a retry replaces the copy it was made from, a redelivery does too.
CopiesBounded ==
  \A m \in Messages : InFlight(m) <= Cardinality(Runners) * (1 + faults)

\* Nothing asks whether a message was given up already: the consumer gives it up
\* once per copy, the monitor once each time somebody set processing, a scheduler
\* after a publication, the consumer after an attempt, or again after a fault. Dead
\* letters never exceed the counted attempts by more than two per publication.
DeadLettersBounded ==
  "drop" \notin Faults =>
    \A m \in Messages :
      dlq[m] <= retryCount[m] + 2 * (Cardinality(Runners) * (1 + faults))

\* While Redis keeps its keys, a delivery a client sees confirmed is in the inbox,
\* whatever was written late, lost, or interrupted by a crash in between.
ConfirmedIsRemembered ==
  Faults \cap {"restart", "ttl"} = {} =>
    \A m \in Messages : status[m] \in {"sent", "duplicate"} => m \in inbox

\* Hence the consumer, which never looks at the status, does not undo a confirmed
\* delivery for a late copy: it neither counts an attempt, nor retries it, nor gives
\* it up. Only a scheduler's late write and the monitor after it can.
ConsumerKeepsDeliveries ==
  [][Faults \cap {"restart", "ttl"} = {} /\ consumerVars' # consumerVars =>
       \A m \in Messages :
         status[m] \in {"sent", "duplicate"} =>
           /\ status'[m] \in {"sent", "duplicate"}
           /\ <<retryCount[m], retryQ[m], dlq[m]>>' = <<retryCount[m], retryQ[m], dlq[m]>>]_vars

\* A message in a terminal status that no queue, scheduler or goroutine holds any
\* more is done with: only a fault can bring it back or change its status.
Settled(m) ==
  /\ status[m] \in Terminal /\ InFlight(m) = 0 /\ m \notin found /\ failing # m
  /\ \A r \in Runners : m \notin batch[r] /\ rcur[r] # m

SettledStays ==
  [][NoFault => \A m \in Messages :
       Settled(m) => Settled(m)' /\ status'[m] = status[m]]_vars

\* A message in processing does not stay there, scheduler or not: what neither a
\* copy nor the consumer moves on, the monitor finds once it is stale.
StaleRecovered ==
  \A m \in Messages : status[m] = "processing" ~> status[m] # "processing"

-----------------------------------------------------------------------------
\* The delivery of m is known: it is in the inbox, or about to be put there.
Remembered(m) == m \in inbox \/ (cur = m /\ pc \in {"storeID", "mark"})

\* The whole system implements the ledger. Retries, copies, concurrent schedulers,
\* both goroutines and every restart are invisible there: between two faults the
\* endpoint takes an accepted message once, and "sent" and "duplicate" are true.
Ledger == INSTANCE DeliveryLedger WITH
  accepted <- {m \in Messages : status[m] # "absent"},
  known <- {m \in Messages : Remembered(m)},
  confirmed <- {m \in Messages : status[m] \in {"sent", "duplicate"}}

LedgerSpec == Ledger!Spec

-----------------------------------------------------------------------------
\* Statements of the repository's documents that the code does not keep.

\* README.md:57, "messages are published exactly once": no message has two
\* copies on their way to the consumer.
PublishedExactlyOnce == \A m \in Messages : InFlight(m) <= 1

\* README.md:193, "Message status updated based on delivery result": a message
\* that was marked as sent is not marked as being processed afterwards.
SentStatusKept ==
  [][\A m \in Messages : status[m] = "sent" => status'[m] # "processing"]_vars

\* README.md:197, "Messages exceeding retry limit moved to DLQ": a message that is
\* marked as failed after its last attempt is in the dead letter queue.
ExceededIsDeadLettered ==
  \A m \in Messages :
    status[m] = "failed" /\ retryCount[m] >= MaxRetries => dlq[m] > 0
=============================================================================
