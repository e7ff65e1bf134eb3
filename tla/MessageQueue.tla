--------------------------- MODULE MessageQueue ---------------------------
(***************************************************************************)
(* RabbitMQ as the adapter sets it up: the main queue, the retry queue     *)
(* whose entries go back to the main queue after ten seconds, the dead     *)
(* letter queue nobody consumes, and one channel per service. A queue is a *)
(* bag: publishers, redeliveries and expiries make any order possible.     *)
(*                                                                         *)
(* A channel is open, lost (the broker has dropped it and the client does  *)
(* not know yet) or closed. Only a restart of the service opens a new one. *)
(***************************************************************************)
EXTENDS Contracts

VARIABLES
  mainQ, retryQ, dlq,  \* per body: the entries of it in that queue
  unacked,             \* per body: taken on a lost channel, still the broker's
  channel              \* per service: the state of its channel

queues == <<mainQ, retryQ, dlq, unacked>>

Services == {"sender", "processor"}

QueueTypeOK ==
  /\ mainQ \in [Bodies -> Nat]
  /\ retryQ \in [Bodies -> Nat]
  /\ dlq \in [Bodies -> Nat]
  /\ unacked \in [Bodies -> Nat]
  /\ channel \in [Services -> {"open", "lost", "closed"}]

Empty == [b \in Bodies |-> 0]

QueueInit ==
  /\ mainQ = Empty /\ retryQ = Empty /\ dlq = Empty /\ unacked = Empty
  /\ channel = [s \in Services |-> "open"]

Plus(q, b) == [q EXCEPT ![b] = @ + 1]
Minus(q, b) == [q EXCEPT ![b] = @ - 1]

\* channel.Publish without publisher confirms: an error on a closed channel, nil
\* on a lost one, where the entry never arrives.
Publish(s, Enqueue, OnOk, OnErr) ==
  /\ UNCHANGED channel
  /\ \/ channel[s] = "open" /\ Enqueue /\ OnOk
     \/ channel[s] = "lost" /\ UNCHANGED queues /\ OnOk
     \/ channel[s] = "closed" /\ UNCHANGED queues /\ OnErr

PublishMessage(b, OnOk, OnErr) ==
  Publish("sender",
          mainQ' = Plus(mainQ, b) /\ UNCHANGED <<retryQ, dlq, unacked>>,
          OnOk, OnErr)

MoveToRetryQueue(b, OnOk, OnErr) ==
  Publish("processor",
          retryQ' = Plus(retryQ, b) /\ UNCHANGED <<mainQ, dlq, unacked>>,
          OnOk, OnErr)

MoveToDeadLetter(b, OnOk, OnErr) ==
  Publish("processor",
          dlq' = Plus(dlq, b) /\ UNCHANGED <<mainQ, retryQ, unacked>>,
          OnOk, OnErr)

\* A delivery of b is taken and acknowledged: the broker forgets it. On a lost
\* channel the acknowledgement gets nowhere, and its error is only logged.
TakeDelivery_NeverAcked(b) ==  \* faulty
  /\ mainQ[b] > 0
  /\ mainQ' = Minus(mainQ, b) /\ unacked' = Plus(unacked, b)
  /\ channel["processor"] # "closed"
  /\ UNCHANGED <<retryQ, dlq, channel>>
TakeDelivery(b) ==
  /\ mainQ[b] > 0
  /\ mainQ' = Minus(mainQ, b)
  /\ \/ channel["processor"] = "open" /\ UNCHANGED unacked
     \/ channel["processor"] = "lost" /\ unacked' = Plus(unacked, b)
  /\ UNCHANGED <<retryQ, dlq, channel>>

DropChannel(s) ==
  channel' = [channel EXCEPT ![s] = IF @ = "open" THEN "lost" ELSE @]

\* Nack of a delivery that was acknowledged before: the broker knows no such
\* delivery tag, requeues nothing and drops the channel.
Nack == DropChannel("processor") /\ UNCHANGED queues

\* A service starts: NewMessageQueue opens a channel, and what the processor's
\* former channel left unacknowledged is delivered again.
OpenChannel(s) ==
  /\ channel' = [channel EXCEPT ![s] = "open"]
  /\ IF s = "processor"
     THEN /\ mainQ' = [b \in Bodies |-> mainQ[b] + unacked[b]]
          /\ unacked' = Empty
     ELSE UNCHANGED <<mainQ, unacked>>
  /\ UNCHANGED <<retryQ, dlq>>

-----------------------------------------------------------------------------
\* x-message-ttl of the retry queue: the entry is dead-lettered to the main queue.
RetryExpires(b) ==
  /\ retryQ[b] > 0
  /\ retryQ' = Minus(retryQ, b)
  /\ mainQ' = Plus(mainQ, b)
  /\ UNCHANGED <<dlq, unacked, channel>>

ConnectionLost(s) == channel[s] = "open" /\ DropChannel(s) /\ UNCHANGED queues

\* RabbitMQ is restarted. It loses every retry entry and dead letter, which are
\* published without DeliveryMode and hence transient, and what came back from the
\* retry queue; a persistent entry it had not written to disk, for nobody waits for
\* a confirm. Nobody's channel survives.
Survivors(q) ==
  LET held == {b \in Bodies : q[b] > 0}
  IN  {f \in [Bodies -> {0} \cup UNION {0..q[b] : b \in held}] :
         \A b \in Bodies : f[b] <= q[b]}

BrokerRestarts ==
  /\ channel' = [s \in Services |-> IF channel[s] = "open" THEN "lost" ELSE channel[s]]
  /\ mainQ' \in Survivors(mainQ) /\ unacked' \in Survivors(unacked)
  /\ retryQ' = Empty /\ dlq' = Empty

\* The client library notices that its channel is gone.
ChannelCloses(s) ==
  /\ channel[s] = "lost"
  /\ channel' = [channel EXCEPT ![s] = "closed"]
  /\ UNCHANGED queues

\* Another publisher puts a body the processor cannot use on the main queue.
ForeignPublish(b) ==
  /\ b \in Malformed \cup InvalidIDs
  /\ mainQ' = Plus(mainQ, b)
  /\ UNCHANGED <<retryQ, dlq, unacked, channel>>
=============================================================================
