---------------------- MODULE ReliableMessagingProofs ----------------------
(***************************************************************************)
(* Proofs, for every set of messages, number of schedulers, retry limit    *)
(* and choice of faults, of the safety properties of ReliableMessaging.    *)
(***************************************************************************)
EXTENDS ReliableMessaging, TLAPS

USE ContractsAssumption

-----------------------------------------------------------------------------
(* What the operations of the stores do to the types of their variables. *)

LEMMA StatusUpdateType ==
  ASSUME RepoTypeOK, NEW m \in Messages, NEW s \in Statuses, UpdateStatus(m, s)
  PROVE  RepoTypeOK'
  BY DEF RepoTypeOK, UpdateStatus, Stored

LEMMA IncrementType ==
  ASSUME RepoTypeOK, NEW m \in Messages, IncrementRetryCount(m)
  PROVE  RepoTypeOK'
  BY DEF RepoTypeOK, IncrementRetryCount, Stored

LEMMA TakeType ==
  ASSUME QueueTypeOK, NEW b \in Bodies, TakeDelivery(b)
  PROVE  QueueTypeOK'
  BY DEF QueueTypeOK, TakeDelivery, Plus, Minus

LEMMA ChannelType ==
  ASSUME QueueTypeOK, NEW s \in Services,
         OpenChannel(s) \/ (DropChannel(s) /\ UNCHANGED queues) \/ ChannelCloses(s)
  PROVE  QueueTypeOK'
  BY DEF QueueTypeOK, OpenChannel, DropChannel, ChannelCloses, Services, Empty, queues

\* What a queue keeps through a restart of the broker is at most what it held.
LEMMA SurvivorsAreFewer ==
  ASSUME NEW q \in [Bodies -> Nat], NEW f \in Survivors(q)
  PROVE  f \in [Bodies -> Nat] /\ \A b \in Bodies : f[b] <= q[b]
  BY DEF Survivors

LEMMA RestartType ==
  ASSUME QueueTypeOK, BrokerRestarts
  PROVE  QueueTypeOK'
  BY SurvivorsAreFewer DEF QueueTypeOK, BrokerRestarts, Services, Empty

LEMMA FaultType ==
  ASSUME faults \in 0..MaxFaults, NEW kind, Fault(kind) \/ NoFault
  PROVE  faults' \in 0..MaxFaults
  BY DEF Fault, NoFault
-----------------------------------------------------------------------------
LEMMA TypeInit == Init => TypeOK
  BY DEF Init, TypeOK, RepoInit, QueueInit, RedisInit, WebhookInit, ProcessorInit,
         SenderInit, RepoTypeOK, QueueTypeOK, RedisTypeOK, WebhookTypeOK,
         ProcessorTypeOK, SenderTypeOK, Services, Empty, Statuses

LEMMA SenderType == TypeOK /\ Sender => TypeOK'
<1> SUFFICES ASSUME TypeOK, Sender PROVE TypeOK'
  OBVIOUS
<1>1. RedisTypeOK' /\ WebhookTypeOK' /\ ProcessorTypeOK'
  BY DEF TypeOK, Sender, RedisTypeOK, WebhookTypeOK, ProcessorTypeOK, redisVars,
         consumerVars, monitorVars
<1>2. CASE CreateMessage
  BY <1>1, <1>2 DEF TypeOK, CreateMessage, InsertMessage, RepoTypeOK, QueueTypeOK,
         SenderTypeOK, queues, senderVars, Statuses
<1>3. CASE SenderRestart
  <2>1. QueueTypeOK' BY <1>3, ChannelType DEF TypeOK, SenderRestart, Services
  <2>2. faults' \in 0..MaxFaults BY <1>3, FaultType DEF TypeOK, SenderRestart
  <2> QED
    BY <1>1, <1>3, <2>1, <2>2 DEF TypeOK, SenderRestart, RepoTypeOK, SenderTypeOK, repoVars
<1>4. ASSUME NEW r \in Runners, StartScheduler(r) \/ StopScheduler(r)
      PROVE  TypeOK'
  BY <1>1, <1>4 DEF TypeOK, StartScheduler, StopScheduler, RepoTypeOK, QueueTypeOK,
         SenderTypeOK, repoVars, queues
<1>5. ASSUME NEW r \in Runners, ProcessUnsentMessages(r)
      PROVE  TypeOK'
  BY <1>1, <1>5 DEF TypeOK, ProcessUnsentMessages, FindUnsentMessages, RepoTypeOK,
         QueueTypeOK, SenderTypeOK, repoVars, queues
<1>6. ASSUME NEW r \in Runners, PublishNext(r)
      PROVE  TypeOK'
  BY <1>1, <1>6 DEF TypeOK, PublishNext, PublishMessage, Publish, NextInBatch, Plus,
         RepoTypeOK, QueueTypeOK, SenderTypeOK, Bodies, repoVars, queues
<1>7. ASSUME NEW r \in Runners, MarkProcessing(r)
      PROVE  TypeOK'
  <2>1. rcur[r] \in Messages BY <1>7 DEF TypeOK, SenderTypeOK, MarkProcessing
  <2>2. RepoTypeOK'
    <3>1. CASE UpdateStatus(rcur[r], "processing")
      BY <2>1, <3>1, StatusUpdateType DEF TypeOK, Statuses
    <3>2. CASE UNCHANGED repoVars BY <3>2 DEF TypeOK, RepoTypeOK, repoVars
    <3> QED BY <1>7, <3>1, <3>2 DEF MarkProcessing, Write
  <2>3. faults' \in 0..MaxFaults BY <1>7, FaultType DEF TypeOK, MarkProcessing, Write
  <2> QED
    BY <1>1, <1>7, <2>2, <2>3 DEF TypeOK, MarkProcessing, Write, NextInBatch,
           QueueTypeOK, SenderTypeOK, queues
<1> QED
  BY <1>2, <1>3, <1>4, <1>5, <1>6, <1>7 DEF Sender, SenderStep, RunnerStep

LEMMA ConsumerType == TypeOK /\ ConsumerStep /\ UNCHANGED senderVars => TypeOK'
<1> SUFFICES ASSUME TypeOK, ConsumerStep, UNCHANGED senderVars PROVE TypeOK'
  OBVIOUS
<1>0. SenderTypeOK'
  BY DEF TypeOK, SenderTypeOK, senderVars
<1> USE DEF Calls
<1>1. CASE Receive
  <2>1. QueueTypeOK' BY <1>1, TakeType DEF TypeOK, Receive
  <2> QED
    BY <1>0, <1>1, <2>1 DEF TypeOK, Receive, RepoTypeOK, RedisTypeOK, WebhookTypeOK,
           ProcessorTypeOK, Bodies, repoVars, redisVars, monitorVars
<1>2. CASE CheckInbox
  <2>1. QueueTypeOK'
    BY <1>2, ChannelType DEF TypeOK, CheckInbox, Nack, Services, QueueTypeOK, queues
  <2>2. faults' \in 0..MaxFaults BY <1>2, FaultType DEF TypeOK, CheckInbox
  <2>3. cur \in Messages \/ cur \in InvalidIDs \/ cur \in Malformed
    BY <1>2 DEF TypeOK, CheckInbox, ProcessorTypeOK, Bodies
  <2> QED
    BY <1>0, <1>2, <2>1, <2>2, <2>3 DEF TypeOK, CheckInbox, Goto, Return, IsProcessed,
           RepoTypeOK, RedisTypeOK, WebhookTypeOK, ProcessorTypeOK, Bodies,
           repoVars, redisVars, monitorVars
<1>3. CASE GetMessage
  <2>1. QueueTypeOK'
    BY <1>3, ChannelType DEF TypeOK, GetMessage, Nack, Services, QueueTypeOK, queues
  <2>2. faults' \in 0..MaxFaults BY <1>3, FaultType DEF TypeOK, GetMessage
  <2> QED
    BY <1>0, <1>3, <2>1, <2>2 DEF TypeOK, GetMessage, Goto, Return, Die,
           RepoTypeOK, RedisTypeOK, WebhookTypeOK, ProcessorTypeOK,
           repoVars, redisVars, monitorVars
<1>4. CASE CallWebhook
  <2>1. faults' \in 0..MaxFaults
    BY <1>4, FaultType DEF TypeOK, CallWebhook, SendMessage
  <2> QED
    BY <1>0, <1>4, <2>1 DEF TypeOK, CallWebhook, SendMessage, Deliver, Goto,
           RepoTypeOK, QueueTypeOK, RedisTypeOK, WebhookTypeOK, ProcessorTypeOK,
           repoVars, queues, redisVars, monitorVars
<1>5. CASE StoreID \/ Mark
  <2>1. faults' \in 0..MaxFaults
    BY <1>5, FaultType DEF TypeOK, StoreID, Mark, Write
  <2> QED
    BY <1>0, <1>5, <2>1 DEF TypeOK, StoreID, Mark, Write, StoreWebhookMessageID,
           MarkAsProcessed, Goto, Return, RepoTypeOK, QueueTypeOK, RedisTypeOK,
           WebhookTypeOK, ProcessorTypeOK, repoVars, queues, redisVars, monitorVars
<1>6. CASE WriteStatus \/ Increment
  <2>1. faults' \in 0..MaxFaults
    BY <1>6, FaultType DEF TypeOK, WriteStatus, Increment, Write
  <2>2. cur \in Messages
    BY <1>6 DEF TypeOK, WriteStatus, StatusAt, Increment, ProcessorTypeOK
  <2>3. RepoTypeOK'
    <3>1. CASE WriteStatus
      <4>1. StatusAt[pc] \in Statuses
        BY <3>1 DEF WriteStatus, StatusAt, Statuses
      <4>2. CASE UpdateStatus(cur, StatusAt[pc])
        BY <2>2, <4>1, <4>2, StatusUpdateType DEF TypeOK
      <4>3. CASE UNCHANGED repoVars BY <4>3 DEF TypeOK, RepoTypeOK, repoVars
      <4> QED BY <3>1, <4>2, <4>3 DEF WriteStatus, Write
    <3>2. CASE Increment
      <4>1. CASE IncrementRetryCount(cur)
        BY <2>2, <4>1, IncrementType DEF TypeOK
      <4>2. CASE UNCHANGED repoVars BY <4>2 DEF TypeOK, RepoTypeOK, repoVars
      <4> QED BY <3>2, <4>1, <4>2 DEF Increment, Write
    <3> QED BY <1>6, <3>1, <3>2
  <2> QED
    BY <1>0, <1>6, <2>1, <2>2, <2>3 DEF TypeOK, WriteStatus, Increment, Write, Goto,
           Return, QueueTypeOK, RedisTypeOK, WebhookTypeOK, ProcessorTypeOK,
           queues, redisVars, monitorVars
<1>7. CASE Reload
  <2>1. faults' \in 0..MaxFaults BY <1>7, FaultType DEF TypeOK, Reload
  <2> QED
    BY <1>0, <1>7, <2>1 DEF TypeOK, Reload, Goto, Return, Die, RepoTypeOK,
           QueueTypeOK, RedisTypeOK, WebhookTypeOK, ProcessorTypeOK,
           repoVars, queues, redisVars, monitorVars
<1>8. CASE RetryLater \/ DeadLetter \/ Discard
  <2>1. cur \in Bodies
    BY <1>8 DEF TypeOK, RetryLater, DeadLetter, Discard, ProcessorTypeOK, Bodies
  <2>2. QueueTypeOK'
    BY <1>8, <2>1 DEF TypeOK, RetryLater, DeadLetter, Discard, MoveToRetryQueue,
           MoveToDeadLetter, Publish, Plus, QueueTypeOK, queues
  <2> QED
    BY <1>0, <1>8, <2>2 DEF TypeOK, RetryLater, DeadLetter, Discard, MoveToRetryQueue,
           MoveToDeadLetter, Publish, Goto, Return, RepoTypeOK, RedisTypeOK,
           WebhookTypeOK, ProcessorTypeOK, repoVars, redisVars, monitorVars
<1> QED
  BY <1>1, <1>2, <1>3, <1>4, <1>5, <1>6, <1>7, <1>8 DEF ConsumerStep

LEMMA ProcessorType == TypeOK /\ Processor => TypeOK'
<1> SUFFICES ASSUME TypeOK, Processor PROVE TypeOK'
  OBVIOUS
<1>0. SenderTypeOK'
  BY DEF TypeOK, Processor, SenderTypeOK, senderVars
<1>1. CASE ConsumerStep
  BY <1>1, ConsumerType DEF Processor
<1>2. CASE CheckStaleMessages
  BY <1>0, <1>2 DEF TypeOK, CheckStaleMessages, FindStaleProcessingMessages, RepoTypeOK,
         QueueTypeOK, RedisTypeOK, WebhookTypeOK, ProcessorTypeOK,
         repoVars, queues, redisVars, consumerVars
<1>3. CASE RecoverDeadLetter
  BY <1>0, <1>3 DEF TypeOK, RecoverDeadLetter, MoveToDeadLetter, Publish, Plus, Bodies,
         RepoTypeOK, QueueTypeOK, RedisTypeOK, WebhookTypeOK, ProcessorTypeOK,
         repoVars, queues, redisVars, consumerVars
<1>4. CASE RecoverStatus
  <2>1. faults' \in 0..MaxFaults BY <1>4, FaultType DEF TypeOK, RecoverStatus, Write
  <2>2. RepoTypeOK'
    <3>1. CASE UpdateStatus(failing, "failed")
      BY <1>4, <3>1, StatusUpdateType DEF TypeOK, RecoverStatus, ProcessorTypeOK, Statuses
    <3>2. CASE UNCHANGED repoVars BY <3>2 DEF TypeOK, RepoTypeOK, repoVars
    <3> QED BY <1>4, <3>1, <3>2 DEF RecoverStatus, Write
  <2> QED
    BY <1>0, <1>4, <2>1, <2>2 DEF TypeOK, RecoverStatus, Write, QueueTypeOK, RedisTypeOK,
           WebhookTypeOK, ProcessorTypeOK, queues, redisVars, consumerVars
<1>5. CASE ProcessorCrash
  <2>1. faults' \in 0..MaxFaults BY <1>5, FaultType DEF TypeOK, ProcessorCrash
  <2> QED
    BY <1>0, <1>5, <2>1 DEF TypeOK, ProcessorCrash, Die, RepoTypeOK, QueueTypeOK,
           RedisTypeOK, WebhookTypeOK, ProcessorTypeOK, repoVars, queues, redisVars
<1>6. CASE ProcessorRestart
  <2>1. QueueTypeOK' BY <1>6, ChannelType DEF TypeOK, ProcessorRestart, Services
  <2> QED
    BY <1>0, <1>6, <2>1 DEF TypeOK, ProcessorRestart, RepoTypeOK, RedisTypeOK,
           WebhookTypeOK, ProcessorTypeOK, Calls, repoVars, redisVars, monitorVars
<1> QED
  BY <1>1, <1>2, <1>3, <1>4, <1>5, <1>6 DEF Processor, ProcessorStep, MonitorStep

LEMMA EnvironmentType == TypeOK /\ Environment => TypeOK'
<1> SUFFICES ASSUME TypeOK, Environment PROVE TypeOK'
  OBVIOUS
<1>0. WebhookTypeOK' /\ ProcessorTypeOK' /\ SenderTypeOK'
  BY DEF TypeOK, Environment, WebhookTypeOK, ProcessorTypeOK, SenderTypeOK,
         consumerVars, monitorVars, senderVars
<1>1. CASE MongoDB
  <2>1. faults' \in 0..MaxFaults BY <1>1, FaultType DEF TypeOK, MongoDB
  <2>2. RepoTypeOK'
    BY <1>1 DEF TypeOK, MongoDB, TimePasses, DropCollection, RepoTypeOK
  <2> QED
    BY <1>0, <1>1, <2>1, <2>2 DEF TypeOK, MongoDB, QueueTypeOK, RedisTypeOK, queues,
           redisVars
<1>2. CASE RabbitMQ
  <2>1. faults' \in 0..MaxFaults BY <1>2, FaultType DEF TypeOK, RabbitMQ
  <2>2. QueueTypeOK'
    <3>1. ASSUME NEW b \in Bodies, RetryExpires(b) \/ ForeignPublish(b)
          PROVE  QueueTypeOK'
      BY <3>1 DEF TypeOK, RetryExpires, ForeignPublish, Plus, Minus, QueueTypeOK
    <3>2. ASSUME NEW s \in Services, ConnectionLost(s) \/ ChannelCloses(s)
          PROVE  QueueTypeOK'
      BY <3>2, ChannelType DEF TypeOK, ConnectionLost
    <3>3. CASE BrokerRestarts
      BY <3>3, RestartType DEF TypeOK
    <3> QED BY <1>2, <3>1, <3>2, <3>3 DEF RabbitMQ
  <2> QED
    BY <1>0, <1>2, <2>1, <2>2 DEF TypeOK, RabbitMQ, RepoTypeOK, RedisTypeOK, repoVars,
           redisVars
<1>3. CASE Redis
  <2>1. faults' \in 0..MaxFaults BY <1>3, FaultType DEF TypeOK, Redis
  <2> QED
    BY <1>0, <1>3, <2>1 DEF TypeOK, Redis, KeyExpires, RedisRestarts, RepoTypeOK,
           QueueTypeOK, RedisTypeOK, repoVars, queues
<1> QED
  BY <1>1, <1>2, <1>3 DEF Environment

LEMMA TypeStutter == TypeOK /\ UNCHANGED vars => TypeOK'
  BY DEF TypeOK, vars, RepoTypeOK, QueueTypeOK, RedisTypeOK, WebhookTypeOK,
         ProcessorTypeOK, SenderTypeOK, repoVars, queues, redisVars, consumerVars,
         monitorVars, senderVars

\* Every variable stays in the set its module declares for it, whatever the
\* services, the stores and the faults do.
THEOREM TypeCorrect == Spec => []TypeOK
<1>1. TypeOK /\ [Next]_vars => TypeOK'
  BY SenderType, ProcessorType, EnvironmentType, TypeStutter DEF Next
<1> QED
  BY TypeInit, <1>1, PTL DEF Spec

-----------------------------------------------------------------------------
(* The retry limit. RetryBounded is not inductive: the consumer adds one to a *)
(* count it compared with the limit two calls before. In between nobody else  *)
(* counts, so the comparison still holds when the attempt is counted.         *)

RetryInv ==
  /\ RetryBounded
  /\ pc \in {"send", "increment"} => retryCount[cur] < MaxRetries

LEMMA RetryInit == Init => RetryInv
  BY DEF Init, RepoInit, ProcessorInit, RetryInv, RetryBounded

LEMMA RetrySender == TypeOK /\ RetryInv /\ Sender => RetryInv'
<1> SUFFICES ASSUME TypeOK, RetryInv, Sender PROVE RetryInv'
  OBVIOUS
<1>1. pc' = pc /\ cur' = cur
  BY DEF Sender, consumerVars
<1>2. CASE retryCount' = retryCount
  BY <1>1, <1>2 DEF RetryInv, RetryBounded
<1>3. ASSUME NEW m \in Messages, InsertMessage(m)
      PROVE  RetryInv'
  <2>1. \A n \in Messages : retryCount'[n] <= retryCount[n] /\ retryCount'[n] \in Nat
    BY <1>3 DEF TypeOK, RepoTypeOK, InsertMessage
  <2>2. pc \in {"send", "increment"} => cur \in Messages
    BY DEF TypeOK, ProcessorTypeOK
  <2> QED
    BY <1>1, <2>1, <2>2 DEF TypeOK, RepoTypeOK, RetryInv, RetryBounded
<1> QED
  BY <1>2, <1>3 DEF Sender, SenderStep, CreateMessage, SenderRestart, StartScheduler,
         StopScheduler, RunnerStep, ProcessUnsentMessages, PublishNext, MarkProcessing,
         Write, UpdateStatus, repoVars

LEMMA RetryProcessor == TypeOK /\ RetryInv /\ Processor => RetryInv'
<1> SUFFICES ASSUME TypeOK, RetryInv, Processor PROVE RetryInv'
  OBVIOUS
<1>1. CASE GetMessage
  BY <1>1 DEF GetMessage, ShouldProcessMessage, Goto, Return, Die, RetryInv,
         RetryBounded, repoVars
<1>2. CASE CallWebhook
  BY <1>2 DEF CallWebhook, SendMessage, Goto, RetryInv, RetryBounded, repoVars
<1>3. CASE Increment
  <2>1. cur \in Messages /\ retryCount[cur] < MaxRetries
    BY <1>3 DEF TypeOK, ProcessorTypeOK, Increment, RetryInv
  <2>2. \A n \in Messages : retryCount'[n] <= MaxRetries
    BY <1>3, <2>1 DEF TypeOK, RepoTypeOK, Increment, Write, IncrementRetryCount,
           RetryInv, RetryBounded, repoVars
  <2> QED
    BY <1>3, <2>2 DEF Increment, Write, Goto, Return, RetryInv, RetryBounded
<1>4. CASE Receive \/ CheckInbox \/ StoreID \/ Mark \/ WriteStatus \/ Reload
           \/ RetryLater \/ DeadLetter \/ Discard
  <2>1. retryCount' = retryCount
    BY <1>4 DEF Receive, CheckInbox, StoreID, Mark, WriteStatus, Reload, RetryLater,
           DeadLetter, Discard, Write, UpdateStatus, repoVars
  <2>2. pc' \notin {"send", "increment"}
    BY <1>4 DEF Receive, CheckInbox, StoreID, Mark, WriteStatus, Reload, RetryLater,
           DeadLetter, Discard, Write, MoveToRetryQueue, MoveToDeadLetter, Publish,
           Goto, Return, Die
  <2> QED
    BY <2>1, <2>2 DEF RetryInv, RetryBounded
<1>5. CASE MonitorStep \/ ProcessorCrash \/ ProcessorRestart
  <2>1. retryCount' = retryCount
    BY <1>5 DEF MonitorStep, CheckStaleMessages, RecoverDeadLetter, RecoverStatus, Write,
           UpdateStatus, ProcessorCrash, ProcessorRestart, repoVars
  <2>2. (pc' = pc /\ cur' = cur) \/ pc' \notin {"send", "increment"}
    BY <1>5 DEF MonitorStep, CheckStaleMessages, RecoverDeadLetter, RecoverStatus,
           ProcessorCrash, ProcessorRestart, Die, consumerVars
  <2> QED
    BY <2>1, <2>2 DEF RetryInv, RetryBounded
<1> QED
  BY <1>1, <1>2, <1>3, <1>4, <1>5 DEF Processor, ProcessorStep, ConsumerStep

LEMMA RetryEnvironment == RetryInv /\ (Environment \/ UNCHANGED vars) => RetryInv'
<1>1. Environment => UNCHANGED <<retryCount, pc, cur>>
  BY DEF Environment, MongoDB, RabbitMQ, Redis, TimePasses, DropCollection, repoVars,
         consumerVars
<1>2. UNCHANGED vars => UNCHANGED <<retryCount, pc, cur>>
  BY DEF vars, repoVars, consumerVars
<1> QED
  BY <1>1, <1>2 DEF RetryInv, RetryBounded

\* No message has more failed attempts counted than MAX_RETRIES, with any number
\* of schedulers and copies and after any faults.
THEOREM RetryLimitHolds == Spec => []RetryBounded
<1>1. TypeOK /\ RetryInv /\ [Next]_vars => RetryInv'
  BY RetrySender, RetryProcessor, RetryEnvironment DEF Next
<1>2. RetryInv => RetryBounded
  BY DEF RetryInv
<1> QED
  BY TypeCorrect, RetryInit, <1>1, <1>2, PTL DEF Spec

-----------------------------------------------------------------------------
(* Deliveries. A delivery is paid for by a fault as soon as it is neither in    *)
(* the inbox nor about to be put there; one delivery at most is in between.     *)

DeliveryInv ==
  /\ \A m \in Messages :
       delivered[m] <= faults + (IF Remembered(m) THEN 1 ELSE 0)
  /\ pc \in {"getByID", "send"} => cur \notin inbox

LEMMA DeliveryInit == Init => DeliveryInv
  BY DEF Init, WebhookInit, ProcessorInit, DeliveryInv, Remembered

\* A step that delivers nothing and forgets nothing keeps the invariant.
LEMMA DeliveryFrame ==
  ASSUME TypeOK, DeliveryInv, delivered' = delivered, inbox' = inbox,
         faults' \in Nat, faults' >= faults,
         \/ pc' = pc /\ cur' = cur
         \/ pc \notin {"storeID", "mark"} /\ pc' \notin {"getByID", "send"}
         \/ faults' > faults /\ pc' \notin {"getByID", "send"}
  PROVE  DeliveryInv'
<1>1. ASSUME NEW m \in Messages
      PROVE  delivered'[m] <= faults' + (IF Remembered(m)' THEN 1 ELSE 0)
  <2>1. delivered[m] \in Nat /\ faults \in Nat
    BY DEF TypeOK, WebhookTypeOK
  <2>2. delivered[m] <= faults + (IF Remembered(m) THEN 1 ELSE 0)
    BY DEF DeliveryInv
  <2> QED BY <2>1, <2>2 DEF Remembered
<1>2. pc' \in {"getByID", "send"} => cur' \notin inbox'
  BY DEF DeliveryInv
<1> QED BY <1>1, <1>2 DEF DeliveryInv

LEMMA DeliverySender == TypeOK /\ DeliveryInv /\ Sender => DeliveryInv'
<1> SUFFICES ASSUME TypeOK, DeliveryInv, Sender PROVE DeliveryInv'
  OBVIOUS
<1>1. UNCHANGED <<pc, cur, delivered, inbox>>
  BY DEF Sender, consumerVars, redisVars
<1>2. NoFault \/ Fault("write") \/ Fault("crash")
  BY DEF Sender, SenderStep, CreateMessage, SenderRestart, StartScheduler,
         StopScheduler, RunnerStep, ProcessUnsentMessages, PublishNext, MarkProcessing,
         Write, NoFault
<1>3. faults' \in Nat /\ faults' >= faults
  BY <1>2 DEF TypeOK, Fault, NoFault
<1> QED BY <1>1, <1>3, DeliveryFrame

LEMMA DeliveryConsumer == TypeOK /\ DeliveryInv /\ ConsumerStep => DeliveryInv'
<1> SUFFICES ASSUME TypeOK, DeliveryInv, ConsumerStep PROVE DeliveryInv'
  OBVIOUS
<1>0. /\ delivered \in [Messages -> Nat] /\ inbox \subseteq Messages
      /\ faults \in Nat
  BY DEF TypeOK, WebhookTypeOK, RedisTypeOK
<1>1. CASE CheckInbox
  BY <1>0, <1>1 DEF CheckInbox, IsProcessed, Goto, Return, Fault, NoFault, DeliveryInv,
         Remembered, redisVars
<1>2. CASE GetMessage
  BY <1>0, <1>2 DEF GetMessage, Goto, Return, Die, Fault, NoFault, DeliveryInv,
         Remembered, redisVars
<1>3. CASE CallWebhook
  <2>1. cur \in Messages /\ cur \notin inbox /\ pc = "send"
    BY <1>3 DEF TypeOK, ProcessorTypeOK, CallWebhook, DeliveryInv
  <2>2. CASE NoFault /\ Deliver(cur) /\ (Goto("storeID") \/ Goto("mark"))
    BY <1>0, <1>3, <2>1, <2>2 DEF CallWebhook, Deliver, Goto, NoFault, DeliveryInv,
           Remembered, redisVars
  <2>3. CASE NoFault /\ UNCHANGED delivered /\ Goto("increment")
    BY <1>0, <1>3, <2>1, <2>3 DEF CallWebhook, Goto, NoFault, DeliveryInv,
           Remembered, redisVars
  <2>4. CASE Fault("webhook") /\ Deliver(cur) /\ Goto("increment")
    BY <1>0, <1>3, <2>1, <2>4 DEF CallWebhook, Deliver, Goto, Fault, DeliveryInv,
           Remembered, redisVars
  <2> QED BY <1>3, <2>2, <2>3, <2>4 DEF CallWebhook, SendMessage
<1>4. CASE StoreID
  BY <1>0, <1>4 DEF StoreID, Write, StoreWebhookMessageID, Goto, Fault, NoFault,
         DeliveryInv, Remembered, redisVars
<1>5. CASE Mark
  BY <1>0, <1>5 DEF Mark, Write, MarkAsProcessed, Goto, Return, Fault, NoFault,
         DeliveryInv, Remembered, redisVars
<1>6. CASE Receive \/ WriteStatus \/ Increment \/ Reload \/ RetryLater \/ DeadLetter
           \/ Discard
  <2>1. delivered' = delivered /\ inbox' = inbox
    BY <1>6 DEF Receive, WriteStatus, Increment, Reload, RetryLater, DeadLetter, Discard,
           redisVars
  <2>2. faults' \in Nat /\ faults' >= faults
    BY <1>0, <1>6 DEF Receive, WriteStatus, Increment, Reload, RetryLater, DeadLetter,
           Discard, Write, Fault, NoFault
  <2>3. pc \notin {"storeID", "mark"} /\ pc' \notin {"getByID", "send"}
    BY <1>6 DEF Receive, WriteStatus, StatusAt, Increment, Reload, RetryLater, DeadLetter,
           Discard, Write, MoveToRetryQueue, MoveToDeadLetter, Publish, Goto, Return, Die
  <2> QED BY <2>1, <2>2, <2>3, DeliveryFrame
<1> QED
  BY <1>1, <1>2, <1>3, <1>4, <1>5, <1>6 DEF ConsumerStep

LEMMA DeliveryProcessor == TypeOK /\ DeliveryInv /\ Processor => DeliveryInv'
<1> SUFFICES ASSUME TypeOK, DeliveryInv, Processor PROVE DeliveryInv'
  OBVIOUS
<1>1. CASE MonitorStep \/ ProcessorCrash \/ ProcessorRestart
  <2>1. delivered' = delivered /\ inbox' = inbox
    BY <1>1 DEF MonitorStep, CheckStaleMessages, RecoverDeadLetter, RecoverStatus,
           ProcessorCrash, ProcessorRestart, redisVars
  <2>2. faults' \in Nat /\ faults' >= faults
    BY <1>1 DEF TypeOK, MonitorStep, CheckStaleMessages, RecoverDeadLetter, RecoverStatus,
           ProcessorCrash, ProcessorRestart, Write, Fault, NoFault
  <2>3. \/ pc' = pc /\ cur' = cur
        \/ pc \notin {"storeID", "mark"} /\ pc' \notin {"getByID", "send"}
        \/ faults' > faults /\ pc' \notin {"getByID", "send"}
    BY <1>1 DEF TypeOK, MonitorStep, CheckStaleMessages, RecoverDeadLetter,
           RecoverStatus, ProcessorCrash, ProcessorRestart, Die, Fault, consumerVars
  <2> QED BY <2>1, <2>2, <2>3, DeliveryFrame
<1> QED
  BY <1>1, DeliveryConsumer DEF Processor, ProcessorStep

LEMMA DeliveryEnvironment == TypeOK /\ DeliveryInv /\ Environment => DeliveryInv'
<1> SUFFICES ASSUME TypeOK, DeliveryInv, Environment PROVE DeliveryInv'
  OBVIOUS
<1>0. UNCHANGED <<pc, cur, delivered>>
  BY DEF Environment, consumerVars
<1>1. CASE MongoDB \/ RabbitMQ
  <2>1. inbox' = inbox
    BY <1>1 DEF MongoDB, RabbitMQ, redisVars
  <2>2. faults' \in Nat /\ faults' >= faults
    BY <1>1 DEF TypeOK, MongoDB, RabbitMQ, Fault, NoFault
  <2> QED BY <1>0, <2>1, <2>2, DeliveryFrame
<1>2. CASE Redis
  <2>1. /\ delivered \in [Messages -> Nat] /\ faults \in Nat /\ faults' = faults + 1
        /\ inbox' \subseteq inbox
    BY <1>2 DEF TypeOK, WebhookTypeOK, Redis, KeyExpires, RedisRestarts, Fault
  <2>2. ASSUME NEW m \in Messages
        PROVE  delivered'[m] <= faults' + (IF Remembered(m)' THEN 1 ELSE 0)
    BY <1>0, <2>1 DEF DeliveryInv
  <2> QED BY <1>0, <2>1, <2>2 DEF DeliveryInv
<1> QED BY <1>1, <1>2 DEF Environment

LEMMA DeliveryStep == TypeOK /\ DeliveryInv /\ [Next]_vars => DeliveryInv'
<1>1. TypeOK /\ DeliveryInv /\ UNCHANGED vars => DeliveryInv'
  BY DEF vars, consumerVars, redisVars, DeliveryInv, Remembered
<1> QED
  BY <1>1, DeliverySender, DeliveryProcessor, DeliveryEnvironment DEF Next

\* The endpoint takes each message once, and once more at most for each fault: no
\* number of schedulers, copies and retries alone makes it take a message twice.
THEOREM DeliveriesBounded == Spec => []DeliveriesPaidByFaults
<1>1. TypeOK /\ DeliveryInv => DeliveriesPaidByFaults
  BY DEF TypeOK, WebhookTypeOK, DeliveryInv, DeliveriesPaidByFaults
<1> QED
  BY TypeCorrect, DeliveryInit, DeliveryStep, <1>1, PTL DEF Spec

\* While the inbox knows a message, no step sends it.
THEOREM RememberedIsNotResent == Spec => NeverResentWhileRemembered
<1>1. TypeOK /\ DeliveryInv /\ [Next]_vars
        => [\A m \in inbox : delivered'[m] = delivered[m]]_vars
  <2> SUFFICES ASSUME TypeOK, DeliveryInv, Next, NEW m \in inbox
               PROVE  delivered'[m] = delivered[m]
    BY DEF vars
  <2>1. CASE CallWebhook
    BY <2>1 DEF TypeOK, RedisTypeOK, WebhookTypeOK, CallWebhook, SendMessage, Deliver,
           DeliveryInv
  <2>2. CASE Processor /\ ~CallWebhook
    BY <2>2 DEF Processor, ProcessorStep, ConsumerStep, MonitorStep, Receive, CheckInbox,
           GetMessage, StoreID, Mark, WriteStatus, Increment, Reload, RetryLater,
           DeadLetter, Discard, CheckStaleMessages, RecoverDeadLetter, RecoverStatus,
           ProcessorCrash, ProcessorRestart
  <2>3. CASE Sender \/ Environment
    BY <2>3 DEF Sender, Environment
  <2> QED BY <2>1, <2>2, <2>3 DEF Next
<1> QED
  BY TypeCorrect, DeliveryInit, DeliveryStep, <1>1, PTL
     DEF Spec, NeverResentWhileRemembered

-----------------------------------------------------------------------------
(* Records of success. What the consumer is about to record it has delivered. *)

RememberInv ==
  /\ RemembersOnlyDelivered
  /\ pc \in {"storeID", "mark", "sent", "duplicate"} => delivered[cur] > 0

LEMMA RememberInit == Init => RememberInv
  BY DEF Init, RepoInit, RedisInit, ProcessorInit, RememberInv, RemembersOnlyDelivered

\* A step that adds no record and does not bring the consumer to one.
LEMMA RememberFrame ==
  ASSUME TypeOK, RememberInv, delivered' = delivered,
         inbox' \subseteq inbox, webhookIDs' \subseteq webhookIDs,
         \A m \in Messages :
           status'[m] \in {"sent", "duplicate"} => status[m] \in {"sent", "duplicate"},
         \/ pc' = pc /\ cur' = cur
         \/ pc' \notin {"storeID", "mark", "sent", "duplicate"}
  PROVE  RememberInv'
  BY DEF RememberInv, RemembersOnlyDelivered

LEMMA RememberSender == TypeOK /\ RememberInv /\ Sender => RememberInv'
<1> SUFFICES ASSUME TypeOK, RememberInv, Sender PROVE RememberInv'
  OBVIOUS
<1>1. UNCHANGED <<pc, cur, delivered, inbox, webhookIDs>>
  BY DEF Sender, consumerVars, redisVars
<1>2. \/ status' = status
      \/ \E m \in Messages : InsertMessage(m) \/ UpdateStatus(m, "processing")
  BY DEF TypeOK, SenderTypeOK, Sender, SenderStep, CreateMessage, SenderRestart,
         StartScheduler, StopScheduler, RunnerStep, ProcessUnsentMessages, PublishNext,
         MarkProcessing, Write, repoVars
<1>3. \A m \in Messages :
        status'[m] \in {"sent", "duplicate"} => status[m] \in {"sent", "duplicate"}
  BY <1>2 DEF TypeOK, RepoTypeOK, InsertMessage, UpdateStatus, Stored
<1> QED BY <1>1, <1>3, RememberFrame

LEMMA RememberConsumer == TypeOK /\ RememberInv /\ ConsumerStep => RememberInv'
<1> SUFFICES ASSUME TypeOK, RememberInv, ConsumerStep PROVE RememberInv'
  OBVIOUS
<1>0. /\ delivered \in [Messages -> Nat] /\ inbox \subseteq Messages
      /\ status \in [Messages -> Statuses \cup {"absent", "dropped"}]
  BY DEF TypeOK, WebhookTypeOK, RedisTypeOK, RepoTypeOK
<1>1. CASE CheckInbox
  <2>1. UNCHANGED <<status, delivered, inbox, webhookIDs>>
    BY <1>1 DEF CheckInbox, repoVars, redisVars
  <2>2. pc' = "duplicate" /\ cur' = cur => delivered[cur] > 0
    BY <1>0, <1>1 DEF CheckInbox, IsProcessed, Goto, Return, RememberInv,
           RemembersOnlyDelivered
  <2>3. \/ pc' = "duplicate" /\ cur' = cur
        \/ pc' \notin {"storeID", "mark", "sent", "duplicate"}
    BY <1>1 DEF CheckInbox, Goto, Return
  <2> QED BY <2>1, <2>2, <2>3 DEF RememberInv, RemembersOnlyDelivered
<1>2. CASE CallWebhook
  <2>1. /\ cur \in Messages /\ pc = "send"
        /\ UNCHANGED <<status, inbox, webhookIDs, cur>>
    BY <1>2 DEF TypeOK, ProcessorTypeOK, CallWebhook, SendMessage, Goto, repoVars,
           redisVars
  <2>2. \A m \in Messages : delivered'[m] >= delivered[m] /\ delivered'[m] \in Nat
    BY <1>0, <1>2, <2>1 DEF CallWebhook, SendMessage, Deliver
  <2>3. pc' \in {"storeID", "mark", "sent", "duplicate"} => delivered'[cur] > 0
    BY <1>0, <1>2, <2>1 DEF CallWebhook, SendMessage, Deliver, Goto
  <2> QED BY <1>0, <2>1, <2>2, <2>3 DEF RememberInv, RemembersOnlyDelivered
<1>3. CASE StoreID \/ Mark
  <2>1. cur \in Messages /\ delivered[cur] > 0
    BY <1>3 DEF TypeOK, ProcessorTypeOK, StoreID, Mark, RememberInv
  <2>2. /\ UNCHANGED <<status, delivered>>
        /\ inbox' \subseteq inbox \cup {cur} /\ webhookIDs' \subseteq webhookIDs \cup {cur}
    BY <1>3 DEF StoreID, Mark, Write, StoreWebhookMessageID, MarkAsProcessed, repoVars,
           redisVars
  <2>3. cur' = cur \/ pc' \notin {"storeID", "mark", "sent", "duplicate"}
    BY <1>3 DEF StoreID, Mark, Write, Goto, Return
  <2> QED BY <2>1, <2>2, <2>3 DEF RememberInv, RemembersOnlyDelivered
<1>4. CASE WriteStatus
  <2>1. /\ cur \in Messages /\ UNCHANGED <<delivered, inbox, webhookIDs>>
        /\ pc' \notin {"storeID", "mark", "sent", "duplicate"}
    BY <1>4 DEF TypeOK, ProcessorTypeOK, WriteStatus, StatusAt, Write, Goto, Return,
           redisVars
  <2>2. StatusAt[pc] \in {"sent", "duplicate"} => delivered[cur] > 0
    BY <1>4 DEF WriteStatus, StatusAt, RememberInv
  <2>3. \A m \in Messages : status'[m] = status[m] \/ (m = cur /\ status'[m] = StatusAt[pc])
    BY <1>0, <1>4, <2>1 DEF WriteStatus, Write, UpdateStatus, repoVars
  <2> QED BY <2>1, <2>2, <2>3 DEF RememberInv, RemembersOnlyDelivered
<1>5. CASE Receive \/ GetMessage \/ Increment \/ Reload \/ RetryLater \/ DeadLetter
           \/ Discard
  <2>1. UNCHANGED <<status, delivered, inbox, webhookIDs>>
    BY <1>5 DEF Receive, GetMessage, Increment, Reload, RetryLater, DeadLetter, Discard,
           Write, IncrementRetryCount, repoVars, redisVars
  <2>2. pc' \notin {"storeID", "mark", "sent", "duplicate"}
    BY <1>5 DEF Receive, GetMessage, Increment, Reload, RetryLater, DeadLetter, Discard,
           Write, MoveToRetryQueue, MoveToDeadLetter, Publish, Goto, Return, Die
  <2> QED BY <2>1, <2>2, RememberFrame
<1> QED
  BY <1>1, <1>2, <1>3, <1>4, <1>5 DEF ConsumerStep

LEMMA RememberProcessor == TypeOK /\ RememberInv /\ Processor => RememberInv'
<1> SUFFICES ASSUME TypeOK, RememberInv, Processor PROVE RememberInv'
  OBVIOUS
<1>1. CASE MonitorStep \/ ProcessorCrash \/ ProcessorRestart
  <2>1. UNCHANGED <<delivered, inbox, webhookIDs>>
    BY <1>1 DEF MonitorStep, CheckStaleMessages, RecoverDeadLetter, RecoverStatus,
           ProcessorCrash, ProcessorRestart, redisVars
  <2>2. status' = status \/ (failing \in Messages /\ UpdateStatus(failing, "failed"))
    BY <1>1 DEF TypeOK, ProcessorTypeOK, MonitorStep, CheckStaleMessages,
           RecoverDeadLetter, RecoverStatus, Write, ProcessorCrash, ProcessorRestart, repoVars
  <2>3. \A m \in Messages :
          status'[m] \in {"sent", "duplicate"} => status[m] \in {"sent", "duplicate"}
    BY <2>2 DEF TypeOK, RepoTypeOK, UpdateStatus
  <2>4. \/ pc' = pc /\ cur' = cur
        \/ pc' \notin {"storeID", "mark", "sent", "duplicate"}
    BY <1>1 DEF MonitorStep, CheckStaleMessages, RecoverDeadLetter, RecoverStatus,
           ProcessorCrash, ProcessorRestart, Die, consumerVars
  <2> QED BY <2>1, <2>3, <2>4, RememberFrame
<1> QED
  BY <1>1, RememberConsumer DEF Processor, ProcessorStep

LEMMA RememberEnvironment == TypeOK /\ RememberInv /\ Environment => RememberInv'
<1> SUFFICES ASSUME TypeOK, RememberInv, Environment PROVE RememberInv'
  OBVIOUS
<1>1. UNCHANGED <<pc, cur, delivered>>
  BY DEF Environment, consumerVars
<1>2. inbox' \subseteq inbox /\ webhookIDs' \subseteq webhookIDs
  BY DEF Environment, MongoDB, RabbitMQ, Redis, KeyExpires, RedisRestarts, redisVars
<1>3. \A m \in Messages :
        status'[m] \in {"sent", "duplicate"} => status[m] \in {"sent", "duplicate"}
  BY DEF TypeOK, RepoTypeOK, Environment, MongoDB, RabbitMQ, Redis, TimePasses,
         DropCollection, repoVars
<1> QED BY <1>1, <1>2, <1>3, RememberFrame

\* Nothing in MongoDB or Redis says that a message was delivered when it was not.
THEOREM RecordsAreTrue == Spec => []RemembersOnlyDelivered
<1>1. TypeOK /\ RememberInv /\ UNCHANGED vars => RememberInv'
  BY DEF vars, repoVars, redisVars, consumerVars, RememberInv, RemembersOnlyDelivered
<1>2. TypeOK /\ RememberInv /\ [Next]_vars => RememberInv'
  BY <1>1, RememberSender, RememberProcessor, RememberEnvironment DEF Next
<1>3. RememberInv => RemembersOnlyDelivered
  BY DEF RememberInv
<1> QED
  BY TypeCorrect, RememberInit, <1>2, <1>3, PTL DEF Spec

-----------------------------------------------------------------------------
(* Dead letters. Both goroutines publish the dead letter before they write the *)
(* status, and the publication works because the processor's channel is open:  *)
(* only a lost connection, or a Nack after a failed lookup, can close it.      *)

Undisturbed == Faults \cap {"broker", "lookup", "restart"} = {}

DeadLetterInv ==
  Undisturbed =>
    /\ channel["processor"] = "open"
    /\ \A m \in Messages : status[m] = "failed" => dlq[m] > 0
    /\ pc = "failed" => dlq[cur] > 0
    /\ failing # None => dlq[failing] > 0

LEMMA DeadLetterInit == Init => DeadLetterInv
  BY DEF Init, RepoInit, QueueInit, Services, ProcessorInit, DeadLetterInv

\* A step that fails no message and brings neither goroutine to that point.
LEMMA DeadLetterFrame ==
  ASSUME TypeOK, DeadLetterInv,
         Undisturbed => channel'["processor"] = "open",
         Undisturbed => \A b \in Bodies : dlq'[b] >= dlq[b] /\ dlq'[b] \in Nat,
         \A m \in Messages : status'[m] = "failed" => status[m] = "failed",
         (pc' = pc /\ cur' = cur) \/ pc' # "failed",
         failing' \in {failing, None}
  PROVE  DeadLetterInv'
<1>1. Undisturbed => \A m \in Messages : dlq[m] > 0 => dlq'[m] > 0
  BY DEF TypeOK, QueueTypeOK, Bodies
<1>2. pc = "failed" => cur \in Messages
  BY DEF TypeOK, ProcessorTypeOK
<1>3. failing \in Messages \cup {None}
  BY DEF TypeOK, ProcessorTypeOK
<1> QED BY <1>1, <1>2, <1>3 DEF DeadLetterInv

LEMMA DeadLetterSender == TypeOK /\ DeadLetterInv /\ Sender => DeadLetterInv'
<1> SUFFICES ASSUME TypeOK, DeadLetterInv, Sender PROVE DeadLetterInv'
  OBVIOUS
<1>1. UNCHANGED <<pc, cur, failing>>
  BY DEF Sender, consumerVars, monitorVars
<1>2. channel'["processor"] = channel["processor"] /\ dlq' = dlq
  BY DEF TypeOK, QueueTypeOK, Services, Sender, SenderStep, CreateMessage, SenderRestart,
         StartScheduler, StopScheduler, RunnerStep, ProcessUnsentMessages, PublishNext,
         PublishMessage, Publish, MarkProcessing, OpenChannel, queues
<1>3. \/ status' = status
      \/ \E m \in Messages : InsertMessage(m) \/ UpdateStatus(m, "processing")
  BY DEF TypeOK, SenderTypeOK, Sender, SenderStep, CreateMessage, SenderRestart,
         StartScheduler, StopScheduler, RunnerStep, ProcessUnsentMessages, PublishNext,
         MarkProcessing, Write, repoVars
<1>4. \A m \in Messages : status'[m] = "failed" => status[m] = "failed"
  BY <1>3 DEF TypeOK, RepoTypeOK, InsertMessage, UpdateStatus
<1>5. \A b \in Bodies : dlq'[b] >= dlq[b] /\ dlq'[b] \in Nat
  BY <1>2 DEF TypeOK, QueueTypeOK
<1>6. Undisturbed => channel'["processor"] = "open"
  BY <1>2 DEF DeadLetterInv
<1> QED BY <1>1, <1>4, <1>5, <1>6, DeadLetterFrame

LEMMA DeadLetterConsumer == TypeOK /\ DeadLetterInv /\ ConsumerStep => DeadLetterInv'
<1> SUFFICES ASSUME TypeOK, DeadLetterInv, ConsumerStep PROVE DeadLetterInv'
  OBVIOUS
<1>0. /\ dlq \in [Bodies -> Nat] /\ status \in [Messages -> Statuses \cup {"absent", "dropped"}]
      /\ Messages \subseteq Bodies
  BY DEF TypeOK, QueueTypeOK, RepoTypeOK, Bodies
<1>1. CASE CheckInbox \/ GetMessage
  <2>1. Undisturbed => ~Fault("lookup") /\ channel["processor"] = "open"
    BY DEF Undisturbed, Fault, DeadLetterInv
  <2>2. Undisturbed => channel'["processor"] = "open"
    BY <1>1, <2>1 DEF CheckInbox, GetMessage
  <2>3. status' = status /\ dlq' = dlq
    BY <1>1 DEF CheckInbox, GetMessage, Nack, queues, repoVars
  <2>4. pc' # "failed" /\ failing' \in {failing, None}
    BY <1>1 DEF CheckInbox, GetMessage, Goto, Return, Die, monitorVars
  <2>5. \A b \in Bodies : dlq'[b] >= dlq[b] /\ dlq'[b] \in Nat
    BY <1>0, <2>3
  <2>6. \A m \in Messages : status'[m] = "failed" => status[m] = "failed"
    BY <2>3
  <2> QED BY <2>2, <2>4, <2>5, <2>6, DeadLetterFrame
<1>2. CASE DeadLetter
  <2>1. cur \in Messages
    BY <1>2 DEF TypeOK, ProcessorTypeOK, DeadLetter
  <2>2. UNCHANGED <<channel, status, failing>> /\ pc' = "failed" /\ cur' = cur
    BY <1>2 DEF DeadLetter, MoveToDeadLetter, Publish, Goto, repoVars, monitorVars
  <2>3. Undisturbed => dlq' = Plus(dlq, cur)
    BY <1>2 DEF DeadLetter, MoveToDeadLetter, Publish, DeadLetterInv
  <2>4. failing \in Messages \cup {None}
    BY DEF TypeOK, ProcessorTypeOK
  <2> QED
    BY <1>0, <2>1, <2>2, <2>3, <2>4 DEF Plus, DeadLetterInv
<1>3. CASE WriteStatus
  <2>1. /\ cur \in Messages /\ UNCHANGED <<dlq, channel, failing>> /\ pc' # "failed"
    BY <1>3 DEF TypeOK, ProcessorTypeOK, WriteStatus, StatusAt, Write, Goto, Return, queues,
           monitorVars
  <2>2. \A m \in Messages : status'[m] = status[m] \/ (m = cur /\ status'[m] = StatusAt[pc])
    BY <1>0, <1>3, <2>1 DEF WriteStatus, Write, UpdateStatus, repoVars
  <2>3. StatusAt[pc] = "failed" => pc = "failed"
    BY <1>3 DEF WriteStatus, StatusAt
  <2> QED BY <2>1, <2>2, <2>3 DEF DeadLetterInv
<1>4. CASE Receive \/ CallWebhook \/ StoreID \/ Mark \/ Increment \/ Reload \/ RetryLater
           \/ Discard
  <2>1. channel' = channel /\ status' = status
    BY <1>4 DEF Receive, TakeDelivery, CallWebhook, StoreID, Mark, Increment, Reload,
           RetryLater, Discard, Write, IncrementRetryCount, MoveToRetryQueue,
           MoveToDeadLetter, Publish, repoVars
  <2>2. dlq' = dlq \/ (Discard /\ dlq' = Plus(dlq, cur))
    BY <1>4 DEF Receive, TakeDelivery, CallWebhook, StoreID, Mark, Increment, Reload,
           RetryLater, Discard, MoveToRetryQueue, MoveToDeadLetter, Publish, queues
  <2>3. pc' # "failed" /\ failing' \in {failing, None}
    BY <1>4 DEF Receive, CallWebhook, SendMessage, StoreID, Mark, Increment, Reload,
           RetryLater, Discard, Write, MoveToRetryQueue, MoveToDeadLetter, Publish, Goto,
           Return, Die, monitorVars
  <2>4. \A b \in Bodies : dlq'[b] >= dlq[b] /\ dlq'[b] \in Nat
    BY <1>0, <2>2 DEF Plus
  <2>5. Undisturbed => channel'["processor"] = "open"
    BY <2>1 DEF DeadLetterInv
  <2>6. \A m \in Messages : status'[m] = "failed" => status[m] = "failed"
    BY <2>1
  <2> QED BY <2>3, <2>4, <2>5, <2>6, DeadLetterFrame
<1> QED
  BY <1>1, <1>2, <1>3, <1>4 DEF ConsumerStep

LEMMA DeadLetterProcessor == TypeOK /\ DeadLetterInv /\ Processor => DeadLetterInv'
<1> SUFFICES ASSUME TypeOK, DeadLetterInv, Processor PROVE DeadLetterInv'
  OBVIOUS
<1>0. /\ dlq \in [Bodies -> Nat] /\ status \in [Messages -> Statuses \cup {"absent", "dropped"}]
      /\ Messages \subseteq Bodies
  BY DEF TypeOK, QueueTypeOK, RepoTypeOK, Bodies
<1>1. CASE RecoverDeadLetter
  <2>1. UNCHANGED <<pc, cur, status, channel>>
    BY <1>1 DEF RecoverDeadLetter, MoveToDeadLetter, Publish, repoVars, consumerVars
  <2>2. Undisturbed => \E m \in Messages : failing' = m /\ dlq' = Plus(dlq, m)
    BY <1>1 DEF TypeOK, ProcessorTypeOK, RecoverDeadLetter, MoveToDeadLetter, Publish,
           DeadLetterInv
  <2>3. pc = "failed" => cur \in Messages
    BY DEF TypeOK, ProcessorTypeOK
  <2>4. ASSUME Undisturbed
        PROVE  /\ channel'["processor"] = "open" /\ failing' \in Messages
               /\ dlq'[failing'] > 0
               /\ \A m \in Messages : dlq[m] > 0 => dlq'[m] > 0
    BY <1>0, <2>1, <2>2, <2>4 DEF Plus, DeadLetterInv
  <2> QED BY <2>1, <2>3, <2>4 DEF DeadLetterInv
<1>2. CASE RecoverStatus
  <2>1. UNCHANGED <<pc, cur, dlq, channel>> /\ failing' = None /\ failing # None
    BY <1>2 DEF TypeOK, ProcessorTypeOK, RecoverStatus, Write, queues, consumerVars
  <2>2. \A m \in Messages : status'[m] = status[m] \/ m = failing
    BY <1>0, <1>2 DEF RecoverStatus, Write, UpdateStatus, repoVars
  <2> QED BY <2>1, <2>2 DEF DeadLetterInv
<1>3. CASE CheckStaleMessages \/ ProcessorCrash \/ ProcessorRestart
  <2>1. status' = status /\ dlq' = dlq
    BY <1>3 DEF CheckStaleMessages, ProcessorCrash, ProcessorRestart, OpenChannel,
           repoVars, queues
  <2>2. channel'["processor"] \in {channel["processor"], "open"}
    BY <1>3 DEF TypeOK, QueueTypeOK, Services, CheckStaleMessages, ProcessorCrash,
           ProcessorRestart, OpenChannel
  <2>3. (pc' = pc /\ cur' = cur) \/ pc' # "failed"
    BY <1>3 DEF CheckStaleMessages, ProcessorCrash, ProcessorRestart, Die, consumerVars
  <2>4. failing' \in {failing, None}
    BY <1>3 DEF CheckStaleMessages, ProcessorCrash, ProcessorRestart, Die, monitorVars
  <2>5. \A b \in Bodies : dlq'[b] >= dlq[b] /\ dlq'[b] \in Nat
    BY <1>0, <2>1
  <2>6. Undisturbed => channel'["processor"] = "open"
    BY <2>2 DEF DeadLetterInv
  <2>7. \A m \in Messages : status'[m] = "failed" => status[m] = "failed"
    BY <2>1
  <2> QED BY <2>3, <2>4, <2>5, <2>6, <2>7, DeadLetterFrame
<1> QED
  BY <1>1, <1>2, <1>3, DeadLetterConsumer DEF Processor, ProcessorStep, MonitorStep

LEMMA DeadLetterEnvironment == TypeOK /\ DeadLetterInv /\ Environment => DeadLetterInv'
<1> SUFFICES ASSUME TypeOK, DeadLetterInv, Environment PROVE DeadLetterInv'
  OBVIOUS
<1>1. UNCHANGED <<pc, cur, failing>>
  BY DEF Environment, consumerVars, monitorVars
<1>0. Undisturbed => ~Fault("broker") /\ ~Fault("restart")
  BY DEF Undisturbed, Fault
<1>2. \A m \in Messages : status'[m] = "failed" => status[m] = "failed"
  BY DEF TypeOK, RepoTypeOK, Environment, MongoDB, RabbitMQ, Redis, TimePasses,
         DropCollection, repoVars
<1>3. ASSUME Undisturbed PROVE channel'["processor"] = "open"
  <2>1. ~Fault("broker") /\ ~Fault("restart") /\ channel["processor"] = "open"
    BY <1>0, <1>3 DEF DeadLetterInv
  <2> QED
    BY <2>1 DEF TypeOK, QueueTypeOK, Services, Environment, MongoDB, RabbitMQ, Redis,
           RetryExpires, ForeignPublish, ChannelCloses
<1>4. ASSUME Undisturbed
      PROVE  \A b \in Bodies : dlq'[b] >= dlq[b] /\ dlq'[b] \in Nat
  <2>1. dlq' = dlq
    BY <1>0, <1>4 DEF Environment, MongoDB, RabbitMQ, Redis, RetryExpires, ForeignPublish,
           ConnectionLost, ChannelCloses, queues
  <2> QED BY <2>1 DEF TypeOK, QueueTypeOK
<1> QED BY <1>1, <1>2, <1>3, <1>4, DeadLetterFrame

\* When neither connections nor lookups fail and no broker restarts, every message with the status failed
\* has a dead letter, whichever goroutine gave it up.
THEOREM FailedIsDeadLettered == Spec => []FailedMeansDeadLettered
<1>1. TypeOK /\ DeadLetterInv /\ UNCHANGED vars => DeadLetterInv'
  BY DEF vars, repoVars, queues, consumerVars, monitorVars, DeadLetterInv
<1>2. TypeOK /\ DeadLetterInv /\ [Next]_vars => DeadLetterInv'
  BY <1>1, DeadLetterSender, DeadLetterProcessor, DeadLetterEnvironment DEF Next
<1>3. DeadLetterInv => FailedMeansDeadLettered
  BY DEF DeadLetterInv, Undisturbed, FailedMeansDeadLettered
<1> QED
  BY TypeCorrect, DeadLetterInit, <1>2, <1>3, PTL DEF Spec

-----------------------------------------------------------------------------
(* Confirmed deliveries. The inbox has the key before the status is written,   *)
(* and the consumer goes on with a message only when the inbox does not know   *)
(* it: nobody but the consumer could put it there meanwhile.                   *)

RedisKeeps == Faults \cap {"restart", "ttl"} = {}

Onward == {"getByID", "send", "increment", "processing", "reload", "retry",
           "deadLetter", "failed"}

InboxInv ==
  /\ ConfirmedIsRemembered
  /\ RedisKeeps /\ pc \in {"sent", "duplicate"} => cur \in inbox
  /\ pc \in Onward => cur \notin inbox

LEMMA InboxInit == Init => InboxInv
  BY DEF Init, RepoInit, ProcessorInit, InboxInv, ConfirmedIsRemembered, Onward

\* A step that confirms nothing, forgets nothing it must keep, and leaves the consumer
\* where it is or brings it where nothing is claimed.
LEMMA InboxFrame ==
  ASSUME InboxInv, inbox' \subseteq inbox, RedisKeeps => inbox' = inbox,
         \A m \in Messages :
           status'[m] \in {"sent", "duplicate"} => status[m] \in {"sent", "duplicate"},
         \/ UNCHANGED consumerVars
         \/ pc \in Onward /\ cur' = cur /\ pc' \in Onward
         \/ pc' \notin Onward \cup {"sent", "duplicate"}
  PROVE  InboxInv'
  BY DEF InboxInv, ConfirmedIsRemembered, RedisKeeps, Onward, consumerVars

LEMMA InboxSender == TypeOK /\ InboxInv /\ Sender => InboxInv'
<1> SUFFICES ASSUME TypeOK, InboxInv, Sender PROVE InboxInv'
  OBVIOUS
<1>1. UNCHANGED consumerVars /\ inbox' = inbox
  BY DEF Sender, redisVars
<1>2. \/ status' = status
      \/ \E m \in Messages : InsertMessage(m) \/ UpdateStatus(m, "processing")
  BY DEF TypeOK, SenderTypeOK, Sender, SenderStep, CreateMessage, SenderRestart,
         StartScheduler, StopScheduler, RunnerStep, ProcessUnsentMessages, PublishNext,
         MarkProcessing, Write, repoVars
<1>3. \A m \in Messages :
        status'[m] \in {"sent", "duplicate"} => status[m] \in {"sent", "duplicate"}
  BY <1>2 DEF TypeOK, RepoTypeOK, InsertMessage, UpdateStatus, Stored
<1> QED BY <1>1, <1>3, InboxFrame

LEMMA InboxConsumer == TypeOK /\ InboxInv /\ ConsumerStep => InboxInv'
<1> SUFFICES ASSUME TypeOK, InboxInv, ConsumerStep PROVE InboxInv'
  OBVIOUS
<1>0. status \in [Messages -> Statuses \cup {"absent", "dropped"}]
  BY DEF TypeOK, RepoTypeOK
<1>1. CASE CheckInbox
  BY <1>1 DEF CheckInbox, IsProcessed, Goto, Return, Onward, InboxInv,
         ConfirmedIsRemembered, repoVars, redisVars
<1>2. CASE Mark
  <2>1. CASE MarkAsProcessed(cur) /\ UNCHANGED repoVars
    BY <1>2, <2>1 DEF Mark, Write, MarkAsProcessed, Goto, Return, Onward, InboxInv,
           ConfirmedIsRemembered, repoVars
  <2>2. CASE UNCHANGED redisVars /\ UNCHANGED repoVars /\ Return
    BY <2>2, InboxFrame DEF Return, Onward, repoVars, redisVars
  <2> QED BY <1>2, <2>1, <2>2 DEF Mark, Write
<1>3. CASE WriteStatus
  <2>1. /\ cur \in Messages /\ inbox' = inbox
        /\ \/ pc = "processing" /\ pc' = "reload" /\ cur' = cur
           \/ pc' = "idle"
    BY <1>3 DEF TypeOK, ProcessorTypeOK, WriteStatus, StatusAt, Write, Goto, Return,
           redisVars
  <2>2. \A m \in Messages : status'[m] = status[m] \/ (m = cur /\ status'[m] = StatusAt[pc])
    BY <1>0, <1>3, <2>1 DEF WriteStatus, Write, UpdateStatus, repoVars
  <2>3. StatusAt[pc] \in {"sent", "duplicate"} => pc \in {"sent", "duplicate"}
    BY <1>3 DEF WriteStatus, StatusAt
  <2> QED
    BY <2>1, <2>2, <2>3 DEF InboxInv, ConfirmedIsRemembered, RedisKeeps, Onward
<1>4. CASE Receive \/ GetMessage \/ CallWebhook \/ StoreID \/ Increment \/ Reload
           \/ RetryLater \/ DeadLetter \/ Discard
  <2>1. status' = status /\ inbox' = inbox
    BY <1>4 DEF Receive, GetMessage, CallWebhook, StoreID, Increment, Reload, RetryLater,
           DeadLetter, Discard, Write, IncrementRetryCount, StoreWebhookMessageID, repoVars,
           redisVars
  <2>2. \/ pc \in Onward /\ cur' = cur /\ pc' \in Onward
        \/ pc' \notin Onward \cup {"sent", "duplicate"}
    BY <1>4 DEF Receive, GetMessage, CallWebhook, SendMessage, StoreID, Increment, Reload,
           RetryLater, DeadLetter, Discard, Write, MoveToRetryQueue, MoveToDeadLetter,
           Publish, Goto, Return, Die, Onward
  <2> QED BY <2>1, <2>2, InboxFrame
<1> QED
  BY <1>1, <1>2, <1>3, <1>4 DEF ConsumerStep

LEMMA InboxProcessor == TypeOK /\ InboxInv /\ Processor => InboxInv'
<1> SUFFICES ASSUME TypeOK, InboxInv, Processor PROVE InboxInv'
  OBVIOUS
<1>1. CASE MonitorStep \/ ProcessorCrash \/ ProcessorRestart
  <2>1. inbox' = inbox
    BY <1>1 DEF MonitorStep, CheckStaleMessages, RecoverDeadLetter, RecoverStatus,
           ProcessorCrash, ProcessorRestart, redisVars
  <2>2. status' = status \/ (failing \in Messages /\ UpdateStatus(failing, "failed"))
    BY <1>1 DEF TypeOK, ProcessorTypeOK, MonitorStep, CheckStaleMessages,
           RecoverDeadLetter, RecoverStatus, Write, ProcessorCrash, ProcessorRestart, repoVars
  <2>3. \A m \in Messages :
          status'[m] \in {"sent", "duplicate"} => status[m] \in {"sent", "duplicate"}
    BY <2>2 DEF TypeOK, RepoTypeOK, UpdateStatus
  <2>4. UNCHANGED consumerVars \/ pc' \notin Onward \cup {"sent", "duplicate"}
    BY <1>1 DEF MonitorStep, CheckStaleMessages, RecoverDeadLetter, RecoverStatus,
           ProcessorCrash, ProcessorRestart, Die, Onward
  <2> QED BY <2>1, <2>3, <2>4, InboxFrame
<1> QED
  BY <1>1, InboxConsumer DEF Processor, ProcessorStep

LEMMA InboxEnvironment == TypeOK /\ InboxInv /\ Environment => InboxInv'
<1> SUFFICES ASSUME TypeOK, InboxInv, Environment PROVE InboxInv'
  OBVIOUS
<1>1. UNCHANGED consumerVars
  BY DEF Environment
<1>2. inbox' \subseteq inbox /\ (RedisKeeps => inbox' = inbox)
  BY DEF Environment, MongoDB, RabbitMQ, Redis, KeyExpires, RedisRestarts, Fault,
         RedisKeeps, redisVars
<1>3. \A m \in Messages :
        status'[m] \in {"sent", "duplicate"} => status[m] \in {"sent", "duplicate"}
  BY DEF TypeOK, RepoTypeOK, Environment, MongoDB, RabbitMQ, Redis, TimePasses,
         DropCollection, repoVars
<1> QED BY <1>1, <1>2, <1>3, InboxFrame

LEMMA InboxStep == TypeOK /\ InboxInv /\ [Next]_vars => InboxInv'
<1>1. InboxInv /\ UNCHANGED vars => InboxInv'
  BY DEF vars, repoVars, redisVars, consumerVars, InboxInv, ConfirmedIsRemembered, Onward
<1> QED
  BY <1>1, InboxSender, InboxProcessor, InboxEnvironment DEF Next

\* While Redis keeps its keys, every delivery a client sees confirmed is in the inbox,
\* after any other faults and however late a status is written.
THEOREM ConfirmedInInbox == Spec => []ConfirmedIsRemembered
<1>1. InboxInv => ConfirmedIsRemembered
  BY DEF InboxInv
<1> QED
  BY TypeCorrect, InboxInit, InboxStep, <1>1, PTL DEF Spec

\* A step of the consumer leaves a message in the inbox as it is, except that it may
\* confirm it.
LEMMA ConsumerLeavesRemembered ==
  ASSUME TypeOK, InboxInv, RedisKeeps, Processor, consumerVars' # consumerVars,
         NEW m \in Messages, status[m] \in {"sent", "duplicate"}
  PROVE  /\ status'[m] \in {"sent", "duplicate"}
         /\ UNCHANGED <<retryCount[m], retryQ[m], dlq[m]>>
<1>0. /\ status \in [Messages -> Statuses \cup {"absent", "dropped"}]
      /\ retryQ \in [Bodies -> Nat] /\ dlq \in [Bodies -> Nat] /\ m \in Bodies
      /\ retryCount \in [Messages -> Nat]
      /\ m \notin Malformed \cup InvalidIDs
  BY DEF TypeOK, RepoTypeOK, QueueTypeOK, Bodies
<1>1. m \in inbox
  BY DEF InboxInv, ConfirmedIsRemembered, RedisKeeps
<1>2. pc \in Onward => cur # m
  BY <1>1 DEF InboxInv
<1>3. CASE ProcessorCrash \/ ProcessorRestart
  BY <1>3 DEF ProcessorCrash, ProcessorRestart, OpenChannel, repoVars, queues
<1>4. CASE MonitorStep
  BY <1>4 DEF MonitorStep, CheckStaleMessages, RecoverDeadLetter, RecoverStatus
<1>5. CASE WriteStatus
  <2>1. StatusAt[pc] \in {"sent", "duplicate"} \/ cur # m
    BY <1>2, <1>5 DEF WriteStatus, StatusAt, Onward
  <2> QED
    BY <1>0, <1>5, <2>1 DEF WriteStatus, Write, UpdateStatus, repoVars, queues
<1>6. CASE Increment
  BY <1>0, <1>2, <1>6 DEF Increment, Write, IncrementRetryCount, Onward, repoVars, queues
<1>7. CASE RetryLater \/ DeadLetter
  BY <1>0, <1>2, <1>7 DEF RetryLater, DeadLetter, MoveToRetryQueue, MoveToDeadLetter,
         Publish, Plus, Onward, repoVars, queues
<1>8. CASE Discard
  <2>1. cur # m
    BY <1>0, <1>8 DEF TypeOK, ProcessorTypeOK, Discard, Calls
  <2> QED BY <1>0, <1>8, <2>1 DEF Discard, MoveToDeadLetter, Publish, Plus, repoVars, queues
<1>9. CASE Receive \/ CheckInbox \/ GetMessage \/ CallWebhook \/ StoreID \/ Mark \/ Reload
  BY <1>9 DEF Receive, TakeDelivery, CheckInbox, Nack, GetMessage, CallWebhook, StoreID,
         Mark, Reload, repoVars, queues
<1> QED
  BY <1>3, <1>4, <1>5, <1>6, <1>7, <1>8, <1>9 DEF Processor, ProcessorStep, ConsumerStep

\* While Redis keeps its keys, no step of the consumer undoes a confirmed delivery,
\* counts an attempt of it, retries it or gives it up.
THEOREM DeliveriesKept == Spec => ConsumerKeepsDeliveries
<1>1. TypeOK /\ InboxInv /\ [Next]_vars
        => [Faults \cap {"restart", "ttl"} = {} /\ consumerVars' # consumerVars =>
              \A m \in Messages :
                status[m] \in {"sent", "duplicate"} =>
                  /\ status'[m] \in {"sent", "duplicate"}
                  /\ <<retryCount[m], retryQ[m], dlq[m]>>'
                       = <<retryCount[m], retryQ[m], dlq[m]>>]_vars
  <2> SUFFICES ASSUME TypeOK, InboxInv, Next, RedisKeeps, consumerVars' # consumerVars,
                      NEW m \in Messages, status[m] \in {"sent", "duplicate"}
               PROVE  /\ status'[m] \in {"sent", "duplicate"}
                      /\ <<retryCount[m], retryQ[m], dlq[m]>>'
                           = <<retryCount[m], retryQ[m], dlq[m]>>
    BY DEF vars, RedisKeeps
  <2>1. Processor
    BY DEF Next, Sender, Environment
  <2> QED BY <2>1, ConsumerLeavesRemembered
<1> QED
  BY TypeCorrect, InboxInit, InboxStep, <1>1, PTL DEF Spec, ConsumerKeepsDeliveries

-----------------------------------------------------------------------------
(* Messages that are done with. Every way back into the system starts from an  *)
(* entry of a queue, from what a goroutine holds, or from a status that is not *)
(* terminal; only faults have other ways.                                       *)

LEMMA SettledMeans ==
  ASSUME TypeOK, NEW m \in Messages, Settled(m)
  PROVE  /\ mainQ[m] = 0 /\ retryQ[m] = 0 /\ unacked[m] = 0 /\ cur # m
         /\ status[m] \in {"sent", "failed", "duplicate"}
<1>1. mainQ[m] \in Nat /\ retryQ[m] \in Nat /\ unacked[m] \in Nat
  BY DEF TypeOK, QueueTypeOK, Bodies
<1>2. status[m] \in {"sent", "failed", "duplicate"}
  BY DEF Settled, Terminal
<1>3. PICK held \in {0, 1} : held = (IF cur = m THEN 1 ELSE 0)
  OBVIOUS
<1>4. mainQ[m] + retryQ[m] + unacked[m] + held = 0
  BY <1>3 DEF Settled, InFlight
<1>5. PICK i \in Nat, j \in Nat, k \in Nat : i = mainQ[m] /\ j = retryQ[m] /\ k = unacked[m]
  BY <1>1
<1>6. i + j + k + held = 0
  BY <1>4, <1>5
<1>7. i = 0 /\ j = 0 /\ k = 0 /\ held = 0
  BY <1>6
<1>8. cur # m
  BY <1>3, <1>7
<1> QED BY <1>2, <1>5, <1>7, <1>8

LEMMA SettledAgain ==
  ASSUME NEW m \in Messages, Settled(m), status'[m] = status[m],
         mainQ'[m] = 0, retryQ'[m] = 0, unacked'[m] = 0, cur' # m,
         m \notin found', failing' # m,
         \A r \in Runners : m \notin batch'[r] /\ rcur'[r] # m
  PROVE  Settled(m)'
  BY DEF Settled, InFlight, Terminal

LEMMA SettledSender ==
  ASSUME TypeOK, Sender, NoFault, NEW m \in Messages, Settled(m)
  PROVE  Settled(m)' /\ status'[m] = status[m]
<1>0. /\ mainQ \in [Bodies -> Nat] /\ m \in Bodies
      /\ status \in [Messages -> Statuses \cup {"absent", "dropped"}]
      /\ batch \in [Runners -> SUBSET Messages] /\ rcur \in [Runners -> Messages \cup {None}]
      /\ None \notin Messages
  BY DEF TypeOK, QueueTypeOK, RepoTypeOK, SenderTypeOK, Bodies
<1>1. /\ mainQ[m] = 0 /\ retryQ[m] = 0 /\ unacked[m] = 0 /\ cur # m
      /\ status[m] \in {"sent", "failed", "duplicate"}
  BY SettledMeans
<1>2. m \notin found /\ failing # m /\ \A r \in Runners : m \notin batch[r] /\ rcur[r] # m
  BY DEF Settled
<1>3. cur' = cur /\ found' = found /\ failing' = failing
  BY DEF Sender, consumerVars, monitorVars
<1>4. ~SenderRestart
  BY DEF TypeOK, NoFault, SenderRestart, Fault
<1>5. CASE CreateMessage
  BY <1>0, <1>1, <1>2, <1>3, <1>5, SettledAgain DEF CreateMessage, InsertMessage, queues,
         senderVars
<1>6. ASSUME NEW r \in Runners, StartScheduler(r) \/ StopScheduler(r)
      PROVE  Settled(m)' /\ status'[m] = status[m]
  BY <1>1, <1>2, <1>3, <1>6, SettledAgain DEF StartScheduler, StopScheduler, repoVars, queues
<1>7. ASSUME NEW r \in Runners, ProcessUnsentMessages(r)
      PROVE  Settled(m)' /\ status'[m] = status[m]
  <2>1. PICK S \in FindUnsentMessages(BatchSize) : batch' = [batch EXCEPT ![r] = S]
    BY <1>7 DEF ProcessUnsentMessages
  <2>2. m \notin S
    BY <1>1, <2>1 DEF FindUnsentMessages
  <2> QED
    BY <1>0, <1>1, <1>2, <1>3, <1>7, <2>1, <2>2, SettledAgain
       DEF ProcessUnsentMessages, repoVars, queues
<1>8. ASSUME NEW r \in Runners, PublishNext(r)
      PROVE  Settled(m)' /\ status'[m] = status[m]
  <2>1. PICK n \in batch[r] :
          PublishMessage(n, /\ rcur' = [rcur EXCEPT ![r] = n]
                            /\ rpc' = [rpc EXCEPT ![r] = "update"]
                            /\ UNCHANGED batch,
                            NextInBatch(r, n))
    BY <1>8 DEF PublishNext
  <2>2. n # m /\ n \in Bodies /\ status' = status
    BY <1>0, <1>2, <1>8 DEF PublishNext, repoVars, Bodies
  <2> QED
    BY <1>0, <1>1, <1>2, <1>3, <2>1, <2>2, SettledAgain
       DEF PublishMessage, Publish, NextInBatch, Plus, queues
<1>9. ASSUME NEW r \in Runners, MarkProcessing(r)
      PROVE  Settled(m)' /\ status'[m] = status[m]
  BY <1>0, <1>1, <1>2, <1>3, <1>9, SettledAgain
     DEF MarkProcessing, Write, UpdateStatus, NextInBatch, repoVars, queues
<1> QED
  BY <1>4, <1>5, <1>6, <1>7, <1>8, <1>9 DEF Sender, SenderStep, RunnerStep

LEMMA SettledProcessor ==
  ASSUME TypeOK, Processor, NoFault, NEW m \in Messages, Settled(m)
  PROVE  Settled(m)' /\ status'[m] = status[m]
<1>0. /\ mainQ \in [Bodies -> Nat] /\ retryQ \in [Bodies -> Nat]
      /\ unacked \in [Bodies -> Nat] /\ m \in Bodies
      /\ status \in [Messages -> Statuses \cup {"absent", "dropped"}]
      /\ None \notin Messages
  BY DEF TypeOK, QueueTypeOK, RepoTypeOK, Bodies
<1>1. /\ mainQ[m] = 0 /\ retryQ[m] = 0 /\ unacked[m] = 0 /\ cur # m
      /\ status[m] \in {"sent", "failed", "duplicate"}
  BY SettledMeans
<1>2. m \notin found /\ failing # m /\ \A r \in Runners : m \notin batch[r] /\ rcur[r] # m
  BY DEF Settled
<1>3. batch' = batch /\ rcur' = rcur
  BY DEF Processor, senderVars
<1>4. ~ProcessorCrash
  BY DEF TypeOK, NoFault, ProcessorCrash, Fault
<1>5. CASE Receive
  <2>1. PICK b \in Bodies : TakeDelivery(b) /\ cur' = b
    BY <1>5 DEF Receive
  <2>2. b # m
    BY <1>1, <2>1 DEF TakeDelivery
  <2> QED
    BY <1>0, <1>1, <1>2, <1>3, <1>5, <2>1, <2>2, SettledAgain
       DEF Receive, TakeDelivery, Plus, Minus, repoVars, monitorVars
<1>6. CASE RetryLater \/ DeadLetter \/ Discard
  <2>1. cur' # m /\ mainQ' = mainQ /\ unacked' = unacked /\ retryQ'[m] = retryQ[m]
    BY <1>0, <1>1, <1>6 DEF RetryLater, DeadLetter, Discard, MoveToRetryQueue,
           MoveToDeadLetter, Publish, Plus, Goto, Return, queues
  <2>2. status' = status /\ found' = found /\ failing' = failing
    BY <1>6 DEF RetryLater, DeadLetter, Discard, repoVars, monitorVars
  <2> QED BY <1>1, <1>2, <1>3, <2>1, <2>2, SettledAgain
<1>7. CASE WriteStatus \/ Increment
  <2>1. cur' # m /\ status'[m] = status[m]
    BY <1>0, <1>1, <1>7 DEF WriteStatus, Increment, Write, UpdateStatus,
           IncrementRetryCount, Goto, Return, repoVars
  <2>2. UNCHANGED <<mainQ, retryQ, unacked, found, failing>>
    BY <1>7 DEF WriteStatus, Increment, queues, monitorVars
  <2> QED BY <1>1, <1>2, <1>3, <2>1, <2>2, SettledAgain
<1>8. CASE CheckInbox \/ GetMessage \/ CallWebhook \/ StoreID \/ Mark \/ Reload
  <2>1. cur' # m
    BY <1>0, <1>1, <1>8 DEF CheckInbox, GetMessage, CallWebhook, SendMessage, StoreID,
           Mark, Reload, Write, Goto, Return, Die
  <2>2. UNCHANGED <<mainQ, retryQ, unacked, status>>
    BY <1>8 DEF CheckInbox, GetMessage, CallWebhook, StoreID, Mark, Reload, Nack, queues,
           repoVars
  <2>3. found' \subseteq found /\ failing' # m
    BY <1>0, <1>2, <1>8 DEF CheckInbox, GetMessage, CallWebhook, StoreID, Mark, Reload,
           Die, monitorVars
  <2> QED BY <1>1, <1>2, <1>3, <2>1, <2>2, <2>3, SettledAgain
<1>9. CASE MonitorStep
  <2>1. UNCHANGED <<cur, mainQ, retryQ, unacked>>
    BY <1>9 DEF MonitorStep, CheckStaleMessages, RecoverDeadLetter, RecoverStatus,
           MoveToDeadLetter, Publish, queues, consumerVars
  <2>2. m \notin found' /\ failing' # m
    BY <1>0, <1>1, <1>2, <1>9 DEF MonitorStep, CheckStaleMessages,
           FindStaleProcessingMessages, RecoverDeadLetter, RecoverStatus, MoveToDeadLetter,
           Publish, Write
  <2>3. status'[m] = status[m]
    BY <1>0, <1>2, <1>9 DEF MonitorStep, CheckStaleMessages, RecoverDeadLetter,
           RecoverStatus, Write, UpdateStatus, repoVars
  <2> QED BY <1>1, <1>2, <1>3, <2>1, <2>2, <2>3, SettledAgain
<1>10. CASE ProcessorRestart
  BY <1>0, <1>1, <1>2, <1>3, <1>10, SettledAgain
     DEF ProcessorRestart, OpenChannel, Empty, repoVars, monitorVars
<1> QED
  BY <1>4, <1>5, <1>6, <1>7, <1>8, <1>9, <1>10 DEF Processor, ProcessorStep, ConsumerStep

LEMMA SettledEnvironment ==
  ASSUME TypeOK, Environment, NoFault, NEW m \in Messages, Settled(m)
  PROVE  Settled(m)' /\ status'[m] = status[m]
<1>0. mainQ \in [Bodies -> Nat] /\ retryQ \in [Bodies -> Nat] /\ m \in Bodies
  BY DEF TypeOK, QueueTypeOK, Bodies
<1>1. /\ mainQ[m] = 0 /\ retryQ[m] = 0 /\ unacked[m] = 0 /\ cur # m
  BY SettledMeans
<1>2. m \notin found /\ failing # m /\ \A r \in Runners : m \notin batch[r] /\ rcur[r] # m
  BY DEF Settled
<1>3. UNCHANGED <<cur, found, failing, batch, rcur>>
  BY DEF Environment, consumerVars, monitorVars, senderVars
<1>4. \A kind : ~Fault(kind)
  BY DEF TypeOK, NoFault, Fault
<1>5. status' = status
  BY <1>4 DEF Environment, MongoDB, RabbitMQ, Redis, TimePasses, repoVars
<1>6. mainQ'[m] = 0 /\ retryQ'[m] = 0 /\ unacked'[m] = 0
  BY <1>0, <1>1, <1>4 DEF Environment, MongoDB, RabbitMQ, Redis, RetryExpires, Plus, Minus,
         ChannelCloses, queues
<1> QED BY <1>1, <1>2, <1>3, <1>5, <1>6, SettledAgain

\* Without a fault, a settled message stays settled and keeps its status, for any
\* number of schedulers and messages.
THEOREM SettledIsForGood == Spec => SettledStays
<1>1. TypeOK /\ [Next]_vars
        => [NoFault => \A m \in Messages :
              Settled(m) => Settled(m)' /\ status'[m] = status[m]]_vars
  <2> SUFFICES ASSUME TypeOK, Next, NoFault, NEW m \in Messages, Settled(m)
               PROVE  Settled(m)' /\ status'[m] = status[m]
    BY DEF vars
  <2> QED BY SettledSender, SettledProcessor, SettledEnvironment DEF Next
<1> QED
  BY TypeCorrect, <1>1, PTL DEF Spec, SettledStays
=============================================================================
