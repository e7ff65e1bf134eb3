-------------------------- MODULE PublicationProofs --------------------------
(***************************************************************************)
(* Proofs about the copies the schedulers publish, for every finite set of *)
(* schedulers: how many can be on their way to the consumer, and that one  *)
(* scheduler without faults publishes a message once.                      *)
(***************************************************************************)
EXTENDS ReliableMessagingProofs, FiniteSetTheorems

USE ContractsAssumption, SenderAssumption

-----------------------------------------------------------------------------
(* The number of copies. A publication is foreseen as long as a scheduler holds *)
(* the message in its batch and has not published it: copies and publications   *)
(* that are foreseen never exceed one per scheduler and paid fault. To fetch a  *)
(* message again it must be unsent, that is, each scheduler that published it   *)
(* is still about to update its status, or a fault was paid for the lost update.*)
(* The fault that took the processor's channel pays for the copy it makes of    *)
(* the delivery in hand, and for nothing else as long as the channel is gone.   *)

Open == channel["processor"] = "open"
Paid == faults - (IF Open THEN 0 ELSE 1)
Copies(m) ==
  mainQ[m] + retryQ[m] + unacked[m] + (IF Open /\ cur = m THEN 1 ELSE 0)

Updating(m) == {r \in Runners : rpc[r] = "update" /\ rcur[r] = m}
Holding(m) == {r \in Runners : m \in batch[r] /\ r \notin Updating(m)}

CopiesOf(K, m) ==
  /\ Copies(m) + Cardinality(Holding(m)) <= K * (1 + Paid)
  /\ status[m] = "unsent" => Copies(m) <= K * Paid + Cardinality(Updating(m))
  /\ status[m] = "absent" => Copies(m) = 0 /\ Holding(m) = {} /\ Updating(m) = {}

CopiesInv(K) ==
  /\ ~Open => faults > 0
  /\ K = 0 => cur \notin Messages
  /\ \A m \in Messages : CopiesOf(K, m)

LEMMA Budget ==
  ASSUME NEW n \in Nat, NEW f \in Nat
  PROVE  n * f \in Nat /\ n * (1 + f) = n * f + n
  OBVIOUS

\* A scheduler that has something in its hands runs: between two batches it holds
\* nothing, and so the schedulers with a part in a message are among the active.
BusyInv == \A r \in Runners : rpc[r] \in {"off", "select"} => batch[r] = {}

Hands(K) == BusyInv /\ Cardinality(Active) <= K

LEMMA BusyStep == TypeOK /\ BusyInv /\ [Next]_vars => BusyInv'
<1> SUFFICES ASSUME TypeOK, BusyInv, [Next]_vars PROVE BusyInv'
  OBVIOUS
<1>1. ASSUME UNCHANGED senderVars PROVE BusyInv'
  BY <1>1 DEF BusyInv, senderVars
<1>2. ASSUME CreateMessage \/ SenderRestart PROVE BusyInv'
  BY <1>2 DEF BusyInv, CreateMessage, SenderRestart, senderVars
<1>3. ASSUME NEW r \in Runners, StartScheduler(r) \/ StopScheduler(r) PROVE BusyInv'
  BY <1>3 DEF BusyInv, StartScheduler, StopScheduler, TypeOK, SenderTypeOK
<1>4. ASSUME NEW r \in Runners, ProcessUnsentMessages(r) PROVE BusyInv'
  BY <1>4 DEF BusyInv, ProcessUnsentMessages, TypeOK, SenderTypeOK
<1>5. ASSUME NEW r \in Runners, NEW m, NextInBatch(r, m) PROVE BusyInv'
  BY <1>5 DEF BusyInv, NextInBatch, TypeOK, SenderTypeOK
<1>6. ASSUME NEW r \in Runners, rpc' = [rpc EXCEPT ![r] = "update"], batch' = batch
      PROVE  BusyInv'
  BY <1>6 DEF BusyInv, TypeOK, SenderTypeOK
<1>7. ASSUME NEW r \in Runners, PublishNext(r) \/ MarkProcessing(r) PROVE BusyInv'
  BY <1>5, <1>6, <1>7 DEF PublishNext, PublishMessage, Publish, MarkProcessing, Write
<1> QED
  BY <1>1, <1>2, <1>3, <1>4, <1>7 DEF Next, Sender, SenderStep, RunnerStep, Processor,
     Environment, vars

LEMMA BusyHolds == Spec => []BusyInv
<1>1. Init => BusyInv
  BY DEF Init, SenderInit, BusyInv
<1> QED BY TypeCorrect, BusyStep, <1>1, PTL DEF Spec

LEMMA ActiveFinite == IsFiniteSet(Active) /\ Cardinality(Active) \in Nat
<1>1. Active \in SUBSET Runners
  BY DEF Active
<1> QED BY <1>1, FS_Subset, FS_CardinalityType

LEMMA TwoHands ==
  ASSUME NEW A, IsFiniteSet(A), NEW S \in SUBSET A, NEW T \in SUBSET A, S \cap T = {}
  PROVE  /\ IsFiniteSet(S) /\ Cardinality(S) \in Nat
         /\ IsFiniteSet(T) /\ Cardinality(T) \in Nat
         /\ Cardinality(A) \in Nat /\ Cardinality(S) + Cardinality(T) <= Cardinality(A)
<1>1. /\ IsFiniteSet(S) /\ Cardinality(S) \in Nat
      /\ IsFiniteSet(T) /\ Cardinality(T) \in Nat
      /\ Cardinality(A) \in Nat
  BY FS_Subset, FS_CardinalityType
<1>2. Cardinality(S \cup T) = Cardinality(S) + Cardinality(T)
  <2>1. Cardinality({}) = 0
    BY FS_EmptySet
  <2>2. Cardinality(S \cup T) = Cardinality(S) + Cardinality(T) - Cardinality(S \cap T)
    BY <1>1, FS_Union
  <2>3. Cardinality(S \cap T) = 0
    BY <2>1, Zenon
  <2> QED BY <1>1, <2>2, <2>3
<1>3. Cardinality(S \cup T) <= Cardinality(A)
  <2>1. S \cup T \in SUBSET A
    OBVIOUS
  <2> QED BY <2>1, FS_Subset
<1> QED BY <1>1, <1>2, <1>3

LEMMA RunnerSets ==
  ASSUME NEW m, TypeOK, BusyInv
  PROVE  /\ IsFiniteSet(Updating(m)) /\ Cardinality(Updating(m)) \in Nat
         /\ IsFiniteSet(Holding(m)) /\ Cardinality(Holding(m)) \in Nat
         /\ Cardinality(Active) \in Nat
         /\ Cardinality(Holding(m)) + Cardinality(Updating(m)) <= Cardinality(Active)
<1>1. /\ Updating(m) \in SUBSET Active /\ Holding(m) \in SUBSET Active
      /\ Holding(m) \cap Updating(m) = {}
  BY DEF Updating, Holding, Active, BusyInv, TypeOK, SenderTypeOK
<1> QED BY <1>1, ActiveFinite, TwoHands

LEMMA CopiesNat ==
  ASSUME TypeOK, ~Open => faults > 0
  PROVE  /\ Paid \in Nat
         /\ \A m \in Messages :
              /\ mainQ[m] \in Nat /\ retryQ[m] \in Nat /\ unacked[m] \in Nat
              /\ Copies(m) \in Nat
  BY DEF TypeOK, QueueTypeOK, Bodies, Paid, Copies

LEMMA CopiesInit == ASSUME NEW K \in Nat PROVE Init => CopiesInv(K)
<1> SUFFICES ASSUME Init PROVE CopiesInv(K)
  OBVIOUS
<1>1. Open /\ faults = 0 /\ cur = None
  BY DEF Init, QueueInit, ProcessorInit, Open, Services
<1>2. \A m \in Messages : Holding(m) = {} /\ Updating(m) = {} /\ status[m] = "absent"
  BY DEF Init, SenderInit, RepoInit, Holding, Updating
<1>3. \A m \in Messages : Copies(m) = 0
  BY <1>1 DEF Init, QueueInit, Empty, Copies, Bodies
<1>4. Cardinality({}) = 0
  BY FS_EmptySet
<1>5. Paid = 0
  BY <1>1 DEF Paid, Open
<1>6. 0 <= K * (1 + Paid) /\ K * Paid = 0
  BY <1>4, <1>5
<1>7. ASSUME NEW m \in Messages
      PROVE  CopiesOf(K, m)
  <2>1. Cardinality(Holding(m)) = 0 /\ Cardinality(Updating(m)) = 0
    BY <1>2, <1>4, Zenon
  <2> QED BY <1>2, <1>3, <1>6, <2>1 DEF CopiesOf
<1> QED BY <1>1, <1>7 DEF CopiesInv, Bodies

\* A step that leaves the batches alone makes no copies beyond what it pays for.
LEMMA CopiesFrame ==
  ASSUME NEW K \in Nat, TypeOK, TypeOK', BusyInv, CopiesInv(K),
         \A m \in Messages : Holding(m)' = Holding(m) /\ Updating(m)' = Updating(m),
         ~Open' => faults' > 0, Paid' \in {Paid, Paid + 1},
         \A m \in Messages : Copies(m)' <= Copies(m),
         \A m \in Messages :
           status'[m] \in {"unsent", "absent"} => status[m] = status'[m],
         cur' \in {cur, None} \/ mainQ[cur'] > 0
  PROVE  CopiesInv(K)'
<1>1. \A m \in Messages : Holding(m)' = Holding(m) /\ Updating(m)' = Updating(m)
  OBVIOUS
<1>2. K \in Nat /\ Paid \in Nat /\ Paid' \in Nat
  BY RunnerSets, CopiesNat DEF CopiesInv
<1>3. /\ K * Paid \in Nat /\ K * (1 + Paid) = K * Paid + K
      /\ K * (1 + Paid') = K * Paid' + K
      /\ K * Paid' = K * Paid \/ K * Paid' = K * Paid + K
  BY <1>2, Budget
<1>4. \A m \in Messages : Copies(m) \in Nat /\ Copies(m)' \in Nat
  <2>1. \A m \in Messages : Copies(m) \in Nat
    BY CopiesNat DEF CopiesInv
  <2>2. \A m \in Messages : Copies(m)' \in Nat
    BY DEF TypeOK, QueueTypeOK, Bodies, Copies
  <2> QED BY <2>1, <2>2
<1>5. ASSUME NEW m \in Messages
      PROVE  CopiesOf(K, m)'
  <2>1. Cardinality(Holding(m)) \in Nat /\ Cardinality(Updating(m)) \in Nat
    BY RunnerSets
  <2>2. Copies(m)' <= Copies(m)
    OBVIOUS
  <2>3. Copies(m) + Cardinality(Holding(m)) <= K * Paid + K
    BY <1>3 DEF CopiesInv, CopiesOf
  <2>4. status'[m] = "unsent" => Copies(m) <= K * Paid + Cardinality(Updating(m))
    BY DEF CopiesInv, CopiesOf
  <2>5. status'[m] = "absent" =>
          Copies(m) = 0 /\ Holding(m) = {} /\ Updating(m) = {}
    BY DEF CopiesInv, CopiesOf
  <2> QED BY <1>1, <1>2, <1>3, <1>4, <2>1, <2>2, <2>3, <2>4, <2>5 DEF CopiesOf
<1>6. K = 0 => cur' \notin Messages
  <2> SUFFICES ASSUME K = 0, cur' \in Messages PROVE FALSE
    BY <1>2
  <2>1. K * (1 + Paid) = 0
    BY <1>2
  <2>2. mainQ[cur'] > 0
    BY DEF CopiesInv, Bodies
  <2>3. Copies(cur') + Cardinality(Holding(cur')) <= 0
    BY <2>1 DEF CopiesInv, CopiesOf
  <2>4. Copies(cur') >= mainQ[cur'] /\ Cardinality(Holding(cur')) \in Nat
    BY RunnerSets, CopiesNat DEF CopiesInv, Copies
  <2>5. mainQ[cur'] \in Nat /\ Copies(cur') \in Nat
    BY CopiesNat DEF CopiesInv
  <2> QED BY <2>2, <2>3, <2>4, <2>5
<1> QED BY <1>5, <1>6 DEF CopiesInv

\* A closed channel costs a fault; a step pays for one fault at most.
LEMMA PaidStep ==
  ASSUME TypeOK, ~Open => faults > 0, Processor \/ Environment
  PROVE  (~Open' => faults' > 0) /\ Paid' \in {Paid, Paid + 1}
<1> DEFINE PaidFor == (~Open' => faults' > 0) /\ Paid' \in {Paid, Paid + 1}
<1>0. faults \in Nat
  BY DEF TypeOK
<1>1. CASE UNCHANGED <<faults, channel>>
  BY <1>0, <1>1 DEF Paid, Open
<1>2. CASE channel' = channel /\ faults' = faults + 1
  BY <1>0, <1>2 DEF Paid, Open
<1>3. ASSUME NEW kind, Fault(kind), Nack
      PROVE  PaidFor
  BY <1>0, <1>3 DEF Paid, Open, TypeOK, QueueTypeOK, Services, Fault, Nack, DropChannel
<1>4. CASE ProcessorRestart
  BY <1>0, <1>4 DEF Paid, Open, TypeOK, QueueTypeOK, Services, ProcessorRestart, OpenChannel
<1>5. ASSUME NEW s \in Services,
             (ConnectionLost(s) /\ Fault("broker")) \/ (ChannelCloses(s) /\ NoFault)
      PROVE  PaidFor
  <2>1. \/ faults' = faults + 1 /\ (channel'["processor"] = "open"
                                     => channel["processor"] = "open")
        \/ faults' = faults /\ (channel'["processor"] = "open"
                                 <=> channel["processor"] = "open")
    BY <1>5 DEF TypeOK, QueueTypeOK, Services, ConnectionLost, ChannelCloses,
           DropChannel, NoFault, Fault
  <2> QED BY <1>0, <2>1 DEF Paid, Open
<1>6. CASE BrokerRestarts /\ Fault("restart")
  <2>1. faults' = faults + 1 /\ channel'["processor"] # "open"
    BY <1>6 DEF TypeOK, QueueTypeOK, Services, BrokerRestarts, Fault
  <2> QED BY <1>0, <2>1 DEF Paid, Open
<1> HIDE DEF PaidFor
<1>7. ASSUME ConsumerStep PROVE PaidFor
  <2>1. \/ channel' = channel /\ (faults' = faults \/ faults' = faults + 1)
        \/ \E kind \in FaultKinds : Fault(kind) /\ Nack
    BY <1>7 DEF ConsumerStep, Receive, TakeDelivery, CheckInbox, GetMessage, CallWebhook,
           SendMessage, StoreID, Mark, WriteStatus, Increment, Reload, RetryLater,
           DeadLetter, Discard, Write, MoveToRetryQueue, MoveToDeadLetter, Publish, NoFault,
           Fault, FaultKinds
  <2> QED BY <1>1, <1>2, <1>3, <2>1 DEF PaidFor
<1>8. ASSUME Processor PROVE PaidFor
  BY <1>1, <1>2, <1>4, <1>7, <1>8 DEF Processor, ProcessorStep, MonitorStep, CheckStaleMessages,
     RecoverDeadLetter, MoveToDeadLetter, Publish, RecoverStatus, Write, ProcessorCrash,
     NoFault, Fault, PaidFor
<1>9. ASSUME Environment PROVE PaidFor
  BY <1>1, <1>2, <1>5, <1>6, <1>9 DEF Environment, MongoDB, RabbitMQ, Redis, RetryExpires,
     ForeignPublish, NoFault, Fault, PaidFor
<1> QED BY <1>8, <1>9 DEF PaidFor

\* Only the sender takes a message out of the outbox, or puts one there.
LEMMA OutboxKept ==
  ASSUME TypeOK, Processor \/ Environment
  PROVE  \A m \in Messages :
           /\ status'[m] \in {"unsent", "absent"} => status[m] = status'[m]
           /\ Holding(m)' = Holding(m) /\ Updating(m)' = Updating(m)
<1>1. UNCHANGED senderVars
  BY DEF Processor, Environment
<1>2. \A m \in Messages : Holding(m)' = Holding(m) /\ Updating(m)' = Updating(m)
  BY <1>1 DEF senderVars, Holding, Updating
<1>3. ASSUME ConsumerStep
      PROVE  \A m \in Messages :
               status'[m] \in {"unsent", "absent"} => status[m] = status'[m]
  BY <1>3 DEF TypeOK, RepoTypeOK, ConsumerStep, Receive, CheckInbox, GetMessage, CallWebhook,
         StoreID, Mark, WriteStatus, StatusAt, Increment, Reload, RetryLater, DeadLetter,
         Discard, Write, UpdateStatus, IncrementRetryCount, repoVars
<1>4. ASSUME MonitorStep \/ ProcessorCrash \/ ProcessorRestart
      PROVE  \A m \in Messages :
               status'[m] \in {"unsent", "absent"} => status[m] = status'[m]
  BY <1>4 DEF TypeOK, RepoTypeOK, MonitorStep, CheckStaleMessages, RecoverDeadLetter,
         RecoverStatus, Write, UpdateStatus, ProcessorCrash, ProcessorRestart, repoVars
<1>5. ASSUME Environment
      PROVE  \A m \in Messages :
               status'[m] \in {"unsent", "absent"} => status[m] = status'[m]
  BY <1>5 DEF TypeOK, RepoTypeOK, Environment, MongoDB, RabbitMQ, Redis, TimePasses,
         DropCollection, Stored, Statuses, repoVars
<1> QED BY <1>2, <1>3, <1>4, <1>5 DEF Processor, ProcessorStep

LEMMA CopiesConsumer ==
  ASSUME NEW K \in Nat, TypeOK, TypeOK', BusyInv, CopiesInv(K), Processor, ConsumerStep
  PROVE  CopiesInv(K)'
<1> DEFINE FewerCopies == \A m \in Messages : Copies(m)' <= Copies(m)
           SameOrTaken == cur' \in {cur, None} \/ mainQ[cur'] > 0
<1>1. SameOrTaken
  BY DEF ConsumerStep, Receive, TakeDelivery, CheckInbox, GetMessage, CallWebhook,
         SendMessage, StoreID, Mark, WriteStatus, Increment, Reload, RetryLater,
         DeadLetter, Discard, Write, MoveToRetryQueue, MoveToDeadLetter, Publish,
         Goto, Return, Die
<1>2. FewerCopies
  <2>1. CASE /\ UNCHANGED queues
             /\ cur' \in {cur, None}
             /\ channel' = channel \/ Nack
    BY <2>1 DEF TypeOK, QueueTypeOK, Bodies, Services, Copies, Open, Nack, DropChannel, queues
  <2>2. CASE Receive
    BY <2>2 DEF TypeOK, QueueTypeOK, ProcessorTypeOK, Calls, Bodies, Copies, Open,
           Receive, TakeDelivery, Plus, Minus
  <2>3. CASE RetryLater
    BY <2>3 DEF TypeOK, QueueTypeOK, Bodies, Copies, Open, RetryLater, MoveToRetryQueue,
           Publish, Return, Plus, queues
  <2>4. CASE DeadLetter \/ Discard
    BY <2>4 DEF TypeOK, QueueTypeOK, Bodies, Copies, Open, DeadLetter, Discard,
           MoveToDeadLetter, Publish, Goto, Return, Plus, queues
  <2> QED
    BY <2>1, <2>2, <2>3, <2>4 DEF ConsumerStep, CheckInbox, GetMessage, CallWebhook,
           SendMessage, StoreID, Mark, WriteStatus, Increment, Reload, Write, Nack, Goto,
           Return, Die, queues
<1>3. (~Open' => faults' > 0) /\ Paid' \in {Paid, Paid + 1}
  BY PaidStep DEF CopiesInv
<1> QED BY <1>1, <1>2, <1>3, OutboxKept, CopiesFrame

LEMMA CopiesProcessor ==
  ASSUME NEW K \in Nat, TypeOK, TypeOK', BusyInv, CopiesInv(K), Processor
  PROVE  CopiesInv(K)'
<1>1. CASE ConsumerStep
  BY <1>1, CopiesConsumer
<1>2. CASE MonitorStep \/ ProcessorCrash \/ ProcessorRestart
  <2>1. cur' \in {cur, None}
    BY <1>2 DEF MonitorStep, CheckStaleMessages, RecoverDeadLetter, RecoverStatus,
           ProcessorCrash, ProcessorRestart, Die, consumerVars
  <2>2. (~Open' => faults' > 0) /\ Paid' \in {Paid, Paid + 1}
    BY PaidStep DEF CopiesInv
  <2>3. \A m \in Messages : Copies(m)' <= Copies(m)
    <3>1. CASE /\ UNCHANGED <<mainQ, retryQ, unacked, channel>>
               /\ cur' \in {cur, None}
      BY <3>1 DEF TypeOK, QueueTypeOK, Bodies, Copies, Open
    <3>2. CASE ProcessorRestart
      <4>1. cur = None /\ cur' = None /\ retryQ' = retryQ
        BY <3>2 DEF TypeOK, ProcessorTypeOK, Calls, Bodies, ProcessorRestart, OpenChannel
      <4>2. \A m \in Messages : mainQ'[m] = mainQ[m] + unacked[m] /\ unacked'[m] = 0
        BY <3>2 DEF ProcessorRestart, OpenChannel, Empty, Bodies
      <4> QED
        BY <4>1, <4>2 DEF TypeOK, QueueTypeOK, Bodies, Copies
    <3> QED
      BY <1>2, <2>1, <3>1, <3>2 DEF MonitorStep, CheckStaleMessages, RecoverDeadLetter,
             MoveToDeadLetter, Publish, RecoverStatus, ProcessorCrash, queues
  <2> QED BY <2>1, <2>2, <2>3, OutboxKept, CopiesFrame
<1> QED BY <1>1, <1>2 DEF Processor, ProcessorStep

LEMMA CopiesEnvironment ==
  ASSUME NEW K \in Nat, TypeOK, TypeOK', BusyInv, CopiesInv(K), Environment
  PROVE  CopiesInv(K)'
<1>1. cur' = cur
  BY DEF Environment, consumerVars
<1>2. (~Open' => faults' > 0) /\ Paid' \in {Paid, Paid + 1}
  BY PaidStep DEF CopiesInv
<1>3. \A m \in Messages : Copies(m)' <= Copies(m)
  <2>1. CASE MongoDB \/ Redis
    BY <1>1, <2>1 DEF MongoDB, Redis, TypeOK, QueueTypeOK, Bodies, Copies, Open, queues
  <2>2. ASSUME NEW b \in Bodies, RetryExpires(b)
        PROVE  \A m \in Messages : Copies(m)' <= Copies(m)
    BY <1>1, <2>2 DEF RetryExpires, Plus, Minus, TypeOK, QueueTypeOK, Bodies, Copies, Open
  <2>3. ASSUME NEW b \in Bodies, ForeignPublish(b)
        PROVE  \A m \in Messages : Copies(m)' <= Copies(m)
    BY <1>1, <2>3 DEF ForeignPublish, Plus, TypeOK, QueueTypeOK, Bodies, Copies, Open,
           ContractsAssumption
  <2>4. ASSUME NEW s \in Services, ConnectionLost(s) \/ ChannelCloses(s)
        PROVE  \A m \in Messages : Copies(m)' <= Copies(m)
    BY <1>1, <2>4 DEF ConnectionLost, ChannelCloses, DropChannel, TypeOK, QueueTypeOK,
           Bodies, Services, Copies, Open, queues
  <2>5. CASE BrokerRestarts
    <3>1. \A m \in Messages : mainQ'[m] <= mainQ[m] /\ unacked'[m] <= unacked[m]
      BY <2>5, SurvivorsAreFewer DEF BrokerRestarts, TypeOK, QueueTypeOK, Bodies
    <3>2. \A m \in Messages : retryQ'[m] = 0
      BY <2>5 DEF BrokerRestarts, Empty, Bodies
    <3>3. ~Open'
      BY <2>5 DEF BrokerRestarts, Open, TypeOK, QueueTypeOK, Services
    <3> QED
      BY <3>1, <3>2, <3>3 DEF TypeOK, QueueTypeOK, Bodies, Copies
  <2> QED
    BY <2>1, <2>2, <2>3, <2>4, <2>5 DEF Environment, RabbitMQ
<1> QED BY <1>1, <1>2, <1>3, OutboxKept, CopiesFrame

-----------------------------------------------------------------------------
(* The sender. *)

LEMMA HandsOf ==
  ASSUME NEW S \in SUBSET Runners, NEW r \in Runners
  PROVE  /\ IsFiniteSet(S) /\ Cardinality(S) \in Nat
         /\ r \in S => Cardinality(S \ {r}) = Cardinality(S) - 1
         /\ r \notin S => Cardinality(S \cup {r}) = Cardinality(S) + 1
<1>1. IsFiniteSet(S)
  BY FS_Subset
<1> QED
  BY <1>1, FS_CardinalityType, FS_AddElement, FS_RemoveElement

\* What the invariant says of one message, in numbers: the room all schedulers
\* together have, and the part each of them takes.
LEMMA Room ==
  ASSUME NEW K \in Nat, TypeOK, Hands(K), CopiesInv(K), NEW m \in Messages
  PROVE  /\ Paid \in Nat /\ Copies(m) \in Nat
         /\ K * Paid \in Nat
         /\ K * (1 + Paid) = K * Paid + K
         /\ K * (1 + (Paid + 1)) = K * Paid + K + K
         /\ K * (Paid + 1) = K * Paid + K
         /\ Updating(m) \in SUBSET Runners /\ Cardinality(Updating(m)) \in Nat
         /\ Holding(m) \in SUBSET Runners /\ Cardinality(Holding(m)) \in Nat
         /\ Cardinality(Holding(m)) + Cardinality(Updating(m)) <= K
         /\ Copies(m) + Cardinality(Holding(m)) <= K * Paid + K
         /\ status[m] = "unsent" => Copies(m) <= K * Paid + Cardinality(Updating(m))
         /\ status[m] = "absent" => /\ Copies(m) = 0
                                    /\ Holding(m) = {} /\ Updating(m) = {}
<1>1. K \in Nat /\ Paid \in Nat /\ Copies(m) \in Nat
  BY CopiesNat DEF CopiesInv
<1>2. /\ K * Paid \in Nat
      /\ K * (1 + Paid) = K * Paid + K
      /\ K * (1 + (Paid + 1)) = K * Paid + K + K
      /\ K * (Paid + 1) = K * Paid + K
  BY <1>1, Budget
<1>3. CopiesOf(K, m)
  BY DEF CopiesInv
<1>4. Updating(m) \in SUBSET Runners /\ Holding(m) \in SUBSET Runners
  BY DEF Updating, Holding
<1>5. /\ Cardinality(Updating(m)) \in Nat /\ Cardinality(Holding(m)) \in Nat
      /\ Cardinality(Holding(m)) + Cardinality(Updating(m)) <= K
  BY RunnerSets DEF Hands
<1> QED
  BY <1>1, <1>2, <1>3, <1>4, <1>5 DEF CopiesOf

\* What a step of a runner can mean for a message: nothing; that it is fetched;
\* that it is published or dropped from the batch; that it is marked.
Untouched(m) ==
  Holding(m)' = Holding(m) /\ Updating(m)' = Updating(m) /\ mainQ'[m] = mainQ[m]
    /\ status'[m] = status[m]

Fetched(K, m) ==
  /\ Updating(m)' = Updating(m) /\ UNCHANGED <<mainQ, status, faults>>
  /\ status[m] = "unsent"
  /\ Cardinality(Holding(m)') \in Nat
  /\ Cardinality(Holding(m)') + Cardinality(Updating(m)) <= K

HandedOn(m) ==
  /\ UNCHANGED <<status, faults>> /\ Holding(m) # {}
  /\ Cardinality(Holding(m)') = Cardinality(Holding(m)) - 1
  /\ \/ mainQ'[m] = mainQ[m] /\ Cardinality(Updating(m)') = Cardinality(Updating(m))
     \/ /\ mainQ'[m] \in {mainQ[m], mainQ[m] + 1}
        /\ Cardinality(Updating(m)') = Cardinality(Updating(m)) + 1

Marked(m) ==
  /\ Holding(m)' = Holding(m) /\ Updating(m) # {} /\ mainQ' = mainQ
  /\ Cardinality(Updating(m)') \in Nat
  /\ Cardinality(Updating(m)') = Cardinality(Updating(m)) - 1
  /\ \/ status'[m] = "processing"
     \/ status'[m] = status[m] /\ (faults' = faults => ~Stored(m))

LEMMA RunnerMoves ==
  ASSUME NEW K \in Nat, TypeOK, TypeOK', Hands(K), Hands(K)',
         NEW r \in Runners, RunnerStep(r), NEW m \in Messages
  PROVE  Untouched(m) \/ Fetched(K, m) \/ HandedOn(m) \/ Marked(m)
<1>0. Updating(m) \in SUBSET Runners /\ Holding(m) \in SUBSET Runners
  BY DEF Updating, Holding
<1>1. CASE ProcessUnsentMessages(r)
  <2>1. UNCHANGED <<mainQ, status, faults>>
    BY <1>1 DEF ProcessUnsentMessages, queues, repoVars
  <2>2. Updating(m)' = Updating(m)
    BY <1>1 DEF ProcessUnsentMessages, Updating, TypeOK, SenderTypeOK
  <2>3. CASE status[m] = "unsent"
    <3>1. /\ Holding(m)' \in SUBSET Active' /\ Updating(m) \in SUBSET Active'
          /\ Holding(m)' \cap Updating(m) = {}
      BY <2>2 DEF Holding, Updating, Active, Hands, BusyInv, TypeOK, SenderTypeOK
    <3>2. IsFiniteSet(Active') /\ Cardinality(Active') \in Nat /\ Cardinality(Active') <= K
      BY FS_Subset, FS_CardinalityType DEF Active, Hands
    <3>3. /\ Cardinality(Holding(m)') \in Nat /\ Cardinality(Updating(m)) \in Nat
          /\ Cardinality(Holding(m)') + Cardinality(Updating(m)) <= Cardinality(Active')
      BY <3>1, <3>2, TwoHands
    <3> QED BY <2>1, <2>2, <2>3, <3>2, <3>3 DEF Fetched
  <2>4. CASE status[m] # "unsent"
    <3>1. Holding(m)' = Holding(m)
      BY <1>1, <2>2, <2>4 DEF ProcessUnsentMessages, FindUnsentMessages, Holding, Updating,
             Hands, BusyInv, TypeOK, SenderTypeOK
    <3> QED BY <2>1, <2>2, <3>1 DEF Untouched
  <2> QED BY <2>3, <2>4
<1>2. CASE PublishNext(r)
  <2>1. UNCHANGED <<status, faults>>
    BY <1>2 DEF PublishNext, repoVars
  <2>2. PICK n \in batch[r] :
          \/ /\ mainQ' = mainQ \/ mainQ' = Plus(mainQ, n)
             /\ rcur' = [rcur EXCEPT ![r] = n]
             /\ rpc' = [rpc EXCEPT ![r] = "update"]
             /\ UNCHANGED batch
          \/ UNCHANGED mainQ /\ NextInBatch(r, n)
    BY <1>2 DEF PublishNext, PublishMessage, Publish, queues
  <2>3. n \in Messages /\ rpc[r] = "publish"
    BY <1>2, <2>2 DEF PublishNext, TypeOK, SenderTypeOK
  <2>4. CASE m # n
    <3>1. Holding(m)' = Holding(m) /\ Updating(m)' = Updating(m)
      BY <2>2, <2>3, <2>4 DEF NextInBatch, Holding, Updating, TypeOK, SenderTypeOK
    <3>2. mainQ'[m] = mainQ[m]
      BY <2>2, <2>4 DEF Plus, TypeOK, QueueTypeOK, Bodies
    <3> QED BY <2>1, <3>1, <3>2 DEF Untouched
  <2>5. CASE m = n
    <3>1. r \in Holding(m) /\ r \notin Updating(m)
      BY <2>2, <2>3, <2>5 DEF Holding, Updating
    <3>2. Cardinality(Holding(m) \ {r}) = Cardinality(Holding(m)) - 1
      BY <1>0, <3>1, HandsOf
    <3>3. Holding(m)' = Holding(m) \ {r}
      BY <2>2, <2>3, <2>5 DEF NextInBatch, Holding, Updating, TypeOK, SenderTypeOK
    <3>4. CASE UNCHANGED mainQ /\ NextInBatch(r, n)
      <4>1. Updating(m)' = Updating(m)
        BY <2>3, <3>4 DEF NextInBatch, Updating, TypeOK, SenderTypeOK
      <4> QED BY <2>1, <3>1, <3>2, <3>3, <3>4, <4>1 DEF HandedOn
    <3>5. CASE /\ mainQ' = mainQ \/ mainQ' = Plus(mainQ, n)
               /\ rcur' = [rcur EXCEPT ![r] = n]
               /\ rpc' = [rpc EXCEPT ![r] = "update"]
      <4>1. Updating(m)' = Updating(m) \cup {r}
        BY <2>3, <2>5, <3>5 DEF Updating, TypeOK, SenderTypeOK
      <4>2. Cardinality(Updating(m) \cup {r}) = Cardinality(Updating(m)) + 1
        BY <1>0, <3>1, HandsOf
      <4>3. mainQ'[m] \in {mainQ[m], mainQ[m] + 1}
        BY <2>3, <2>5, <3>5 DEF Plus, TypeOK, QueueTypeOK, Bodies
      <4> QED BY <2>1, <3>1, <3>2, <3>3, <4>1, <4>2, <4>3 DEF HandedOn
    <3> QED BY <2>2, <3>4, <3>5
  <2> QED BY <2>4, <2>5
<1>3. CASE MarkProcessing(r)
  <2>1. /\ rcur[r] \in Messages /\ rpc[r] = "update" /\ NextInBatch(r, rcur[r])
        /\ mainQ' = mainQ
    BY <1>3 DEF MarkProcessing, Write, TypeOK, SenderTypeOK, queues
  <2>2. Holding(m)' = Holding(m)
    BY <2>1 DEF NextInBatch, Holding, Updating, TypeOK, SenderTypeOK
  <2>3. CASE m # rcur[r]
    <3>1. Updating(m)' = Updating(m)
      BY <2>1, <2>3 DEF NextInBatch, Updating, TypeOK, SenderTypeOK
    <3>2. status'[m] = status[m]
      BY <1>3, <2>3 DEF MarkProcessing, Write, UpdateStatus, TypeOK, RepoTypeOK, repoVars
    <3> QED BY <2>1, <2>2, <3>1, <3>2 DEF Untouched
  <2>4. CASE m = rcur[r]
    <3>1. r \in Updating(m)
      BY <2>1, <2>4 DEF Updating
    <3>2. Updating(m)' = Updating(m) \ {r}
      BY <2>1, <2>4 DEF NextInBatch, Updating, TypeOK, SenderTypeOK
    <3>3. /\ Cardinality(Updating(m) \ {r}) = Cardinality(Updating(m)) - 1
          /\ Cardinality(Updating(m) \ {r}) \in Nat
      <4>1. Updating(m) \ {r} \in SUBSET Runners
        BY <1>0
      <4> QED BY <1>0, <3>1, <4>1, HandsOf
    <3>4. \/ status'[m] = "processing"
          \/ status'[m] = status[m] /\ (faults' = faults => ~Stored(m))
      BY <1>3, <2>4 DEF MarkProcessing, Write, NoFault, Fault, UpdateStatus, Stored,
             TypeOK, RepoTypeOK, repoVars
    <3> QED BY <2>1, <2>2, <3>1, <3>2, <3>3, <3>4 DEF Marked
  <2> QED BY <2>3, <2>4
<1> QED BY <1>1, <1>2, <1>3 DEF RunnerStep

LEMMA RunnerPays ==
  ASSUME TypeOK, ~Open => faults > 0, Sender, NEW r \in Runners, RunnerStep(r)
  PROVE  /\ UNCHANGED <<pc, cur, found, failing, retryQ, dlq, unacked, channel, retryCount>>
         /\ (~Open' => faults' > 0)
         /\ \/ faults' = faults /\ Paid' = Paid
            \/ faults' = faults + 1 /\ Paid' = Paid + 1
<1>1. UNCHANGED <<pc, cur, found, failing, retryQ, dlq, unacked, channel, retryCount>>
  BY DEF Sender, RunnerStep, ProcessUnsentMessages, PublishNext, PublishMessage, Publish,
         MarkProcessing, Write, UpdateStatus, repoVars, consumerVars, monitorVars, queues
<1>2. faults' = faults \/ faults' = faults + 1
  BY DEF RunnerStep, ProcessUnsentMessages, PublishNext, MarkProcessing, Write, NoFault, Fault
<1>3. faults \in Nat
  BY DEF TypeOK
<1> QED BY <1>1, <1>2, <1>3 DEF Paid, Open

LEMMA CopiesRunner ==
  ASSUME NEW K \in Nat, TypeOK, TypeOK', Hands(K), Hands(K)', CopiesInv(K), Sender,
         NEW r \in Runners, RunnerStep(r)
  PROVE  CopiesInv(K)'
<1>0. UNCHANGED <<pc, cur, retryQ, unacked, channel>>
  BY RunnerPays DEF CopiesInv
<1>1. /\ (~Open' => faults' > 0)
      /\ \/ faults' = faults /\ Paid' = Paid
         \/ faults' = faults + 1 /\ Paid' = Paid + 1
  BY RunnerPays DEF CopiesInv
<1>2. (K = 0 => cur' \notin Messages)
  BY <1>0 DEF CopiesInv
<1>3. ASSUME NEW m \in Messages
      PROVE  CopiesOf(K, m)'
  <2>0. /\ mainQ'[m] = mainQ[m] => Copies(m)' = Copies(m)
        /\ mainQ'[m] = mainQ[m] + 1 => Copies(m)' = Copies(m) + 1
    BY <1>0 DEF Copies, Open, TypeOK, QueueTypeOK, Bodies
  <2>1. CASE Untouched(m)
    <3>1. CASE Paid' = Paid
      BY <2>0, <2>1, <3>1, Room DEF Untouched, CopiesOf
    <3>2. CASE Paid' = Paid + 1
      BY <2>0, <2>1, <3>2, Room DEF Untouched, CopiesOf
    <3> QED BY <1>1, <3>1, <3>2
  <2>2. CASE Fetched(K, m)
    <3>1. Paid' = Paid
      BY <1>1, <2>2 DEF Fetched, TypeOK
    <3> QED BY <2>0, <2>2, <3>1, Room DEF Fetched, CopiesOf
  <2>3. CASE HandedOn(m)
    <3>1. Paid' = Paid
      BY <1>1, <2>3 DEF HandedOn, TypeOK
    <3>2. status[m] # "absent"
      BY <2>3, Room DEF HandedOn
    <3> QED BY <2>0, <2>3, <3>1, <3>2, Room DEF HandedOn, CopiesOf
  <2>4. CASE Marked(m)
    <3>1. Copies(m)' = Copies(m)
      BY <2>0, <2>4 DEF Marked
    <3>2. status[m] # "absent" /\ status'[m] # "absent"
      BY <2>4, Room DEF Marked
    <3>3. CASE Paid' = Paid
      <4>1. status'[m] # "unsent"
        BY <1>1, <2>4, <3>3, Room DEF Marked, Stored, Statuses
      <4> QED BY <2>4, <3>1, <3>2, <3>3, <4>1, Room DEF Marked, CopiesOf
    <3>4. CASE Paid' = Paid + 1
      BY <2>4, <3>1, <3>2, <3>4, Room DEF Marked, CopiesOf
    <3> QED BY <1>1, <3>3, <3>4
  <2> QED BY <2>1, <2>2, <2>3, <2>4, RunnerMoves
<1> QED
  BY <1>1, <1>2, <1>3 DEF CopiesInv

LEMMA CopiesSender ==
  ASSUME NEW K \in Nat, TypeOK, TypeOK', Hands(K), Hands(K)', CopiesInv(K), Sender
  PROVE  CopiesInv(K)'
<1>0. UNCHANGED <<pc, cur>>
  BY DEF Sender, consumerVars
<1>1. CASE CreateMessage
  <2>1. UNCHANGED <<mainQ, retryQ, unacked, channel, faults, rpc, batch, rcur>>
    BY <1>1 DEF CreateMessage, queues, senderVars
  <2>2. \A m \in Messages : /\ Copies(m)' = Copies(m) /\ Holding(m)' = Holding(m)
                            /\ Updating(m)' = Updating(m)
    BY <1>0, <2>1 DEF Copies, Open, Holding, Updating
  <2>3. Paid' = Paid /\ K' = K
    BY <2>1 DEF Paid, Open
  <2>4. ASSUME NEW m \in Messages PROVE CopiesOf(K, m)'
    <3>1. status'[m] = status[m] \/ (status[m] = "absent" /\ status'[m] = "unsent")
      BY <1>1 DEF CreateMessage, InsertMessage, TypeOK, RepoTypeOK
    <3> QED BY <2>2, <2>3, <3>1, Room DEF CopiesOf
  <2> QED BY <1>0, <2>1, <2>3, <2>4 DEF CopiesInv, Open
<1>2. CASE SenderRestart
  <2>1. /\ UNCHANGED <<mainQ, retryQ, unacked, status>>
        /\ channel'["processor"] = channel["processor"]
        /\ faults' = faults + 1
    BY <1>2 DEF SenderRestart, OpenChannel, Fault, repoVars, TypeOK, QueueTypeOK, Services
  <2>2. \A m \in Messages : Holding(m)' = {} /\ Updating(m)' = {}
    BY <1>2 DEF SenderRestart, Holding, Updating
  <2>3. \A m \in Messages : Copies(m)' = Copies(m)
    BY <1>0, <2>1 DEF Copies, Open
  <2>4. Paid' = Paid + 1 /\ (~Open' => faults' > 0)
    <3>1. faults \in Nat
      BY DEF TypeOK
    <3> QED BY <2>1, <3>1 DEF Paid, Open
  <2>5. ASSUME NEW m \in Messages PROVE CopiesOf(K, m)'
    <3>1. Cardinality({}) = 0
      BY FS_EmptySet
    <3>2. Cardinality(Holding(m)') = 0 /\ Cardinality(Updating(m)') = 0
      BY <2>2, <3>1, Zenon
    <3> QED BY <2>1, <2>2, <2>3, <2>4, <3>2, Room DEF CopiesOf
  <2> QED BY <1>0, <2>4, <2>5 DEF CopiesInv
<1>3. ASSUME NEW r \in Runners, StartScheduler(r) \/ StopScheduler(r)
      PROVE  CopiesInv(K)'
  <2>1. UNCHANGED <<mainQ, retryQ, unacked, channel, faults, status, batch, rcur>>
    BY <1>3 DEF StartScheduler, StopScheduler, repoVars, queues
  <2>2. \A m \in Messages : Holding(m)' = Holding(m) /\ Updating(m)' = Updating(m)
    BY <1>3 DEF StartScheduler, StopScheduler, Holding, Updating, TypeOK, SenderTypeOK
  <2>3. \A m \in Messages : Copies(m)' = Copies(m) /\ Copies(m) \in Nat
    BY <1>0, <2>1, CopiesNat DEF Copies, Open, CopiesInv
  <2>4. Paid' = Paid /\ Paid \in Nat /\ (~Open' => faults' > 0)
    BY <2>1, CopiesNat DEF Paid, Open, CopiesInv
  <2> QED BY <1>0, <2>1, <2>2, <2>3, <2>4, CopiesFrame DEF Hands
<1>4. ASSUME NEW r \in Runners, RunnerStep(r)
      PROVE  CopiesInv(K)'
  BY <1>4, CopiesRunner
<1> QED
  BY <1>1, <1>2, <1>3, <1>4 DEF Sender, SenderStep

LEMMA CopiesStutter ==
  ASSUME NEW K \in Nat, CopiesInv(K), UNCHANGED vars PROVE CopiesInv(K)'
<1> QED
  BY DEF vars, repoVars, queues, consumerVars, senderVars, CopiesInv, CopiesOf, Copies,
         Holding, Updating, Open, Paid

\* The copies and the schedulers of a message stay in proportion.
LEMMA CopiesBound ==
  ASSUME NEW K \in Nat, TypeOK, Hands(K), CopiesInv(K), NEW m \in Messages
  PROVE  InFlight(m) <= K * (1 + faults)
<1>1. faults \in Nat
  BY DEF TypeOK
<1>2. /\ mainQ[m] \in Nat /\ retryQ[m] \in Nat /\ unacked[m] \in Nat
      /\ ~Open => faults > 0
  BY CopiesNat DEF CopiesInv
<1>3. CASE Open
  <2>1. InFlight(m) = Copies(m) /\ Paid = faults
    BY <1>1, <1>3 DEF InFlight, Copies, Paid
  <2> QED BY <1>1, <2>1, Room
<1>4. CASE ~Open
  <2>1. InFlight(m) = Copies(m) + (IF cur = m THEN 1 ELSE 0) /\ faults = Paid + 1
    BY <1>1, <1>2, <1>4 DEF InFlight, Copies, Paid
  <2>2. cur = m => K > 0
    BY Room DEF CopiesInv
  <2>3. K * (1 + faults) = K * Paid + K + K
    BY <2>1, Room
  <2> QED BY <1>1, <2>1, <2>2, <2>3, Room
<1> QED BY <1>3, <1>4

LEMMA CopiesStep ==
  ASSUME NEW K \in Nat, TypeOK, TypeOK', Hands(K), Hands(K)', CopiesInv(K), [Next]_vars
  PROVE  CopiesInv(K)'
BY CopiesSender, CopiesProcessor, CopiesEnvironment, CopiesStutter DEF Next, Hands

\* However many schedulers come and go and whatever goes wrong, the entries of a
\* message on their way to the consumer are at most one per scheduler that ran at
\* the same time, and as many again per fault: a copy is never made from a copy, and
\* a scheduler that ended leaves no room for another one.
THEOREM CopiesOfActive ==
  ASSUME NEW K \in Nat
  PROVE  Spec /\ [](Cardinality(Active) <= K) =>
           [](\A m \in Messages : InFlight(m) <= K * (1 + faults))
<1>1. Init => CopiesInv(K)
  BY CopiesInit
<1>2. TypeOK /\ TypeOK' /\ Hands(K) /\ Hands(K)' /\ CopiesInv(K) /\ [Next]_vars
        => CopiesInv(K)'
  BY CopiesStep
<1>3. TypeOK /\ Hands(K) /\ CopiesInv(K) =>
        \A m \in Messages : InFlight(m) <= K * (1 + faults)
  BY CopiesBound
<1>4. BusyInv /\ Cardinality(Active) <= K => Hands(K)
  BY DEF Hands
<1> QED
  BY TypeCorrect, BusyHolds, <1>1, <1>2, <1>3, <1>4, PTL DEF Spec

\* In particular one per scheduler there is.
THEOREM CopiesStayBounded == Spec => []CopiesBounded
<1> DEFINE K == Cardinality(Runners)
<1>0. K \in Nat
  BY FS_CardinalityType
<1>1. Init => CopiesInv(K)
  BY <1>0, CopiesInit
<1>2. TypeOK /\ TypeOK' /\ Hands(K) /\ Hands(K)' /\ CopiesInv(K) /\ [Next]_vars
        => CopiesInv(K)'
  BY <1>0, CopiesStep
<1>3. TypeOK /\ Hands(K) /\ CopiesInv(K) => CopiesBounded
  BY <1>0, CopiesBound DEF CopiesBounded
<1>4. BusyInv => Hands(K)
  <2>1. Active \in SUBSET Runners
    BY DEF Active
  <2> QED BY <2>1, FS_Subset DEF Hands
<1> HIDE DEF K
<1> QED
  BY TypeCorrect, BusyHolds, <1>1, <1>2, <1>3, <1>4, PTL DEF Spec

-----------------------------------------------------------------------------
(* The number of dead letters. What can still make one of a message is a burden *)
(* it carries: a copy whose handling has not made its own yet, the consumer that *)
(* is about to set processing, and that status once it is set, until the monitor *)
(* has made the dead letter it stands for. A publication costs two of these,     *)
(* the copy and the status the scheduler sets; a counted attempt costs one, the  *)
(* status; a status that is not written, and a monitor that dies between its     *)
(* dead letter and the status, are paid by the fault.                            *)

Ending(m) ==
  mainQ[m] + retryQ[m] + unacked[m] + (IF Open /\ cur = m /\ pc # "failed" THEN 1 ELSE 0)
Setting(m) == IF pc = "processing" /\ cur = m THEN 1 ELSE 0
Stuck(m) ==
  IF (m \in found /\ failing # m) \/ (m \notin found /\ status[m] = "processing")
  THEN 1 ELSE 0
Burden(m) == dlq[m] + Ending(m) + Setting(m) + Stuck(m)

DeadOf(K, m) ==
  /\ Burden(m) + 2 * Cardinality(Holding(m)) + Cardinality(Updating(m))
       <= retryCount[m] + 2 * (K * Paid) + 2 * K
  /\ status[m] \in {"absent", "unsent"} =>
       Burden(m) <= retryCount[m] + 2 * (K * Paid) + Cardinality(Updating(m))

\* A message that is handled is stored and was published by a scheduler.
KnownOf(K, m) ==
  /\ status[m] # "dropped"
  /\ status[m] = "absent" => retryCount[m] = 0 /\ cur # m
  /\ status[m] = "processing" \/ m \in found \/ failing = m => K > 0

DeadInv(K) == \A m \in Messages : DeadOf(K, m) /\ KnownOf(K, m)

LEMMA BurdenNat ==
  ASSUME TypeOK, NEW m \in Messages
  PROVE  /\ dlq[m] \in Nat /\ retryCount[m] \in Nat /\ Ending(m) \in Nat
         /\ Setting(m) \in {0, 1} /\ Stuck(m) \in {0, 1} /\ Burden(m) \in Nat
<1>1. /\ dlq[m] \in Nat /\ mainQ[m] \in Nat /\ retryQ[m] \in Nat /\ unacked[m] \in Nat
      /\ retryCount[m] \in Nat
  BY DEF TypeOK, QueueTypeOK, RepoTypeOK, Bodies
<1>2. Setting(m) \in {0, 1} /\ Stuck(m) \in {0, 1}
  BY DEF Setting, Stuck
<1>3. Ending(m) \in Nat
  BY <1>1 DEF Ending
<1> QED BY <1>1, <1>2, <1>3 DEF Burden

LEMMA BurdenNatNext ==
  ASSUME TypeOK', NEW m \in Messages
  PROVE  /\ dlq'[m] \in Nat /\ retryCount'[m] \in Nat /\ Ending(m)' \in Nat
         /\ Setting(m)' \in {0, 1} /\ Stuck(m)' \in {0, 1} /\ Burden(m)' \in Nat
<1>1. /\ dlq'[m] \in Nat /\ mainQ'[m] \in Nat /\ retryQ'[m] \in Nat /\ unacked'[m] \in Nat
      /\ retryCount'[m] \in Nat
  BY DEF TypeOK, QueueTypeOK, RepoTypeOK, Bodies
<1>2. Setting(m)' \in {0, 1} /\ Stuck(m)' \in {0, 1}
  BY DEF Setting, Stuck
<1>3. Ending(m)' \in Nat
  BY <1>1 DEF Ending
<1> QED BY <1>1, <1>2, <1>3 DEF Burden

\* A step that leaves the batches alone adds no burden beyond the attempt it counts
\* or the fault it pays.
LEMMA DeadFrame ==
  ASSUME NEW K \in Nat, TypeOK, TypeOK', Hands(K), CopiesInv(K),
         NEW m \in Messages, DeadOf(K, m),
         Holding(m)' = Holding(m), Updating(m)' = Updating(m),
         Paid' \in {Paid, Paid + 1},
         status'[m] \in {"unsent", "absent"} => status[m] = status'[m],
         \/ Burden(m)' + retryCount[m] <= Burden(m) + retryCount'[m]
         \/ /\ K > 0 /\ Paid' = Paid + 1
            /\ Burden(m)' + retryCount[m] <= Burden(m) + retryCount'[m] + 1
  PROVE  DeadOf(K, m)'
<1>1. /\ Paid \in Nat /\ K * Paid \in Nat
      /\ K * (Paid + 1) = K * Paid + K
      /\ Cardinality(Updating(m)) \in Nat /\ Cardinality(Holding(m)) \in Nat
  BY Room
<1>2. /\ Burden(m) \in Nat /\ retryCount[m] \in Nat
      /\ Burden(m)' \in Nat /\ retryCount'[m] \in Nat
  BY BurdenNat, BurdenNatNext
<1>3. \/ K * Paid' = K * Paid
      \/ K * Paid' = K * Paid + K /\ Paid' = Paid + 1
  BY <1>1
<1>4. Burden(m)' + retryCount[m] + 2 * (K * Paid)
        <= Burden(m) + retryCount'[m] + 2 * (K * Paid')
  BY <1>1, <1>2, <1>3
<1>5. K * Paid' \in Nat
  BY <1>1, <1>3
<1>6. /\ Burden(m) + 2 * Cardinality(Holding(m)) + Cardinality(Updating(m))
            <= retryCount[m] + 2 * (K * Paid) + 2 * K
      /\ status'[m] \in {"absent", "unsent"} =>
           Burden(m) <= retryCount[m] + 2 * (K * Paid) + Cardinality(Updating(m))
  BY DEF DeadOf
<1> QED BY <1>1, <1>2, <1>4, <1>5, <1>6 DEF DeadOf

LEMMA BurdenConsumer ==
  ASSUME TypeOK, TypeOK', Processor, ConsumerStep, NEW m \in Messages,
         cur \in Messages => Stored(cur)
  PROVE  Burden(m)' + retryCount[m] <= Burden(m) + retryCount'[m]
<1>0. /\ m \in Bodies /\ m # None
      /\ mainQ[m] \in Nat /\ retryQ[m] \in Nat /\ unacked[m] \in Nat /\ dlq[m] \in Nat
      /\ retryCount[m] \in Nat
  BY DEF TypeOK, QueueTypeOK, RepoTypeOK, Bodies, ContractsAssumption
<1>1. CASE Receive
  <2>1. /\ UNCHANGED <<dlq, retryQ, status, retryCount, found, failing, channel>>
        /\ cur = None /\ pc = "idle" /\ pc' \in {"discard", "isProcessed"}
    BY <1>1 DEF TypeOK, ProcessorTypeOK, Calls, Receive, TakeDelivery, repoVars, monitorVars
  <2>2. /\ Setting(m)' = 0 /\ Setting(m) = 0 /\ Stuck(m)' = Stuck(m)
    BY <2>1 DEF Setting, Stuck
  <2>3. Ending(m)' = Ending(m)
    <3>1. PICK b \in Bodies : TakeDelivery(b) /\ cur' = b
      BY <1>1 DEF Receive
    <3>2. CASE b = m
      BY <1>0, <2>1, <3>1, <3>2 DEF TakeDelivery, Minus, Plus, Ending, Open, TypeOK, QueueTypeOK
    <3>3. CASE b # m
      BY <1>0, <2>1, <3>1, <3>3 DEF TakeDelivery, Minus, Plus, Ending, Open, TypeOK, QueueTypeOK
    <3> QED BY <3>2, <3>3
  <2> QED BY <2>1, <2>2, <2>3, BurdenNat DEF Burden
<1>2. CASE CheckInbox \/ GetMessage \/ CallWebhook \/ StoreID \/ Mark \/ Reload
  <2>1. /\ UNCHANGED <<queues, status, retryCount>>
        /\ channel' = channel \/ Nack
        /\ pc # "failed" /\ pc' # "processing"
    BY <1>2 DEF CheckInbox, GetMessage, CallWebhook, SendMessage, StoreID, Mark, Reload, Write,
           Nack, Goto, Return, Die, repoVars, queues
  <2>2. UNCHANGED <<found, failing>> /\ cur' \in {cur, None}
    BY <1>2 DEF CheckInbox, GetMessage, CallWebhook, SendMessage, StoreID, Mark, Reload, Write,
           Goto, Return, TypeOK, ProcessorTypeOK, Calls, ContractsAssumption, monitorVars
  <2>3. Setting(m)' = 0 /\ Stuck(m)' = Stuck(m)
    BY <2>1, <2>2 DEF Setting, Stuck
  <2>4. Ending(m)' <= Ending(m)
    <3>1. Open' => Open
      BY <2>1 DEF Open, Nack, DropChannel, TypeOK, QueueTypeOK, Services
    <3> QED BY <1>0, <2>1, <2>2, <3>1 DEF Ending, queues
  <2> QED BY <2>1, <2>3, <2>4, BurdenNat, BurdenNatNext DEF Burden, queues
<1>3. CASE WriteStatus
  <2>1. /\ UNCHANGED <<queues, channel, retryCount, found, failing>>
        /\ pc' \in {"reload", "idle"} /\ cur' \in {cur, None}
        /\ pc = "failed" => cur' = None
    BY <1>3 DEF WriteStatus, StatusAt, Write, UpdateStatus, Goto, Return, repoVars, monitorVars
  <2>2. Setting(m)' = 0
    BY <2>1 DEF Setting
  <2>3. Ending(m)' <= Ending(m)
    BY <1>0, <2>1 DEF Ending, Open, queues
  <2>4. Stuck(m)' <= Stuck(m) + Setting(m)
    <3>1. CASE cur = m /\ pc = "processing"
      BY <3>1 DEF Setting, Stuck
    <3>2. CASE ~(cur = m /\ pc = "processing")
      <4>1. status'[m] = status[m] \/ status'[m] # "processing"
        BY <1>3, <3>2 DEF WriteStatus, StatusAt, Write, UpdateStatus, TypeOK, RepoTypeOK, repoVars
      <4> QED BY <2>1, <3>2, <4>1 DEF Setting, Stuck
    <3> QED BY <3>1, <3>2
  <2> QED BY <2>1, <2>2, <2>3, <2>4, BurdenNat, BurdenNatNext DEF Burden, queues
<1>4. CASE Increment
  <2>1. /\ UNCHANGED <<queues, channel, status, found, failing>>
        /\ pc = "increment" /\ cur \in Messages
        /\ (pc' = "processing" /\ cur' = cur) \/ (pc' = "idle" /\ cur' = None)
    BY <1>4 DEF Increment, Write, IncrementRetryCount, Goto, Return, TypeOK, ProcessorTypeOK,
       repoVars, monitorVars
  <2>2. Stuck(m)' = Stuck(m)
    BY <2>1 DEF Stuck
  <2>3. Ending(m)' <= Ending(m)
    BY <1>0, <2>1 DEF Ending, Open, queues
  <2>4. Setting(m)' + retryCount[m] <= retryCount'[m]
    <3>1. CASE cur = m /\ pc' = "processing"
      <4>1. IncrementRetryCount(m)
        BY <1>4, <2>1, <3>1 DEF Increment, Write, Return
      <4>2. retryCount'[m] = retryCount[m] + 1
        BY <1>0, <2>1, <3>1, <4>1 DEF IncrementRetryCount, TypeOK, RepoTypeOK
      <4> QED BY <1>0, <4>2 DEF Setting
    <3>2. CASE ~(cur = m /\ pc' = "processing")
      <4>1. Setting(m)' = 0
        BY <1>0, <2>1, <3>2 DEF Setting
      <4>2. retryCount'[m] \in {retryCount[m], retryCount[m] + 1}
        BY <1>0, <1>4 DEF Increment, Write, IncrementRetryCount, TypeOK, RepoTypeOK, repoVars
      <4> QED BY <1>0, <4>1, <4>2
    <3> QED BY <3>1, <3>2
  <2> QED BY <2>1, <2>2, <2>3, <2>4, BurdenNat, BurdenNatNext DEF Burden, queues
<1>5. CASE RetryLater
  <2>1. /\ UNCHANGED <<dlq, mainQ, unacked, channel, status, retryCount, found, failing>>
        /\ pc = "retry" /\ pc' = "idle" /\ cur' = None
        /\ retryQ' = retryQ \/ (Open /\ retryQ' = Plus(retryQ, cur))
    BY <1>5 DEF RetryLater, MoveToRetryQueue, Publish, Return, Open, queues, repoVars, monitorVars
  <2>2. Stuck(m)' = Stuck(m) /\ Setting(m)' = 0 /\ Setting(m) = 0
    BY <2>1 DEF Stuck, Setting
  <2>3. Ending(m)' <= Ending(m)
    BY <1>0, <2>1 DEF Ending, Open, Plus, TypeOK, QueueTypeOK
  <2> QED BY <2>1, <2>2, <2>3, BurdenNat, BurdenNatNext DEF Burden
<1>6. CASE DeadLetter
  <2>1. /\ UNCHANGED <<mainQ, retryQ, unacked, channel, status, retryCount, found, failing>>
        /\ pc = "deadLetter" /\ pc' = "failed" /\ cur' = cur
        /\ dlq' = dlq \/ (Open /\ dlq' = Plus(dlq, cur))
    BY <1>6 DEF DeadLetter, MoveToDeadLetter, Publish, Goto, Open, queues, repoVars, monitorVars
  <2>2. Stuck(m)' = Stuck(m) /\ Setting(m)' = 0 /\ Setting(m) = 0
    BY <2>1 DEF Stuck, Setting
  <2>3. dlq'[m] + Ending(m)' <= dlq[m] + Ending(m)
    BY <1>0, <2>1 DEF Ending, Open, Plus, TypeOK, QueueTypeOK
  <2> QED BY <2>1, <2>2, <2>3, BurdenNat, BurdenNatNext DEF Burden
<1>7. CASE Discard
  <2>1. /\ UNCHANGED <<mainQ, retryQ, unacked, channel, status, retryCount, found, failing>>
        /\ cur \notin Messages /\ cur' = None /\ pc' = "idle"
        /\ dlq' = dlq \/ dlq' = Plus(dlq, cur)
    BY <1>7 DEF Discard, MoveToDeadLetter, Publish, Return, queues, repoVars, monitorVars,
       TypeOK, ProcessorTypeOK, Calls, ContractsAssumption
  <2>2. Stuck(m)' = Stuck(m) /\ Setting(m)' = 0 /\ Ending(m)' <= Ending(m)
    BY <1>0, <2>1 DEF Stuck, Setting, Ending, Open
  <2>3. dlq'[m] = dlq[m]
    BY <1>0, <2>1 DEF Plus, TypeOK, QueueTypeOK
  <2> QED BY <2>1, <2>2, <2>3, BurdenNat, BurdenNatNext DEF Burden
<1> QED BY <1>1, <1>2, <1>3, <1>4, <1>5, <1>6, <1>7 DEF ConsumerStep

\* The monitor and the restarts: one more only for a fault, and only for a message
\* that is being recovered or in processing.
LEMMA BurdenMonitor ==
  ASSUME TypeOK, TypeOK', Processor, ~Open => faults > 0,
         MonitorStep \/ ProcessorCrash \/ ProcessorRestart, NEW m \in Messages
  PROVE  /\ retryCount'[m] = retryCount[m]
         /\ \/ Burden(m)' <= Burden(m)
            \/ /\ status[m] = "processing" \/ m \in found \/ failing = m
               /\ Burden(m)' <= Burden(m) + 1 /\ Paid' = Paid + 1
<1>0. /\ m \in Bodies /\ m # None
      /\ mainQ[m] \in Nat /\ retryQ[m] \in Nat /\ unacked[m] \in Nat /\ dlq[m] \in Nat
      /\ retryCount[m] \in Nat
  BY DEF TypeOK, QueueTypeOK, RepoTypeOK, Bodies, ContractsAssumption
<1>1. retryCount' = retryCount
  BY DEF MonitorStep, CheckStaleMessages, RecoverDeadLetter, RecoverStatus, Write,
     UpdateStatus, ProcessorCrash, ProcessorRestart, repoVars
<1>2. CASE CheckStaleMessages
  <2>1. /\ UNCHANGED <<queues, channel, status, pc, cur, failing>>
        /\ found = {} /\ failing = None
        /\ m \in found' => status[m] = "processing"
    BY <1>2 DEF CheckStaleMessages, FindStaleProcessingMessages, repoVars, consumerVars
  <2>2. Stuck(m)' = Stuck(m) /\ Setting(m)' = Setting(m) /\ Ending(m)' = Ending(m)
    BY <1>0, <2>1 DEF Stuck, Setting, Ending, Open, queues
  <2> QED BY <1>1, <2>1, <2>2, BurdenNat DEF Burden, queues
<1>3. CASE RecoverDeadLetter
  <2>1. PICK n \in found : MoveToDeadLetter(n, failing' = n /\ UNCHANGED found,
                                            found' = found \ {n} /\ UNCHANGED failing)
    BY <1>3 DEF RecoverDeadLetter
  <2>2. /\ UNCHANGED <<mainQ, retryQ, unacked, channel, status, pc, cur>> /\ failing = None
    BY <1>3 DEF RecoverDeadLetter, MoveToDeadLetter, Publish, queues, repoVars, consumerVars
  <2>3. Setting(m)' = Setting(m) /\ Ending(m)' = Ending(m)
    BY <2>2 DEF Setting, Ending, Open
  <2>4. dlq'[m] + Stuck(m)' <= dlq[m] + Stuck(m)
    <3>1. CASE n = m
      BY <1>0, <2>1, <2>2, <3>1 DEF MoveToDeadLetter, Publish, Plus, Stuck, queues, TypeOK,
         QueueTypeOK
    <3>2. CASE n # m
      BY <1>0, <2>1, <2>2, <3>2 DEF MoveToDeadLetter, Publish, Plus, Stuck, queues, TypeOK,
         QueueTypeOK
    <3> QED BY <3>1, <3>2
  <2> QED BY <1>1, <2>3, <2>4, BurdenNat, BurdenNatNext DEF Burden
<1>4. CASE RecoverStatus
  <2>1. /\ UNCHANGED <<queues, channel, pc, cur>> /\ failing # None
        /\ found' = found \ {failing} /\ failing' = None
    BY <1>4 DEF RecoverStatus, Write, consumerVars
  <2>2. Setting(m)' = Setting(m) /\ Ending(m)' = Ending(m) /\ dlq' = dlq
    BY <2>1 DEF Setting, Ending, Open, queues
  <2>3. CASE failing = m /\ faults' = faults + 1
    <3>1. Paid' = Paid + 1
      BY <2>1, <2>3 DEF Paid, Open, TypeOK
    <3>2. Stuck(m)' <= Stuck(m) + 1
      BY DEF Stuck
    <3> QED BY <1>1, <2>2, <2>3, <3>1, <3>2, BurdenNat, BurdenNatNext DEF Burden
  <2>4. CASE failing = m /\ faults' = faults
    <3>1. UpdateStatus(m, "failed")
      BY <1>4, <2>4 DEF RecoverStatus, Write, NoFault, Fault, TypeOK
    <3>2. status'[m] # "processing"
      BY <3>1 DEF UpdateStatus, Stored, Statuses, TypeOK, RepoTypeOK
    <3>3. Stuck(m)' = 0
      BY <2>1, <2>4, <3>2 DEF Stuck
    <3> QED BY <1>1, <2>2, <3>3, BurdenNat, BurdenNatNext DEF Burden
  <2>5. CASE failing # m
    <3>1. status'[m] = status[m]
      BY <1>4, <2>5 DEF RecoverStatus, Write, UpdateStatus, TypeOK, RepoTypeOK, repoVars
    <3>2. Stuck(m)' = Stuck(m)
      BY <1>0, <2>1, <2>5, <3>1 DEF Stuck
    <3> QED BY <1>1, <2>2, <3>2, BurdenNat, BurdenNatNext DEF Burden
  <2>6. faults' = faults \/ faults' = faults + 1
    BY <1>4 DEF RecoverStatus, Write, NoFault, Fault
  <2> QED BY <2>3, <2>4, <2>5, <2>6
<1>5. CASE ProcessorCrash
  <2>1. /\ UNCHANGED <<queues, channel, status>> /\ pc' = "down" /\ cur' = None
        /\ found' = {} /\ failing' = None /\ faults' = faults + 1
    BY <1>5 DEF ProcessorCrash, Die, Fault, repoVars
  <2>2. Setting(m)' = 0 /\ Ending(m)' <= Ending(m) /\ dlq' = dlq
    BY <1>0, <2>1 DEF Setting, Ending, Open, queues
  <2>3. Paid' = Paid + 1
    BY <2>1 DEF Paid, Open, TypeOK
  <2>4. \/ Stuck(m)' <= Stuck(m)
        \/ status[m] = "processing" /\ Stuck(m)' <= Stuck(m) + 1
    BY <2>1 DEF Stuck
  <2>5. CASE Stuck(m)' <= Stuck(m)
    BY <1>1, <2>2, <2>5, BurdenNat, BurdenNatNext DEF Burden
  <2>6. CASE status[m] = "processing" /\ Stuck(m)' <= Stuck(m) + 1
    BY <1>1, <2>2, <2>3, <2>6, BurdenNat, BurdenNatNext DEF Burden
  <2> QED BY <2>4, <2>5, <2>6
<1>6. CASE ProcessorRestart
  <2>1. /\ UNCHANGED <<retryQ, dlq, status, found, failing>>
        /\ cur = None /\ cur' = None
        /\ mainQ'[m] = mainQ[m] + unacked[m] /\ unacked'[m] = 0
    BY <1>0, <1>6 DEF ProcessorRestart, OpenChannel, Empty, repoVars, monitorVars, TypeOK,
       ProcessorTypeOK, Calls
  <2>2. Setting(m)' = 0 /\ Setting(m) = 0 /\ Stuck(m)' = Stuck(m) /\ Ending(m)' = Ending(m)
    BY <1>0, <2>1 DEF Setting, Stuck, Ending
  <2> QED BY <1>1, <2>1, <2>2, BurdenNat DEF Burden
<1> QED BY <1>2, <1>3, <1>4, <1>5, <1>6 DEF MonitorStep

LEMMA BurdenEnvironment ==
  ASSUME TypeOK, TypeOK', Environment, "drop" \notin Faults, NEW m \in Messages
  PROVE  retryCount'[m] = retryCount[m] /\ Burden(m)' <= Burden(m) /\ status'[m] = status[m]
<1>0. /\ m \in Bodies /\ m \notin Malformed \cup InvalidIDs
      /\ mainQ[m] \in Nat /\ retryQ[m] \in Nat /\ unacked[m] \in Nat /\ dlq[m] \in Nat
      /\ retryCount[m] \in Nat
  BY DEF TypeOK, QueueTypeOK, RepoTypeOK, Bodies, ContractsAssumption
<1>1. UNCHANGED <<status, retryCount, pc, cur, found, failing>>
  BY DEF Environment, MongoDB, RabbitMQ, Redis, TimePasses, Fault, repoVars, consumerVars,
     monitorVars
<1>2. Setting(m)' = Setting(m) /\ Stuck(m)' = Stuck(m)
  BY <1>1 DEF Setting, Stuck
<1>3. Ending(m)' <= Ending(m) /\ dlq'[m] <= dlq[m]
  <2>1. CASE MongoDB \/ Redis
    BY <1>0, <1>1, <2>1 DEF MongoDB, Redis, Ending, Open, queues
  <2>2. ASSUME NEW b \in Bodies, RetryExpires(b)
        PROVE  Ending(m)' <= Ending(m) /\ dlq'[m] <= dlq[m]
    BY <1>0, <1>1, <2>2 DEF RetryExpires, Plus, Minus, TypeOK, QueueTypeOK, Ending, Open
  <2>3. ASSUME NEW b \in Bodies, ForeignPublish(b)
        PROVE  Ending(m)' <= Ending(m) /\ dlq'[m] <= dlq[m]
    BY <1>0, <1>1, <2>3 DEF ForeignPublish, Plus, TypeOK, QueueTypeOK, Ending, Open
  <2>4. ASSUME NEW s \in Services, ConnectionLost(s) \/ ChannelCloses(s)
        PROVE  Ending(m)' <= Ending(m) /\ dlq'[m] <= dlq[m]
    BY <1>0, <1>1, <2>4 DEF ConnectionLost, ChannelCloses, DropChannel, TypeOK, QueueTypeOK,
           Services, Ending, Open, queues
  <2>5. CASE BrokerRestarts
    <3>1. mainQ'[m] <= mainQ[m] /\ unacked'[m] <= unacked[m]
      BY <1>0, <2>5, SurvivorsAreFewer DEF BrokerRestarts, TypeOK, QueueTypeOK
    <3>2. retryQ'[m] = 0 /\ dlq'[m] = 0 /\ mainQ'[m] \in Nat /\ unacked'[m] \in Nat
      BY <1>0, <2>5 DEF BrokerRestarts, Empty, TypeOK, QueueTypeOK
    <3>3. ~Open'
      BY <2>5 DEF BrokerRestarts, Open, TypeOK, QueueTypeOK, Services
    <3> QED BY <1>0, <3>1, <3>2, <3>3 DEF Ending
  <2> QED BY <2>1, <2>2, <2>3, <2>4, <2>5 DEF Environment, RabbitMQ
<1> QED BY <1>1, <1>2, <1>3, BurdenNat, BurdenNatNext DEF Burden

LEMMA KnownProcessor ==
  ASSUME NEW K \in Nat, TypeOK, BusyInv, CopiesInv(K), \A n \in Messages : KnownOf(K, n), Processor,
         NEW m \in Messages
  PROVE  KnownOf(K, m)'
<1>0. m \in Bodies /\ m # None /\ KnownOf(K, m)
  BY DEF Bodies, ContractsAssumption
<1>1. cur = m => K > 0
  BY DEF CopiesInv
<1>2. \/ status'[m] = status[m]
      \/ status'[m] \in Statuses \ {"processing"}
      \/ status'[m] = "processing" /\ cur = m
  <2>1. CASE ConsumerStep
    BY <2>1 DEF ConsumerStep, Receive, CheckInbox, GetMessage, CallWebhook, StoreID, Mark,
       WriteStatus, StatusAt, Increment, Reload, RetryLater, DeadLetter, Discard, Write,
       UpdateStatus, IncrementRetryCount, Statuses, TypeOK, RepoTypeOK, repoVars
  <2>2. CASE MonitorStep \/ ProcessorCrash \/ ProcessorRestart
    BY <2>2 DEF MonitorStep, CheckStaleMessages, RecoverDeadLetter, RecoverStatus, Write,
       UpdateStatus, ProcessorCrash, ProcessorRestart, Statuses, TypeOK, RepoTypeOK, repoVars
  <2> QED BY <2>1, <2>2 DEF Processor, ProcessorStep
<1>3. retryCount'[m] = retryCount[m] \/ Stored(m)
  <2>1. CASE ConsumerStep
    BY <2>1 DEF ConsumerStep, Receive, CheckInbox, GetMessage, CallWebhook, StoreID, Mark,
       WriteStatus, Increment, Reload, RetryLater, DeadLetter, Discard, Write,
       UpdateStatus, IncrementRetryCount, TypeOK, RepoTypeOK, repoVars
  <2>2. CASE MonitorStep \/ ProcessorCrash \/ ProcessorRestart
    BY <2>2 DEF MonitorStep, CheckStaleMessages, RecoverDeadLetter, RecoverStatus, Write,
       UpdateStatus, ProcessorCrash, ProcessorRestart, repoVars
  <2> QED BY <2>1, <2>2 DEF Processor, ProcessorStep
<1>4. cur' \in {cur, None} \/ mainQ[cur'] > 0
  <2>1. CASE ConsumerStep
    BY <2>1 DEF ConsumerStep, Receive, TakeDelivery, CheckInbox, GetMessage, CallWebhook,
       SendMessage, StoreID, Mark, WriteStatus, Increment, Reload, RetryLater, DeadLetter,
       Discard, Write, MoveToRetryQueue, MoveToDeadLetter, Publish, Goto, Return, Die
  <2>2. CASE MonitorStep \/ ProcessorCrash \/ ProcessorRestart
    BY <2>2 DEF MonitorStep, CheckStaleMessages, RecoverDeadLetter, RecoverStatus,
       ProcessorCrash, ProcessorRestart, Die, consumerVars
  <2> QED BY <2>1, <2>2 DEF Processor, ProcessorStep
<1>5. /\ m \in found' => m \in found \/ status[m] = "processing"
      /\ failing' = m => failing = m \/ m \in found
  <2>1. CASE ConsumerStep
    BY <1>0, <2>1 DEF ConsumerStep, Receive, CheckInbox, GetMessage, CallWebhook, StoreID, Mark,
       WriteStatus, Increment, Reload, RetryLater, DeadLetter, Discard, Die, monitorVars
  <2>2. CASE MonitorStep \/ ProcessorCrash \/ ProcessorRestart
    BY <1>0, <2>2 DEF MonitorStep, CheckStaleMessages, FindStaleProcessingMessages,
       RecoverDeadLetter, MoveToDeadLetter, Publish, RecoverStatus, Write, ProcessorCrash,
       ProcessorRestart, Die, monitorVars
  <2> QED BY <2>1, <2>2 DEF Processor, ProcessorStep
<1>6. status'[m] # "dropped" /\ (status'[m] = "absent" => status[m] = "absent")
  BY <1>0, <1>2 DEF KnownOf, Statuses
<1>7. status'[m] = "absent" => retryCount'[m] = 0 /\ cur' # m
  <2> SUFFICES ASSUME status[m] = "absent" PROVE retryCount'[m] = 0 /\ cur' # m
    BY <1>6
  <2>1. retryCount[m] = 0 /\ cur # m /\ ~Stored(m)
    BY <1>0 DEF KnownOf, Stored, Statuses
  <2>2. mainQ[m] = 0
    BY <1>0, CopiesNat DEF CopiesInv, CopiesOf, Copies
  <2> QED BY <1>0, <1>3, <1>4, <2>1, <2>2
<1>8. status'[m] = "processing" \/ m \in found' \/ failing' = m => K > 0
  BY <1>0, <1>1, <1>2, <1>5 DEF KnownOf, Statuses
<1> QED BY <1>6, <1>7, <1>8 DEF KnownOf

LEMMA DeadProcessor ==
  ASSUME NEW K \in Nat, TypeOK, TypeOK', Hands(K), CopiesInv(K), DeadInv(K), Processor
  PROVE  DeadInv(K)'
<1>1. \A n \in Messages : KnownOf(K, n)
  BY DEF DeadInv
<1>2. \A m \in Messages : KnownOf(K, m)'
  BY <1>1, KnownProcessor DEF Hands
<1>3. (~Open => faults > 0) /\ Paid' \in {Paid, Paid + 1}
  BY PaidStep DEF CopiesInv
<1>4. ASSUME NEW m \in Messages
      PROVE  \/ Burden(m)' + retryCount[m] <= Burden(m) + retryCount'[m]
             \/ /\ K > 0 /\ Paid' = Paid + 1
                /\ Burden(m)' + retryCount[m] <= Burden(m) + retryCount'[m] + 1
  <2>1. CASE ConsumerStep
    <3>1. cur \in Messages => Stored(cur)
      BY <1>1 DEF KnownOf, Stored, TypeOK, RepoTypeOK
    <3> QED BY <2>1, <3>1, BurdenConsumer
  <2>2. CASE MonitorStep \/ ProcessorCrash \/ ProcessorRestart
    <3>1. /\ retryCount'[m] = retryCount[m]
          /\ \/ Burden(m)' <= Burden(m)
             \/ /\ status[m] = "processing" \/ m \in found \/ failing = m
                /\ Burden(m)' <= Burden(m) + 1 /\ Paid' = Paid + 1
      BY <1>3, <2>2, BurdenMonitor
    <3>2. status[m] = "processing" \/ m \in found \/ failing = m => K > 0
      BY <1>1 DEF KnownOf
    <3>3. Burden(m) \in Nat /\ Burden(m)' \in Nat /\ retryCount[m] \in Nat
      BY BurdenNat, BurdenNatNext
    <3> QED BY <3>1, <3>2, <3>3
  <2> QED BY <2>1, <2>2 DEF Processor, ProcessorStep
<1>5. \A m \in Messages : DeadOf(K, m)'
  BY <1>3, <1>4, OutboxKept, DeadFrame DEF DeadInv
<1> QED BY <1>2, <1>5 DEF DeadInv

LEMMA DeadEnvironment ==
  ASSUME NEW K \in Nat, TypeOK, TypeOK', Hands(K), CopiesInv(K), DeadInv(K), Environment,
         "drop" \notin Faults
  PROVE  DeadInv(K)'
<1>1. Paid' \in {Paid, Paid + 1}
  BY PaidStep DEF CopiesInv
<1>2. ASSUME NEW m \in Messages
      PROVE  DeadOf(K, m)' /\ KnownOf(K, m)'
  <2>1. /\ retryCount'[m] = retryCount[m] /\ Burden(m)' <= Burden(m)
        /\ status'[m] = status[m]
    BY BurdenEnvironment
  <2>2. Burden(m)' + retryCount[m] <= Burden(m) + retryCount'[m]
    BY <2>1, BurdenNat, BurdenNatNext
  <2>3. DeadOf(K, m)'
    BY <1>1, <2>1, <2>2, OutboxKept, DeadFrame DEF DeadInv
  <2>4. KnownOf(K, m)'
    BY <2>1 DEF DeadInv, KnownOf, Environment, consumerVars, monitorVars
  <2> QED BY <2>3, <2>4
<1> QED BY <1>2 DEF DeadInv

\* The invariant of one message in numbers, as Room for the copies.
LEMMA DeadRoom ==
  ASSUME NEW K \in Nat, TypeOK, Hands(K), CopiesInv(K), DeadInv(K), NEW m \in Messages
  PROVE  /\ Burden(m) \in Nat /\ retryCount[m] \in Nat /\ KnownOf(K, m)
         /\ Burden(m) + 2 * Cardinality(Holding(m)) + Cardinality(Updating(m))
              <= retryCount[m] + 2 * (K * Paid) + 2 * K
         /\ status[m] \in {"absent", "unsent"} =>
              Burden(m) <= retryCount[m] + 2 * (K * Paid) + Cardinality(Updating(m))
BY BurdenNat DEF DeadInv, DeadOf

\* A publication adds the copy, the status set after it is the other half of its
\* price, and both were foreseen when the message was fetched.
LEMMA DeadRunner ==
  ASSUME NEW K \in Nat, TypeOK, TypeOK', Hands(K), Hands(K)', CopiesInv(K), DeadInv(K),
         Sender, NEW r \in Runners, RunnerStep(r), NEW m \in Messages
  PROVE  DeadOf(K, m)' /\ KnownOf(K, m)'
<1>1. /\ UNCHANGED <<pc, cur, found, failing, retryQ, dlq, unacked, channel, retryCount>>
      /\ \/ faults' = faults /\ Paid' = Paid
         \/ faults' = faults + 1 /\ Paid' = Paid + 1
  BY RunnerPays DEF CopiesInv
<1>2. KnownOf(K, m)
  BY DEF DeadInv
<1>3. /\ mainQ'[m] = mainQ[m] => Ending(m)' = Ending(m)
      /\ mainQ'[m] = mainQ[m] + 1 => Ending(m)' = Ending(m) + 1
  BY <1>1 DEF Ending, Open, TypeOK, QueueTypeOK, Bodies
<1>4. Setting(m)' = Setting(m) /\ (status'[m] = status[m] => Stuck(m)' = Stuck(m))
  BY <1>1 DEF Setting, Stuck
<1>5. /\ mainQ'[m] = mainQ[m] /\ status'[m] = status[m] => Burden(m)' = Burden(m)
      /\ mainQ'[m] = mainQ[m] + 1 /\ status'[m] = status[m] => Burden(m)' = Burden(m) + 1
      /\ mainQ'[m] = mainQ[m] => Burden(m)' <= Burden(m) + 1
  BY <1>1, <1>3, <1>4, BurdenNat, BurdenNatNext DEF Burden
<1>6. K * Paid \in Nat /\ K * (Paid + 1) = K * Paid + K
  BY Room
<1>7. CASE Untouched(m)
  <2>1. KnownOf(K, m)'
    BY <1>1, <1>2, <1>7 DEF Untouched, KnownOf
  <2>2. CASE Paid' = Paid
    BY <1>1, <1>5, <1>7, <2>1, <2>2, DeadRoom DEF Untouched, DeadOf
  <2>3. CASE Paid' = Paid + 1
    BY <1>1, <1>5, <1>6, <1>7, <2>1, <2>3, Room, DeadRoom DEF Untouched, DeadOf
  <2> QED BY <1>1, <2>2, <2>3
<1>8. CASE Fetched(K, m)
  <2>1. KnownOf(K, m)'
    BY <1>1, <1>2, <1>8 DEF Fetched, KnownOf
  <2>2. Paid' = Paid
    BY <1>1, <1>8 DEF Fetched, TypeOK
  <2>3. Burden(m)' = Burden(m)
    BY <1>5, <1>8 DEF Fetched
  <2> QED BY <1>1, <1>6, <1>8, <2>1, <2>2, <2>3, Room, DeadRoom DEF Fetched, DeadOf
<1>9. CASE HandedOn(m)
  <2>1. KnownOf(K, m)'
    BY <1>1, <1>2, <1>9 DEF HandedOn, KnownOf
  <2>2. Paid' = Paid
    BY <1>1, <1>9 DEF HandedOn, TypeOK
  <2>3. \/ /\ Cardinality(Updating(m)') = Cardinality(Updating(m))
           /\ Burden(m)' = Burden(m)
        \/ /\ Cardinality(Updating(m)') = Cardinality(Updating(m)) + 1
           /\ Burden(m)' \in {Burden(m), Burden(m) + 1}
    BY <1>5, <1>9 DEF HandedOn
  <2>4. Cardinality(Holding(m)') = Cardinality(Holding(m)) - 1 /\ status' = status
    BY <1>9 DEF HandedOn
  <2> QED BY <1>1, <1>6, <2>1, <2>2, <2>3, <2>4, Room, DeadRoom DEF DeadOf
<1>10. CASE Marked(m)
  <2>1. /\ Cardinality(Updating(m)') = Cardinality(Updating(m)) - 1
        /\ Cardinality(Updating(m)') \in Nat /\ Cardinality(Updating(m)) \in Nat
        /\ Updating(m) # {} /\ Cardinality(Holding(m)') = Cardinality(Holding(m))
    BY <1>10, Room DEF Marked
  <2>2. K > 0
    BY <2>1, Room
  <2>3. KnownOf(K, m)'
    BY <1>1, <1>2, <1>10, <2>2 DEF Marked, KnownOf
  <2>4. CASE status'[m] = "processing"
    <3>1. Burden(m)' <= Burden(m) + 1 /\ Burden(m)' \in Nat
      BY <1>5, <1>10, BurdenNatNext DEF Marked
    <3>2. CASE Paid' = Paid
      BY <1>1, <1>6, <2>1, <2>3, <2>4, <3>1, <3>2, Room, DeadRoom DEF DeadOf
    <3>3. CASE Paid' = Paid + 1
      BY <1>1, <1>6, <2>1, <2>3, <2>4, <3>1, <3>3, Room, DeadRoom DEF DeadOf
    <3> QED BY <1>1, <3>2, <3>3
  <2>5. CASE status'[m] = status[m] /\ (faults' = faults => ~Stored(m))
    <3>1. Burden(m)' = Burden(m)
      BY <1>5, <1>10, <2>5 DEF Marked
    <3>2. CASE Paid' = Paid
      <4>1. status[m] \notin {"absent", "unsent"}
        <5>1. status[m] # "absent"
          BY <2>1, Room
        <5>2. ~Stored(m)
          BY <1>1, <2>5, <3>2, Room
        <5> QED BY <5>1, <5>2 DEF Stored, Statuses
      <4> QED BY <1>1, <1>6, <2>1, <2>3, <2>5, <3>1, <3>2, <4>1, Room, DeadRoom DEF DeadOf
    <3>3. CASE Paid' = Paid + 1
      BY <1>1, <1>6, <2>1, <2>2, <2>3, <2>5, <3>1, <3>3, Room, DeadRoom DEF DeadOf
    <3> QED BY <1>1, <3>2, <3>3
  <2> QED BY <1>10, <2>4, <2>5 DEF Marked
<1> QED BY <1>7, <1>8, <1>9, <1>10, RunnerMoves

LEMMA DeadSender ==
  ASSUME NEW K \in Nat, TypeOK, TypeOK', Hands(K), Hands(K)', CopiesInv(K), DeadInv(K), Sender
  PROVE  DeadInv(K)'
<1>0. UNCHANGED <<pc, cur, found, failing>>
  BY DEF Sender, consumerVars, monitorVars
<1>1. CASE CreateMessage
  <2>1. UNCHANGED <<mainQ, retryQ, dlq, unacked, channel, faults, rpc, batch, rcur>>
    BY <1>1 DEF CreateMessage, queues, senderVars
  <2>2. ASSUME NEW m \in Messages PROVE DeadOf(K, m)' /\ KnownOf(K, m)'
    <3>1. /\ Ending(m)' = Ending(m) /\ Setting(m)' = Setting(m) /\ dlq' = dlq
          /\ Holding(m)' = Holding(m) /\ Updating(m)' = Updating(m) /\ Paid' = Paid
      BY <1>0, <2>1 DEF Ending, Setting, Open, Holding, Updating, Paid
    <3>2. \/ status'[m] = status[m]
          \/ status[m] = "absent" /\ status'[m] = "unsent"
      BY <1>1 DEF CreateMessage, InsertMessage, TypeOK, RepoTypeOK
    <3>3. retryCount'[m] = retryCount[m]
      BY <1>1 DEF CreateMessage, InsertMessage, DeadInv, KnownOf, TypeOK, RepoTypeOK
    <3>4. Stuck(m)' = Stuck(m)
      BY <1>0, <3>2 DEF Stuck
    <3>5. Burden(m)' = Burden(m)
      BY <3>1, <3>4 DEF Burden
    <3>6. DeadOf(K, m)'
      BY <3>1, <3>2, <3>3, <3>5 DEF DeadInv, DeadOf
    <3>7. KnownOf(K, m)'
      BY <1>0, <3>2, <3>3 DEF DeadInv, KnownOf
    <3> QED BY <3>6, <3>7
  <2> QED BY <2>2 DEF DeadInv
<1>2. CASE SenderRestart
  <2>1. /\ UNCHANGED <<mainQ, retryQ, dlq, unacked, status, retryCount>>
        /\ channel'["processor"] = channel["processor"]
        /\ faults' = faults + 1
    BY <1>2 DEF SenderRestart, OpenChannel, Fault, repoVars, TypeOK, QueueTypeOK, Services
  <2>2. Paid' = Paid + 1
    <3>1. faults \in Nat
      BY DEF TypeOK
    <3> QED BY <2>1, <3>1 DEF Paid, Open
  <2>3. ASSUME NEW m \in Messages PROVE DeadOf(K, m)' /\ KnownOf(K, m)'
    <3>1. Holding(m)' = {} /\ Updating(m)' = {}
      BY <1>2 DEF SenderRestart, Holding, Updating
    <3>2. Cardinality({}) = 0
      BY FS_EmptySet
    <3>3. Cardinality(Holding(m)') = 0 /\ Cardinality(Updating(m)') = 0
      BY <3>1, <3>2, Zenon
    <3>4. Burden(m)' = Burden(m)
      BY <1>0, <2>1 DEF Burden, Ending, Setting, Stuck, Open
    <3>5. K * Paid \in Nat /\ K * (Paid + 1) = K * Paid + K
      BY Room
    <3>6. DeadOf(K, m)'
      BY <2>1, <2>2, <3>3, <3>4, <3>5, Room, DeadRoom DEF DeadOf
    <3>7. KnownOf(K, m)'
      BY <1>0, <2>1 DEF DeadInv, KnownOf
    <3> QED BY <3>6, <3>7
  <2> QED BY <2>3 DEF DeadInv
<1>3. ASSUME NEW r \in Runners, StartScheduler(r) \/ StopScheduler(r)
      PROVE  DeadInv(K)'
  <2>1. UNCHANGED <<mainQ, retryQ, dlq, unacked, channel, faults, status, retryCount, batch, rcur>>
    BY <1>3 DEF StartScheduler, StopScheduler, repoVars, queues
  <2>2. ASSUME NEW m \in Messages
        PROVE  /\ Holding(m)' = Holding(m) /\ Updating(m)' = Updating(m)
               /\ Burden(m)' = Burden(m) /\ Paid' = Paid
    <3>1. Holding(m)' = Holding(m) /\ Updating(m)' = Updating(m)
      BY <1>3 DEF StartScheduler, StopScheduler, Holding, Updating, TypeOK, SenderTypeOK
    <3> QED BY <1>0, <2>1, <3>1 DEF Burden, Ending, Setting, Stuck, Open, Paid
  <2> QED BY <1>0, <2>1, <2>2 DEF DeadInv, DeadOf, KnownOf
<1>4. ASSUME NEW r \in Runners, RunnerStep(r)
      PROVE  DeadInv(K)'
  BY <1>4, DeadRunner DEF DeadInv
<1> QED BY <1>1, <1>2, <1>3, <1>4 DEF Sender, SenderStep

LEMMA DeadStutter ==
  ASSUME NEW K \in Nat, DeadInv(K), UNCHANGED vars PROVE DeadInv(K)'
<1>1. UNCHANGED <<status, retryCount, mainQ, retryQ, dlq, unacked, channel, faults, pc, cur,
                  found, failing, rpc, batch, rcur>>
  BY DEF vars, repoVars, queues, consumerVars, monitorVars, senderVars
<1>2. ASSUME NEW m \in Messages
      PROVE  /\ Burden(m)' = Burden(m) /\ Paid' = Paid
             /\ Holding(m)' = Holding(m) /\ Updating(m)' = Updating(m)
  BY <1>1 DEF Burden, Ending, Setting, Stuck, Holding, Updating, Open, Paid
<1> QED BY <1>1, <1>2 DEF DeadInv, DeadOf, KnownOf

LEMMA DeadStep ==
  ASSUME NEW K \in Nat, "drop" \notin Faults, TypeOK, TypeOK', Hands(K), Hands(K)',
         CopiesInv(K), DeadInv(K), [Next]_vars
  PROVE  DeadInv(K)'
BY DeadSender, DeadProcessor, DeadEnvironment, DeadStutter DEF Next

LEMMA DeadInit == ASSUME NEW K \in Nat, Init PROVE DeadInv(K)
<1>0. Open /\ faults = 0 /\ cur = None /\ pc = "idle" /\ found = {} /\ failing = None
  BY DEF Init, QueueInit, ProcessorInit, Open, Services
<1>1. Paid = 0
  BY <1>0 DEF Paid, Open
<1>2. Cardinality({}) = 0
  BY FS_EmptySet
<1>3. ASSUME NEW m \in Messages
      PROVE  DeadOf(K, m) /\ KnownOf(K, m)
  <2>1. /\ m # None /\ status[m] = "absent" /\ retryCount[m] = 0
        /\ dlq[m] = 0 /\ mainQ[m] = 0 /\ retryQ[m] = 0 /\ unacked[m] = 0
    BY DEF Init, QueueInit, RepoInit, Empty, Bodies, ContractsAssumption
  <2>2. Holding(m) = {} /\ Updating(m) = {}
    BY DEF Init, SenderInit, Holding, Updating
  <2>3. Cardinality(Holding(m)) = 0 /\ Cardinality(Updating(m)) = 0
    BY <1>2, <2>2, Zenon
  <2>4. Burden(m) = 0
    BY <1>0, <2>1 DEF Burden, Ending, Setting, Stuck
  <2>5. K * Paid = 0
    BY <1>1
  <2> QED BY <1>0, <1>1, <2>1, <2>3, <2>4, <2>5 DEF DeadOf, KnownOf
<1> QED BY <1>3 DEF DeadInv

LEMMA DeadBound ==
  ASSUME NEW K \in Nat, TypeOK, Hands(K), CopiesInv(K), DeadInv(K), NEW m \in Messages
  PROVE  dlq[m] <= retryCount[m] + 2 * (K * (1 + faults))
<1>1. /\ dlq[m] \in Nat /\ retryCount[m] \in Nat /\ dlq[m] <= Burden(m)
  BY BurdenNat DEF Burden
<1>2. faults \in Nat /\ (faults = Paid \/ faults = Paid + 1)
  BY DEF Paid, TypeOK
<1>3. K * (1 + faults) \in Nat /\ K * (1 + faults) >= K * Paid + K
  <2>1. CASE faults = Paid
    BY <2>1, Room
  <2>2. CASE faults = Paid + 1
    BY <2>2, Room
  <2> QED BY <1>2, <2>1, <2>2
<1>4. Burden(m) <= retryCount[m] + 2 * (K * Paid) + 2 * K
  BY Room, DeadRoom
<1> QED BY <1>1, <1>3, <1>4, Room, DeadRoom

\* However many schedulers come and go, the dead letters of a message are at most as
\* many as its counted attempts and two for each scheduler that ran at the same time,
\* and as many again per fault: the consumer and the monitor both give messages up
\* without asking whether that was done, but each time for a copy or for a status
\* somebody set meanwhile.
THEOREM DeadLettersOfActive ==
  ASSUME NEW K \in Nat
  PROVE  Spec /\ [](Cardinality(Active) <= K) =>
           []("drop" \notin Faults => \A m \in Messages :
                dlq[m] <= retryCount[m] + 2 * (K * (1 + faults)))
<1> DEFINE Kept == "drop" \notin Faults => DeadInv(K)
           Bound == "drop" \notin Faults => \A m \in Messages :
                      dlq[m] <= retryCount[m] + 2 * (K * (1 + faults))
<1>1. Init => CopiesInv(K) /\ Kept
  BY CopiesInit, DeadInit
<1>2. TypeOK /\ TypeOK' /\ Hands(K) /\ Hands(K)' /\ CopiesInv(K) /\ Kept /\ [Next]_vars
        => CopiesInv(K)' /\ Kept'
  BY CopiesStep, DeadStep
<1>3. TypeOK /\ Hands(K) /\ CopiesInv(K) /\ Kept => Bound
  BY DeadBound
<1>4. BusyInv /\ Cardinality(Active) <= K => Hands(K)
  BY DEF Hands
<1> HIDE DEF Kept, Bound
<1>5. Spec /\ [](Cardinality(Active) <= K) => []Bound
  BY TypeCorrect, BusyHolds, <1>1, <1>2, <1>3, <1>4, PTL DEF Spec
<1> QED BY <1>5 DEF Bound

\* With any number of schedulers and faults, the dead letters the consumer and the
\* monitor make of a message stay in proportion to its attempts and publications.
THEOREM DeadLettersStayBounded == Spec => []DeadLettersBounded
<1> DEFINE K == Cardinality(Runners)
           Kept == "drop" \notin Faults => DeadInv(K)
<1>0. K \in Nat
  BY FS_CardinalityType
<1>1. Init => CopiesInv(K) /\ Kept
  BY <1>0, CopiesInit, DeadInit
<1>2. TypeOK /\ TypeOK' /\ Hands(K) /\ Hands(K)' /\ CopiesInv(K) /\ Kept /\ [Next]_vars
        => CopiesInv(K)' /\ Kept'
  <2> HIDE DEF K
  <2> QED BY <1>0, CopiesStep, DeadStep
<1>3. TypeOK /\ Hands(K) /\ CopiesInv(K) /\ Kept => DeadLettersBounded
  BY <1>0, DeadBound DEF DeadLettersBounded
<1>4. BusyInv => Hands(K)
  <2>1. Active \in SUBSET Runners
    BY DEF Active
  <2> QED BY <2>1, FS_Subset DEF Hands
<1> HIDE DEF K, Kept
<1> QED
  BY TypeCorrect, BusyHolds, <1>1, <1>2, <1>3, <1>4, PTL DEF Spec

-----------------------------------------------------------------------------
(* One scheduler at a time and no faults. A message that is fresh has left no    *)
(* trace beyond the outbox, and an unsent message is fresh unless a scheduler is *)
(* just about to update its status. A message a scheduler still holds is unsent: *)
(* only what left a trace has its status changed, and then the scheduler, the    *)
(* only one, has published it and holds it no more. That one ends and another    *)
(* starts changes nothing: it ends with empty hands.                             *)

Fresh(m) ==
  /\ mainQ[m] = 0 /\ retryQ[m] = 0 /\ dlq[m] = 0 /\ cur # m
  /\ delivered[m] = 0 /\ retryCount[m] = 0
  /\ m \notin found /\ failing # m

FreshOf(m) ==
  /\ status[m] \in {"absent", "unsent"} /\ Updating(m) = {} => Fresh(m)
  /\ status[m] = "absent" => Holding(m) = {} /\ Updating(m) = {}
  /\ Holding(m) # {} => status[m] = "unsent"

FreshInv ==
  faults = 0 =>
    /\ Open /\ \A b \in Bodies : unacked[b] = 0
    /\ \A m \in Messages : FreshOf(m)

LEMMA FreshInit == Init => FreshInv
<1> SUFFICES ASSUME Init PROVE FreshInv
  OBVIOUS
<1>1. \A m \in Messages : Holding(m) = {} /\ Updating(m) = {}
  BY DEF Init, SenderInit, Holding, Updating
<1>2. \A m \in Messages : Fresh(m)
  BY DEF Init, RepoInit, QueueInit, Empty, WebhookInit, ProcessorInit, Fresh, Bodies
<1>3. Open /\ \A b \in Bodies : unacked[b] = 0
  BY DEF Init, QueueInit, Empty, Open, Services
<1> QED BY <1>1, <1>2, <1>3 DEF FreshInv, FreshOf

\* Nobody but the sender touches a fresh message, unless the monitor finds it.
LEMMA FreshFrame ==
  ASSUME TypeOK, BusyInv, OneAtATime, FreshInv, faults' = 0 => faults = 0,
         \A m \in Messages : Holding(m)' = Holding(m) /\ Updating(m)' = Updating(m),
         faults = 0 /\ Open /\ (\A b \in Bodies : unacked[b] = 0) /\ faults' = 0 =>
           /\ Open' /\ \A b \in Bodies : unacked'[b] = 0
           /\ \A m \in Messages :
                /\ Fresh(m) /\ status[m] \in {"absent", "unsent"} =>
                     Fresh(m)' /\ status'[m] = status[m]
                /\ status'[m] \in {"absent", "unsent"} => status'[m] = status[m]
  PROVE  FreshInv'
<1> SUFFICES ASSUME faults' = 0
             PROVE  /\ Open' /\ \A b \in Bodies : unacked'[b] = 0
                    /\ \A m \in Messages : FreshOf(m)'
  BY DEF FreshInv
<1>1. /\ faults = 0 /\ Open /\ \A b \in Bodies : unacked[b] = 0
      /\ \A m \in Messages : FreshOf(m)
  BY DEF FreshInv
<1>2. ASSUME NEW m \in Messages PROVE FreshOf(m)'
  <2>1. Holding(m)' = Holding(m) /\ Updating(m)' = Updating(m)
    OBVIOUS
  <2>2. Holding(m) # {} => Updating(m) = {}
    BY DEF Holding, Updating, OneAtATime, BusyInv, TypeOK, SenderTypeOK
  <2>3. FreshOf(m)
    BY <1>1
  <2>4. /\ Fresh(m) /\ status[m] \in {"absent", "unsent"} =>
             Fresh(m)' /\ status'[m] = status[m]
        /\ status'[m] \in {"absent", "unsent"} => status'[m] = status[m]
    BY <1>1
  <2> QED BY <2>1, <2>2, <2>3, <2>4 DEF FreshOf
<1> QED BY <1>1, <1>2

LEMMA FreshConsumer ==
  ASSUME TypeOK, BusyInv, OneAtATime, FreshInv, ConsumerStep, UNCHANGED senderVars
  PROVE  FreshInv'
<1>1. \A m \in Messages : Holding(m)' = Holding(m) /\ Updating(m)' = Updating(m)
  BY DEF senderVars, Holding, Updating
<1>2. faults' = 0 => NoFault
  BY DEF TypeOK, ConsumerStep, Receive, CheckInbox, GetMessage, CallWebhook, SendMessage,
         StoreID, Mark, WriteStatus, Increment, Reload, RetryLater, DeadLetter, Discard,
         Write, NoFault, Fault
<1>3. ASSUME NoFault, Open, \A b \in Bodies : unacked[b] = 0
      PROVE  Open' /\ \A b \in Bodies : unacked'[b] = 0
  BY <1>3 DEF TypeOK, ConsumerStep, Receive, TakeDelivery, CheckInbox, GetMessage,
         CallWebhook, StoreID, Mark, WriteStatus, Increment, Reload, RetryLater, DeadLetter,
         Discard, Write, MoveToRetryQueue, MoveToDeadLetter, Publish, NoFault, Fault, Open,
         queues
<1>4. ASSUME NEW m \in Messages
      PROVE  status'[m] \in {"absent", "unsent"} => status'[m] = status[m]
  BY DEF TypeOK, RepoTypeOK, ConsumerStep, Receive, CheckInbox, GetMessage, CallWebhook,
         StoreID, Mark, WriteStatus, StatusAt, Increment, Reload, RetryLater, DeadLetter,
         Discard, Write, UpdateStatus, IncrementRetryCount, repoVars
<1>5. ASSUME NEW m \in Messages, Fresh(m)
      PROVE  /\ status'[m] = status[m] /\ retryCount'[m] = retryCount[m]
             /\ delivered'[m] = delivered[m]
  <2>1. cur # m
    BY <1>5 DEF Fresh
  <2> QED
    BY <2>1 DEF TypeOK, RepoTypeOK, WebhookTypeOK, ConsumerStep, Receive,
           CheckInbox, GetMessage, CallWebhook, SendMessage, Deliver, StoreID, Mark,
           WriteStatus, Increment, Reload, RetryLater, DeadLetter, Discard, Write,
           UpdateStatus, IncrementRetryCount, repoVars
<1>6. ASSUME NEW m \in Messages, Fresh(m), NoFault, Open
      PROVE  /\ mainQ'[m] = 0 /\ retryQ'[m] = 0 /\ dlq'[m] = 0 /\ cur' # m
  <2>1. /\ mainQ[m] = 0 /\ retryQ[m] = 0 /\ dlq[m] = 0 /\ cur # m
        /\ m \in Bodies /\ m # None
    BY <1>6 DEF Fresh, Bodies
  <2>2. CASE UNCHANGED queues /\ cur' \in {cur, None}
    BY <2>1, <2>2 DEF queues
  <2>3. CASE Receive
    BY <2>1, <2>3 DEF TypeOK, QueueTypeOK, Receive, TakeDelivery, Minus
  <2>4. CASE RetryLater \/ DeadLetter \/ Discard
    BY <2>1, <2>4 DEF TypeOK, QueueTypeOK, RetryLater, DeadLetter, Discard,
           MoveToRetryQueue, MoveToDeadLetter, Publish, Goto, Return, Plus, queues
  <2> QED
    BY <1>6, <2>2, <2>3, <2>4 DEF TypeOK, ConsumerStep, CheckInbox, GetMessage, CallWebhook,
           SendMessage, StoreID, Mark, WriteStatus, Increment, Reload, Write, NoFault,
           Fault, Nack, Goto, Return, Die, queues
<1>7. ASSUME NEW m \in Messages, Fresh(m)
      PROVE  m \notin found' /\ failing' # m
  <2>1. m \notin found /\ failing # m /\ m # None
    BY <1>7 DEF Fresh, Bodies
  <2> QED
    BY <2>1 DEF ConsumerStep, Receive, CheckInbox, GetMessage, CallWebhook, StoreID, Mark,
           WriteStatus, Increment, Reload, RetryLater, DeadLetter, Discard, Die, monitorVars
<1>8. ASSUME NoFault, Open, NEW m \in Messages, Fresh(m)
      PROVE  Fresh(m)'
  BY <1>5, <1>6, <1>7, <1>8 DEF Fresh
<1>9. faults' = 0 => faults = 0
  BY <1>2 DEF NoFault
<1> QED BY <1>1, <1>2, <1>3, <1>4, <1>5, <1>8, <1>9, FreshFrame

LEMMA FreshProcessor ==
  TypeOK /\ BusyInv /\ OneAtATime /\ FreshInv /\ Processor => FreshInv'
<1> SUFFICES ASSUME TypeOK, BusyInv, OneAtATime, FreshInv, Processor PROVE FreshInv'
  OBVIOUS
<1>1. CASE ConsumerStep
  BY <1>1, FreshConsumer DEF Processor
<1>2. CASE ProcessorCrash
  BY <1>2 DEF ProcessorCrash, Fault, FreshInv, TypeOK
<1>3. CASE MonitorStep \/ ProcessorRestart
  <2>1. \A m \in Messages : Holding(m)' = Holding(m) /\ Updating(m)' = Updating(m)
    BY DEF Processor, senderVars, Holding, Updating
  <2>2. faults' = 0 => NoFault
    BY <1>3 DEF TypeOK, MonitorStep, CheckStaleMessages, RecoverDeadLetter, RecoverStatus,
           Write, ProcessorRestart, NoFault, Fault
  <2>3. ASSUME NEW m \in Messages
        PROVE  /\ status'[m] \in {"absent", "unsent"} => status'[m] = status[m]
               /\ Fresh(m) => status'[m] = status[m]
    BY <1>3 DEF TypeOK, RepoTypeOK, MonitorStep, CheckStaleMessages, RecoverDeadLetter,
           RecoverStatus, Write, UpdateStatus, ProcessorRestart, Fresh, repoVars
  <2>4. ASSUME Open, \A b \in Bodies : unacked[b] = 0
        PROVE  Open' /\ \A b \in Bodies : unacked'[b] = 0 /\ mainQ'[b] = mainQ[b]
    <3>1. CASE ProcessorRestart
      BY <2>4, <3>1 DEF ProcessorRestart, OpenChannel, Empty, Open, TypeOK, QueueTypeOK, Services
    <3> QED
      BY <1>3, <2>4, <3>1 DEF MonitorStep, CheckStaleMessages, RecoverDeadLetter,
             MoveToDeadLetter, Publish, RecoverStatus, Open, queues
  <2>5. ASSUME NEW m \in Messages, Fresh(m), status[m] \in {"absent", "unsent"},
               Open, \A b \in Bodies : unacked[b] = 0
        PROVE  Fresh(m)'
    <3>1. m \in Bodies /\ m # None
      BY DEF Bodies
    <3>2. mainQ'[m] = 0 /\ retryQ'[m] = 0 /\ cur' # m
      BY <1>3, <2>4, <2>5, <3>1 DEF Fresh, MonitorStep, CheckStaleMessages,
             RecoverDeadLetter, MoveToDeadLetter, Publish, RecoverStatus, ProcessorRestart,
             OpenChannel, queues, consumerVars
    <3>3. dlq'[m] = 0
      BY <1>3, <2>5, <3>1 DEF TypeOK, QueueTypeOK, ProcessorTypeOK, Bodies, Fresh,
             MonitorStep, CheckStaleMessages, RecoverDeadLetter, MoveToDeadLetter, Publish,
             Plus, RecoverStatus, ProcessorRestart, OpenChannel, queues
    <3>4. delivered'[m] = 0 /\ retryCount'[m] = 0
      BY <1>3, <2>5 DEF Fresh, MonitorStep, CheckStaleMessages, RecoverDeadLetter,
             RecoverStatus, Write, UpdateStatus, ProcessorRestart, repoVars
    <3>5. m \notin found' /\ failing' # m
      BY <1>3, <2>5, <3>1 DEF Fresh, MonitorStep, CheckStaleMessages,
             FindStaleProcessingMessages, RecoverDeadLetter, MoveToDeadLetter, Publish,
             RecoverStatus, Write, ProcessorRestart, monitorVars
    <3> QED BY <3>2, <3>3, <3>4, <3>5 DEF Fresh
  <2>6. faults' = 0 => faults = 0
    BY <2>2 DEF NoFault
  <2> QED BY <2>1, <2>3, <2>4, <2>5, <2>6, FreshFrame
<1> QED BY <1>1, <1>2, <1>3 DEF Processor, ProcessorStep

LEMMA FreshEnvironment ==
  TypeOK /\ BusyInv /\ OneAtATime /\ FreshInv /\ Environment => FreshInv'
<1> SUFFICES ASSUME TypeOK, BusyInv, OneAtATime, FreshInv, Environment PROVE FreshInv'
  OBVIOUS
<1>1. CASE faults' = faults + 1
  BY <1>1 DEF FreshInv, TypeOK
<1>2. CASE NoFault
  <2>1. \A m \in Messages : Holding(m)' = Holding(m) /\ Updating(m)' = Updating(m)
    BY DEF Environment, senderVars, Holding, Updating
  <2>2. \/ \E m \in Messages : TimePasses(m) /\ UNCHANGED <<queues, channel>>
        \/ \E b \in Bodies : RetryExpires(b) /\ UNCHANGED repoVars
        \/ \E s \in Services : ChannelCloses(s) /\ UNCHANGED repoVars
    BY <1>2 DEF Environment, MongoDB, RabbitMQ, Redis, NoFault, Fault, TypeOK
  <2>3. UNCHANGED <<status, retryCount>>
    BY <2>2 DEF TimePasses, repoVars
  <2>4. ASSUME Open, \A b \in Bodies : unacked[b] = 0
        PROVE  Open' /\ \A b \in Bodies : unacked'[b] = 0
    BY <2>2, <2>4 DEF RetryExpires, ChannelCloses, Open, TypeOK, QueueTypeOK, Services, queues
  <2>5. ASSUME NEW m \in Messages, Fresh(m)
        PROVE  Fresh(m)'
    <3>1. mainQ'[m] = 0 /\ retryQ'[m] = 0 /\ dlq'[m] = 0
      BY <2>2, <2>5 DEF Fresh, RetryExpires, Plus, Minus, ChannelCloses, TypeOK, QueueTypeOK,
             Bodies, queues
    <3> QED
      BY <2>3, <2>5, <3>1 DEF Environment, Fresh, consumerVars, monitorVars
  <2> QED BY <1>2, <2>1, <2>3, <2>4, <2>5, FreshFrame DEF NoFault
<1> QED
  BY <1>1, <1>2 DEF Environment, MongoDB, RabbitMQ, Redis, Fault, NoFault

LEMMA FreshSender ==
  TypeOK /\ BusyInv /\ OneAtATime /\ FreshInv /\ Sender => FreshInv'
<1> SUFFICES ASSUME TypeOK, BusyInv, OneAtATime, FreshInv, Sender, faults' = 0
             PROVE  /\ Open' /\ \A b \in Bodies : unacked'[b] = 0
                    /\ \A m \in Messages : FreshOf(m)'
  BY DEF FreshInv
<1>0. \A r \in Runners :
        rpc[r] # "off" => \A q \in Runners \ {r} : rpc[q] = "off" /\ batch[q] = {}
  BY DEF OneAtATime, BusyInv
<1>1. faults = 0 /\ NoFault
  <2>1. faults' = faults \/ faults' = faults + 1
    BY DEF Sender, SenderStep, CreateMessage, SenderRestart, StartScheduler,
           StopScheduler, RunnerStep, ProcessUnsentMessages, PublishNext, MarkProcessing,
           Write, NoFault, Fault
  <2>2. faults \in Nat
    BY DEF TypeOK
  <2> QED BY <2>1, <2>2 DEF NoFault
<1>2. /\ Open /\ \A b \in Bodies : unacked[b] = 0
      /\ \A m \in Messages : FreshOf(m)
  BY <1>1 DEF FreshInv
<1>3. ~SenderRestart
  BY <1>1 DEF SenderRestart, Fault, NoFault
<1>4. UNCHANGED <<channel, retryQ, dlq, unacked, delivered, pc, cur, found, failing>>
  BY <1>3 DEF Sender, SenderStep, CreateMessage, StartScheduler, StopScheduler, RunnerStep,
         ProcessUnsentMessages, PublishNext, PublishMessage, Publish, MarkProcessing,
         queues, consumerVars, monitorVars
<1>5. Open' /\ \A b \in Bodies : unacked'[b] = 0
  BY <1>2, <1>4 DEF Open
<1>6. ASSUME NEW m \in Messages, mainQ' = mainQ, retryCount' = retryCount
      PROVE  Fresh(m)' <=> Fresh(m)
  BY <1>4, <1>6 DEF Fresh
<1>7. CASE CreateMessage
  <2>1. UNCHANGED <<mainQ, rpc, batch, rcur>>
    BY <1>7 DEF CreateMessage, queues, senderVars
  <2>2. ASSUME NEW m \in Messages
        PROVE  /\ Holding(m)' = Holding(m) /\ Updating(m)' = Updating(m)
               /\ status'[m] = status[m] \/ (status[m] = "absent" /\ status'[m] = "unsent")
               /\ Fresh(m) => Fresh(m)'
    <3>1. Holding(m)' = Holding(m) /\ Updating(m)' = Updating(m)
      BY <2>1 DEF Holding, Updating
    <3>2. status'[m] = status[m] \/ (status[m] = "absent" /\ status'[m] = "unsent")
      BY <1>7 DEF CreateMessage, InsertMessage, TypeOK, RepoTypeOK
    <3>3. retryCount[m] = 0 => retryCount'[m] = 0
      BY <1>7 DEF CreateMessage, InsertMessage, TypeOK, RepoTypeOK
    <3>4. Fresh(m) => Fresh(m)'
      BY <1>4, <2>1, <3>3 DEF Fresh
    <3> QED BY <3>1, <3>2, <3>4
  <2> QED BY <1>2, <1>5, <2>2 DEF FreshOf
<1>8. ASSUME NEW r \in Runners, StartScheduler(r) \/ StopScheduler(r)
      PROVE  \A m \in Messages : FreshOf(m)'
  <2>1. UNCHANGED <<mainQ, status, retryCount, batch, rcur>>
    BY <1>8 DEF StartScheduler, StopScheduler, repoVars, queues
  <2>2. \A m \in Messages : Holding(m)' = Holding(m) /\ Updating(m)' = Updating(m)
    BY <1>8 DEF StartScheduler, StopScheduler, Holding, Updating, TypeOK, SenderTypeOK
  <2> QED BY <1>2, <1>6, <2>1, <2>2 DEF FreshOf
<1>9. ASSUME NEW r \in Runners, ProcessUnsentMessages(r)
      PROVE  \A m \in Messages : FreshOf(m)'
  <2>1. UNCHANGED <<mainQ, status, retryCount, rcur>>
    BY <1>9 DEF ProcessUnsentMessages, repoVars, queues
  <2>2. ASSUME NEW m \in Messages
        PROVE  /\ Updating(m)' = Updating(m)
               /\ Holding(m)' # {} => status[m] = "unsent"
    BY <1>0, <1>9 DEF ProcessUnsentMessages, FindUnsentMessages, Holding, Updating,
           TypeOK, SenderTypeOK
  <2> QED BY <1>2, <1>6, <2>1, <2>2 DEF FreshOf
<1>10. ASSUME NEW r \in Runners, PublishNext(r)
       PROVE  \A m \in Messages : FreshOf(m)'
  <2>1. UNCHANGED <<status, retryCount>>
    BY <1>10 DEF PublishNext, repoVars
  <2>2. PICK n \in batch[r] :
          \/ /\ mainQ' = mainQ \/ mainQ' = Plus(mainQ, n)
             /\ rcur' = [rcur EXCEPT ![r] = n]
             /\ rpc' = [rpc EXCEPT ![r] = "update"]
             /\ UNCHANGED batch
          \/ UNCHANGED mainQ /\ NextInBatch(r, n)
    BY <1>10 DEF PublishNext, PublishMessage, Publish, queues
  <2>3. n \in Messages /\ rpc[r] = "publish" /\ r \in Holding(n)
    BY <1>10, <2>2 DEF PublishNext, TypeOK, SenderTypeOK, Holding, Updating
  <2>4. ASSUME NEW m \in Messages, m # n
        PROVE  FreshOf(m)'
    <3>1. Holding(m)' = Holding(m) /\ Updating(m)' = Updating(m)
      BY <2>2, <2>3, <2>4 DEF NextInBatch, Holding, Updating, TypeOK, SenderTypeOK
    <3>2. mainQ'[m] = mainQ[m]
      BY <2>2, <2>4 DEF Plus, TypeOK, QueueTypeOK, Bodies
    <3>3. Fresh(m)' <=> Fresh(m)
      BY <1>4, <2>1, <3>2 DEF Fresh
    <3> QED BY <1>2, <2>1, <3>1, <3>3 DEF FreshOf
  <2>5. FreshOf(n)'
    <3>1. Holding(n)' = {}
      BY <1>0, <2>2, <2>3 DEF NextInBatch, Holding, Updating, TypeOK, SenderTypeOK
    <3>2. FreshOf(n) /\ status[n] = "unsent"
      BY <1>2, <2>3 DEF FreshOf
    <3>3. CASE rcur' = [rcur EXCEPT ![r] = n] /\ rpc' = [rpc EXCEPT ![r] = "update"]
      <4>1. r \in Updating(n)'
        BY <2>3, <3>3 DEF Updating, TypeOK, SenderTypeOK
      <4> QED BY <2>1, <3>1, <3>2, <4>1 DEF FreshOf
    <3>4. CASE UNCHANGED mainQ /\ NextInBatch(r, n)
      <4>1. Updating(n) = {}
        BY <1>0, <2>3 DEF Updating
      <4>2. Updating(n)' = {}
        BY <1>0, <2>3, <3>4 DEF NextInBatch, Updating, TypeOK, SenderTypeOK
      <4>3. Fresh(n)' <=> Fresh(n)
        BY <1>6, <2>1, <2>3, <3>4
      <4> QED BY <2>1, <3>1, <3>2, <4>1, <4>2, <4>3 DEF FreshOf
    <3> QED BY <2>2, <3>3, <3>4
  <2> QED BY <2>4, <2>5
<1>11. ASSUME NEW r \in Runners, MarkProcessing(r)
       PROVE  \A m \in Messages : FreshOf(m)'
  <2>1. /\ rcur[r] \in Messages /\ rpc[r] = "update" /\ NextInBatch(r, rcur[r])
        /\ UpdateStatus(rcur[r], "processing") /\ mainQ' = mainQ
    BY <1>1, <1>11 DEF MarkProcessing, Write, NoFault, Fault, TypeOK, SenderTypeOK, queues
  <2>2. ASSUME NEW m \in Messages, m # rcur[r]
        PROVE  FreshOf(m)'
    <3>1. Holding(m)' = Holding(m) /\ Updating(m)' = Updating(m)
      BY <2>1, <2>2 DEF NextInBatch, Holding, Updating, TypeOK, SenderTypeOK
    <3>2. status'[m] = status[m] /\ retryCount' = retryCount
      BY <2>1, <2>2 DEF UpdateStatus, TypeOK, RepoTypeOK
    <3> QED BY <1>2, <1>6, <2>1, <3>1, <3>2 DEF FreshOf
  <2>3. ASSUME NEW m \in Messages, m = rcur[r]
        PROVE  FreshOf(m)'
    <3>1. r \in Updating(m)
      BY <2>1, <2>3 DEF Updating
    <3>2. status[m] # "absent"
      BY <1>2, <3>1 DEF FreshOf
    <3>3. status'[m] \notin {"absent", "unsent"}
      BY <2>1, <2>3, <3>2 DEF UpdateStatus, Stored, Statuses, TypeOK, RepoTypeOK
    <3>4. Holding(m)' = {}
      BY <1>0, <2>1, <2>3 DEF NextInBatch, Holding, TypeOK, SenderTypeOK
    <3> QED BY <3>3, <3>4 DEF FreshOf
  <2> QED BY <2>2, <2>3
<1> QED
  BY <1>3, <1>5, <1>7, <1>8, <1>9, <1>10, <1>11 DEF Sender, SenderStep, RunnerStep

LEMMA FreshStutter == FreshInv /\ UNCHANGED vars => FreshInv'
<1> SUFFICES ASSUME FreshInv, UNCHANGED vars PROVE FreshInv'
  OBVIOUS
<1>1. UNCHANGED <<status, retryCount, mainQ, retryQ, dlq, unacked, channel, delivered,
                  faults, cur, found, failing, rpc, batch, rcur>>
  BY DEF vars, repoVars, queues, consumerVars, monitorVars, senderVars
<1>2. \A m \in Messages : FreshOf(m)' <=> FreshOf(m)
  BY <1>1 DEF FreshOf, Fresh, Holding, Updating
<1> QED BY <1>1, <1>2 DEF FreshInv, Open

LEMMA FreshStep == TypeOK /\ BusyInv /\ OneAtATime /\ FreshInv /\ [Next]_vars => FreshInv'
BY FreshSender, FreshProcessor, FreshEnvironment, FreshStutter DEF Next

-----------------------------------------------------------------------------
(* A main queue that grows does so by the one runner's publication, by the *)
(* expiry of a retry or by what a processor that starts anew gets back.    *)

Publishes(m) == mainQ'[m] > mainQ[m] /\ retryQ' = retryQ

LEMMA OnlySenderPublishes ==
  ASSUME TypeOK, [Next]_vars, NEW m \in Messages, Publishes(m), unacked[m] = 0
  PROVE  \E r \in Runners : PublishNext(r) /\ m \in batch[r]
<1>1. m \in Bodies /\ m \notin Malformed \cup InvalidIDs /\ mainQ[m] \in Nat
  BY DEF TypeOK, QueueTypeOK, Bodies, ContractsAssumption
<1>2. ~UNCHANGED mainQ
  BY <1>1 DEF Publishes
<1>3. ASSUME Processor PROVE FALSE
  <2>1. CASE Receive
    BY <1>1, <1>3, <2>1 DEF Publishes, Receive, TakeDelivery, Minus, TypeOK, QueueTypeOK
  <2>2. CASE ProcessorRestart
    BY <1>1, <1>3, <2>2 DEF Publishes, ProcessorRestart, OpenChannel, TypeOK, QueueTypeOK
  <2> QED
    BY <1>2, <1>3, <2>1, <2>2 DEF Processor, ProcessorStep, ConsumerStep, MonitorStep,
           ProcessorCrash, CheckInbox, GetMessage, CallWebhook, StoreID, Mark, WriteStatus,
           Increment, Reload, RetryLater, DeadLetter, Discard, MoveToRetryQueue,
           MoveToDeadLetter, Publish, Nack, CheckStaleMessages, RecoverDeadLetter,
           RecoverStatus, queues
<1>4. ASSUME Environment PROVE FALSE
  <2>1. CASE \E b \in Bodies : RetryExpires(b)
    BY <1>1, <2>1 DEF Publishes, RetryExpires, Minus, TypeOK, QueueTypeOK
  <2>2. CASE \E b \in Bodies : ForeignPublish(b)
    BY <1>1, <2>2 DEF Publishes, ForeignPublish, Plus, TypeOK, QueueTypeOK
  <2>3. CASE BrokerRestarts
    BY <1>1, <2>3 DEF Publishes, BrokerRestarts, Survivors, TypeOK, QueueTypeOK
  <2> QED
    BY <1>2, <1>4, <2>1, <2>2, <2>3 DEF Environment, MongoDB, RabbitMQ, Redis,
           ConnectionLost, ChannelCloses, queues
<1>5. ~UNCHANGED vars
  BY <1>2 DEF vars, queues
<1>6. PICK r \in Runners : PublishNext(r)
  BY <1>2, <1>3, <1>4, <1>5 DEF Next, Sender, SenderStep, CreateMessage, SenderRestart,
         OpenChannel, StartScheduler, StopScheduler, RunnerStep, ProcessUnsentMessages,
         MarkProcessing, queues
<1>7. PICK n \in batch[r] : mainQ' = mainQ \/ mainQ' = Plus(mainQ, n)
  BY <1>6 DEF PublishNext, PublishMessage, Publish, queues
<1>8. n = m
  BY <1>1, <1>2, <1>7 DEF Publishes, Plus, TypeOK, QueueTypeOK
<1> QED BY <1>6, <1>7, <1>8

\* With one scheduler at a time and no fault, the message of a publication has
\* never been published, tried or given up before.
LEMMA PublishesFresh ==
  ASSUME TypeOK, OneAtATime, FreshInv, [Next]_vars, faults = 0
  PROVE  FirstPublication
<1> SUFFICES ASSUME NEW m \in Messages, Publishes(m)
             PROVE  InFlight(m) = 0 /\ delivered[m] = 0 /\ retryCount[m] = 0 /\ dlq[m] = 0
  BY DEF FirstPublication, Publishes
<1>1. unacked[m] = 0 /\ FreshOf(m)
  BY DEF FreshInv, Bodies
<1>2. PICK r \in Runners : rpc[r] = "publish" /\ m \in batch[r]
  <2>1. PICK r \in Runners : PublishNext(r) /\ m \in batch[r]
    BY <1>1, OnlySenderPublishes
  <2> QED BY <2>1 DEF PublishNext
<1>3. r \in Holding(m)
  BY <1>2 DEF Holding, Updating
<1>4. Updating(m) = {}
  <2>1. \A q \in Runners : rpc[q] = "update" => q = r
    BY <1>2 DEF OneAtATime
  <2> QED BY <1>2, <2>1 DEF Updating
<1>5. Fresh(m)
  BY <1>1, <1>3, <1>4 DEF FreshOf
<1> QED BY <1>1, <1>5 DEF Fresh, InFlight

\* The outbox without faults, SenderService and the processor together: as long as
\* no two schedulers run at the same time, however often they are stopped and started
\* again, handleMessage publishes a message only when nothing is left of an earlier
\* publication, for the status it sets takes the message out of every later batch
\* and only the consumer and the monitor change that status again.
THEOREM PublishedOnceByTurns ==
  Spec /\ []OneAtATime => [][faults = 0 => FirstPublication]_vars
<1>1. TypeOK /\ OneAtATime /\ FreshInv /\ [Next]_vars => [faults = 0 => FirstPublication]_vars
  BY PublishesFresh
<1> QED BY <1>1, TypeCorrect, BusyHolds, FreshInit, FreshStep, PTL DEF Spec

\* In particular when there is only one.
THEOREM PublishedOnceHolds == Spec => PublishedOnce
<1>1. Cardinality(Runners) = 1 => OneAtATime
  <2> SUFFICES ASSUME Cardinality(Runners) = 1 PROVE OneAtATime
    OBVIOUS
  <2>1. PICK q : Runners = {q}
    BY FS_Singleton
  <2> QED BY <2>1 DEF OneAtATime
<1> DEFINE OnlyOne == Cardinality(Runners) = 1 => FreshInv
<1>2. Init => OnlyOne
  BY FreshInit
<1>3. TypeOK /\ BusyInv /\ OnlyOne /\ [Next]_vars => OnlyOne'
  BY <1>1, FreshStep
<1>4. TypeOK /\ OnlyOne /\ [Next]_vars =>
        [faults = 0 /\ Cardinality(Runners) = 1 => FirstPublication]_vars
  BY <1>1, PublishesFresh
<1> HIDE DEF OnlyOne
<1> QED BY TypeCorrect, BusyHolds, <1>2, <1>3, <1>4, PTL DEF Spec, PublishedOnce
=============================================================================
