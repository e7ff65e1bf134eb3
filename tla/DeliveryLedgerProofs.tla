------------------------ MODULE DeliveryLedgerProofs ------------------------
(***************************************************************************)
(* The proof that ReliableMessaging implements DeliveryLedger, for every   *)
(* set of messages, number of schedulers, retry limit and choice of        *)
(* faults: every step of the system is a step of the ledger or changes     *)
(* nothing in it.                                                          *)
(***************************************************************************)
EXTENDS ReliableMessagingProofs

\* What a step does to the ledger, in the variables of the system.
Steady == \A m \in Messages : status'[m] = "absent" <=> status[m] = "absent"
KeepsKnown == \A m \in Messages : Remembered(m)' <=> Remembered(m)
LosesKnown == \A m \in Messages : Remembered(m)' => Remembered(m)
OneStatus == \E n : \A m \in Messages : m # n => status'[m] = status[m]

Taken(m) ==
  /\ m \in Messages /\ status[m] # "absent" /\ ~Remembered(m)
  /\ delivered' = [delivered EXCEPT ![m] = @ + 1]

LEMMA LedgerInit == Init => Ledger!Init
  BY DEF Init, RepoInit, RedisInit, WebhookInit, ProcessorInit, Ledger!Init, Remembered

\* Without a fault a step that delivers nothing confirms or withdraws one message
\* at most.
LEMMA QuietStep ==
  ASSUME TypeOK, TypeOK', RememberInv', faults' = faults, delivered' = delivered,
         Steady, KeepsKnown, OneStatus
  PROVE  [Ledger!Next]_(Ledger!ledger)
<1> DEFINE accepted == {m \in Messages : status[m] # "absent"}
           known == {m \in Messages : Remembered(m)}
           confirmed == {m \in Messages : status[m] \in {"sent", "duplicate"}}
<1>1. accepted' = accepted
  BY DEF Steady
<1>2. known' = known
  BY DEF KeepsKnown
<1>3. PICK n : \A m \in Messages : m # n => status'[m] = status[m]
  BY DEF OneStatus
<1>4. CASE confirmed' = confirmed
  BY <1>1, <1>2, <1>4 DEF Ledger!ledger
<1>5. CASE confirmed' # confirmed
  <2>1. n \in Messages
    BY <1>3, <1>5
  <2>2. CASE status'[n] \in {"sent", "duplicate"}
    <3>1. delivered[n] > 0
      BY <2>1, <2>2 DEF RememberInv, RemembersOnlyDelivered
    <3>2. confirmed' = confirmed \cup {n}
      BY <1>3, <2>1, <2>2
    <3> QED
      BY <1>1, <1>2, <2>1, <3>1, <3>2 DEF Ledger!Next, Ledger!Confirm
  <2>3. CASE status'[n] \notin {"sent", "duplicate"}
    <3>1. confirmed' = confirmed \ {n}
      BY <1>3, <2>1, <2>3
    <3> QED
      BY <1>1, <1>2, <2>1, <3>1 DEF Ledger!Next, Ledger!Withdraw
  <2> QED BY <2>2, <2>3
<1> QED BY <1>4, <1>5

LEMMA FailStep ==
  ASSUME TypeOK, TypeOK', RememberInv', NEW kind, Fault(kind),
         UNCHANGED delivered \/ (\E m \in Messages : Taken(m)), Steady, LosesKnown
  PROVE  Ledger!Next
<1> DEFINE accepted == {m \in Messages : status[m] # "absent"}
           known == {m \in Messages : Remembered(m)}
           confirmed == {m \in Messages : status[m] \in {"sent", "duplicate"}}
<1>1. accepted' = accepted
  BY DEF Steady
<1>2. known' \subseteq known
  BY DEF LosesKnown
<1>3. \A m \in confirmed' : m \in Messages /\ delivered'[m] > 0
  BY DEF RememberInv, RemembersOnlyDelivered
<1>4. UNCHANGED delivered \/ \E m \in Messages : Ledger!Take(m)
  BY DEF Taken, Ledger!Take
<1>5. faults < MaxFaults /\ faults' = faults + 1
  BY DEF Fault
<1> QED
  BY <1>1, <1>2, <1>3, <1>4, <1>5 DEF Ledger!Next, Ledger!Fail

-----------------------------------------------------------------------------
(* The consumer sends only what it found in the collection, and a document  *)
(* that was there once is never "absent" again.                             *)

AcceptedInv == pc = "send" => status[cur] # "absent"

\* No step takes a message back: it stays accepted.
LEMMA StaysAccepted ==
  ASSUME TypeOK, Next, NEW m \in Messages, status[m] # "absent"
  PROVE  status'[m] # "absent"
<1>0. status \in [Messages -> Statuses \cup {"absent", "dropped"}]
  BY DEF TypeOK, RepoTypeOK
<1>1. CASE Sender
  BY <1>0, <1>1 DEF TypeOK, SenderTypeOK, Sender, SenderStep, CreateMessage, InsertMessage,
         SenderRestart, StartScheduler, StopScheduler, RunnerStep, ProcessUnsentMessages,
         PublishNext, MarkProcessing, Write, UpdateStatus, repoVars
<1>2. CASE Processor
  <2>1. \/ status' = status
        \/ WriteStatus
        \/ RecoverStatus
    BY <1>2 DEF Processor, ProcessorStep, ConsumerStep, MonitorStep, Receive, CheckInbox,
           GetMessage, CallWebhook, StoreID, Mark, Increment, Reload, RetryLater,
           DeadLetter, Discard, Write, IncrementRetryCount, CheckStaleMessages,
           RecoverDeadLetter, ProcessorCrash, ProcessorRestart, repoVars
  <2>2. CASE WriteStatus
    <3>1. StatusAt[pc] # "absent"
      BY <2>2 DEF WriteStatus, StatusAt
    <3> QED BY <1>0, <2>2, <3>1 DEF WriteStatus, Write, UpdateStatus, repoVars
  <2>3. CASE RecoverStatus
    BY <1>0, <2>3 DEF RecoverStatus, Write, UpdateStatus, repoVars
  <2> QED BY <2>1, <2>2, <2>3
<1>3. CASE Environment
  BY <1>0, <1>3 DEF Environment, MongoDB, RabbitMQ, Redis, TimePasses, DropCollection,
         Stored, repoVars
<1> QED BY <1>1, <1>2, <1>3 DEF Next

LEMMA AcceptedStep == TypeOK /\ AcceptedInv /\ [Next]_vars => AcceptedInv'
<1> SUFFICES ASSUME TypeOK, AcceptedInv, [Next]_vars, pc' = "send"
             PROVE  status'[cur'] # "absent"
  BY DEF AcceptedInv
<1>1. CASE UNCHANGED vars
  BY <1>1 DEF vars, repoVars, consumerVars, AcceptedInv
<1>2. CASE Next
  <2>1. \/ pc = "send" /\ cur' = cur /\ cur \in Messages
        \/ GetMessage /\ cur \in Messages /\ cur' = cur /\ Stored(cur)
    <3>1. CASE ConsumerStep
      BY <3>1 DEF ConsumerStep, TypeOK, ProcessorTypeOK, Receive, CheckInbox, GetMessage,
             CallWebhook, SendMessage, StoreID, Mark, WriteStatus, StatusAt, Increment,
             Reload, RetryLater, DeadLetter, Discard, Write, MoveToRetryQueue,
             MoveToDeadLetter, Publish, Goto, Return, Die
    <3>2. CASE Sender \/ Environment \/ (Processor /\ ~ConsumerStep)
      BY <3>2 DEF TypeOK, ProcessorTypeOK, Sender, Environment, Processor, ProcessorStep,
             MonitorStep, CheckStaleMessages, RecoverDeadLetter, RecoverStatus,
             ProcessorCrash, ProcessorRestart, Die, consumerVars
    <3> QED BY <1>2, <3>1, <3>2 DEF Next
  <2>2. cur' = cur /\ cur \in Messages /\ status[cur] # "absent"
    BY <2>1 DEF AcceptedInv, Stored, Statuses
  <2> QED BY <1>2, <2>2, StaysAccepted
<1> QED BY <1>1, <1>2

-----------------------------------------------------------------------------
LEMMA LedgerSender ==
  ASSUME TypeOK, TypeOK', RememberInv', Sender
  PROVE  [Ledger!Next]_(Ledger!ledger)
<1>0. /\ status \in [Messages -> Statuses \cup {"absent", "dropped"}]
      /\ rcur \in [Runners -> Messages \cup {None}]
  BY DEF TypeOK, RepoTypeOK, SenderTypeOK
<1>1. delivered' = delivered /\ KeepsKnown
  BY DEF Sender, consumerVars, redisVars, KeepsKnown, Remembered
<1>2. ASSUME NEW m \in Messages, InsertMessage(m), NoFault
      PROVE  [Ledger!Next]_(Ledger!ledger)
  <2> DEFINE accepted == {n \in Messages : status[n] # "absent"}
             known == {n \in Messages : Remembered(n)}
             confirmed == {n \in Messages : status[n] \in {"sent", "duplicate"}}
  <2>1. status[m] = "absent" /\ status' = [status EXCEPT ![m] = "unsent"]
    BY <1>2 DEF InsertMessage
  <2>2. m \notin accepted /\ accepted' = accepted \cup {m} /\ confirmed' = confirmed
    BY <1>0, <2>1
  <2>3. known' = known /\ faults' = faults
    BY <1>1, <1>2 DEF KeepsKnown, NoFault
  <2> QED BY <1>1, <2>2, <2>3 DEF Ledger!Next, Ledger!Accept
<1>3. CASE NoFault /\ ~CreateMessage
  <2>1. status' = status \/ \E m \in Messages : UpdateStatus(m, "processing")
    BY <1>0, <1>3 DEF TypeOK, SenderTypeOK, Sender, SenderStep, SenderRestart,
           StartScheduler, StopScheduler, RunnerStep, ProcessUnsentMessages, PublishNext,
           MarkProcessing, Write, repoVars
  <2>2. Steady /\ OneStatus
    BY <1>0, <2>1 DEF Steady, OneStatus, UpdateStatus, Stored, Statuses
  <2> QED BY <1>1, <1>3, <2>2, QuietStep DEF NoFault
<1>4. CASE Fault("crash") \/ Fault("write")
  <2>1. CASE CreateMessage
    BY <1>4, <2>1 DEF TypeOK, CreateMessage, Fault
  <2>2. CASE ~CreateMessage
    <3>1. status' = status \/ \E m \in Messages : UpdateStatus(m, "processing")
      BY <1>0, <2>2 DEF TypeOK, SenderTypeOK, Sender, SenderStep, SenderRestart,
             StartScheduler, StopScheduler, RunnerStep, ProcessUnsentMessages, PublishNext,
             MarkProcessing, Write, repoVars
    <3>2. Steady
      BY <1>0, <3>1 DEF Steady, UpdateStatus, Stored, Statuses
    <3> QED BY <1>1, <1>4, <3>2, FailStep DEF KeepsKnown, LosesKnown
  <2> QED BY <2>1, <2>2
<1>5. NoFault \/ Fault("crash") \/ Fault("write")
  BY DEF Sender, SenderStep, CreateMessage, SenderRestart, StartScheduler,
         StopScheduler, RunnerStep, ProcessUnsentMessages, PublishNext, MarkProcessing,
         Write, NoFault
<1>6. CASE CreateMessage
  BY <1>2, <1>6 DEF CreateMessage, NoFault
<1> QED BY <1>3, <1>4, <1>5, <1>6

LEMMA LedgerConsumer ==
  ASSUME TypeOK, TypeOK', RememberInv', DeliveryInv, AcceptedInv, ConsumerStep
  PROVE  [Ledger!Next]_(Ledger!ledger)
<1>0. /\ status \in [Messages -> Statuses \cup {"absent", "dropped"}]
      /\ delivered \in [Messages -> Nat]
  BY DEF TypeOK, RepoTypeOK, WebhookTypeOK
<1>1. CASE CallWebhook
  <2>1. /\ cur \in Messages /\ cur \notin inbox /\ pc = "send" /\ status[cur] # "absent"
        /\ UNCHANGED <<status, inbox, cur>>
    BY <1>1 DEF TypeOK, ProcessorTypeOK, CallWebhook, SendMessage, Goto, DeliveryInv,
           AcceptedInv, repoVars, redisVars
  <2>2. CASE NoFault /\ Deliver(cur) /\ (Goto("storeID") \/ Goto("mark"))
    <3> DEFINE accepted == {m \in Messages : status[m] # "absent"}
               known == {m \in Messages : Remembered(m)}
               confirmed == {m \in Messages : status[m] \in {"sent", "duplicate"}}
    <3>1. accepted' = accepted /\ confirmed' = confirmed /\ cur \in accepted
      BY <2>1
    <3>2. known' = known \cup {cur} /\ cur \notin known
      BY <2>1, <2>2 DEF Remembered, Goto
    <3>3. faults' = faults /\ delivered' = [delivered EXCEPT ![cur] = @ + 1]
      BY <2>2 DEF NoFault, Deliver
    <3> QED
      BY <2>1, <3>1, <3>2, <3>3 DEF Ledger!Next, Ledger!Deliver, Ledger!Take
  <2>3. CASE NoFault /\ UNCHANGED delivered /\ Goto("increment")
    <3>1. KeepsKnown /\ Steady /\ OneStatus
      BY <2>1, <2>3 DEF KeepsKnown, Remembered, Goto, Steady, OneStatus
    <3> QED BY <2>3, <3>1, QuietStep DEF NoFault
  <2>4. CASE Fault("webhook") /\ Deliver(cur) /\ Goto("increment")
    <3>1. LosesKnown /\ Steady /\ Taken(cur)
      BY <2>1, <2>4 DEF LosesKnown, Remembered, Goto, Steady, Taken, Deliver
    <3> QED BY <2>1, <2>4, <3>1, FailStep
  <2> QED BY <1>1, <2>2, <2>3, <2>4 DEF CallWebhook, SendMessage
<1>2. CASE ~CallWebhook
  <2>1. delivered' = delivered
    BY <1>2 DEF ConsumerStep, Receive, CheckInbox, GetMessage, StoreID, Mark, WriteStatus,
           Increment, Reload, RetryLater, DeadLetter, Discard
  <2>2. \/ status' = status
        \/ cur \in Messages /\ \E s \in Statuses : UpdateStatus(cur, s)
    <3>1. CASE WriteStatus
      <4>1. cur \in Messages /\ StatusAt[pc] \in Statuses
        BY <3>1 DEF TypeOK, ProcessorTypeOK, WriteStatus, StatusAt, Statuses
      <4> QED BY <3>1, <4>1 DEF WriteStatus, Write, repoVars
    <3> QED
      BY <1>2, <3>1 DEF ConsumerStep, Receive, CheckInbox, GetMessage, StoreID, Mark,
             Increment, Reload, RetryLater, DeadLetter, Discard, Write,
             IncrementRetryCount, repoVars
  <2>3. Steady /\ OneStatus
    BY <1>0, <2>2 DEF Steady, OneStatus, UpdateStatus, Stored, Statuses
  <2>4. NoFault \/ Fault("lookup") \/ Fault("write")
    BY <1>2 DEF ConsumerStep, Receive, CheckInbox, GetMessage, StoreID, Mark, WriteStatus,
           Increment, Reload, RetryLater, DeadLetter, Discard, Write, NoFault
  <2>5. CASE StoreID
    <3>1. KeepsKnown
      BY <2>5 DEF StoreID, Write, StoreWebhookMessageID, Goto, KeepsKnown, Remembered,
             redisVars
    <3> QED BY <2>1, <2>3, <2>4, <3>1, QuietStep, FailStep DEF NoFault, KeepsKnown, LosesKnown
  <2>6. CASE Mark
    <3>1. NoFault => KeepsKnown
      BY <2>6 DEF TypeOK, Mark, Write, MarkAsProcessed, Goto, Fault, NoFault, KeepsKnown,
             Remembered
    <3>2. LosesKnown
      BY <2>6 DEF Mark, Write, MarkAsProcessed, Goto, Return, LosesKnown, Remembered,
             redisVars
    <3> QED BY <2>1, <2>3, <2>4, <3>1, <3>2, QuietStep, FailStep DEF NoFault
  <2>7. CASE ~StoreID /\ ~Mark
    <3>1. pc \notin {"storeID", "mark"} /\ pc' \notin {"storeID", "mark"} /\ inbox' = inbox
      BY <1>2, <2>7 DEF ConsumerStep, Receive, CheckInbox, GetMessage, WriteStatus,
             StatusAt, Increment, Reload, RetryLater, DeadLetter, Discard, Write,
             MoveToRetryQueue, MoveToDeadLetter, Publish, Goto, Return, Die, redisVars
    <3>2. KeepsKnown /\ LosesKnown
      BY <3>1 DEF KeepsKnown, LosesKnown, Remembered
    <3> QED BY <2>1, <2>3, <2>4, <3>2, QuietStep, FailStep DEF NoFault
  <2> QED BY <2>5, <2>6, <2>7
<1> QED BY <1>1, <1>2

LEMMA LedgerProcessor ==
  ASSUME TypeOK, TypeOK', RememberInv', DeliveryInv, AcceptedInv, Processor
  PROVE  [Ledger!Next]_(Ledger!ledger)
<1>0. status \in [Messages -> Statuses \cup {"absent", "dropped"}]
  BY DEF TypeOK, RepoTypeOK
<1>1. CASE MonitorStep \/ ProcessorCrash \/ ProcessorRestart
  <2>1. delivered' = delivered /\ inbox' = inbox
    BY <1>1 DEF MonitorStep, CheckStaleMessages, RecoverDeadLetter, RecoverStatus,
           ProcessorCrash, ProcessorRestart, redisVars
  <2>2. status' = status \/ (failing \in Messages /\ UpdateStatus(failing, "failed"))
    BY <1>1 DEF TypeOK, ProcessorTypeOK, MonitorStep, CheckStaleMessages,
           RecoverDeadLetter, RecoverStatus, Write, ProcessorCrash, ProcessorRestart, repoVars
  <2>3. Steady /\ OneStatus
    BY <1>0, <2>2 DEF Steady, OneStatus, UpdateStatus, Stored, Statuses
  <2>4. CASE ProcessorCrash
    <3>1. Fault("crash") /\ LosesKnown
      BY <2>1, <2>4 DEF ProcessorCrash, Die, LosesKnown, Remembered
    <3> QED BY <2>1, <2>3, <3>1, FailStep
  <2>5. CASE MonitorStep \/ ProcessorRestart
    <3>1. KeepsKnown
      BY <2>1, <2>5 DEF MonitorStep, CheckStaleMessages, RecoverDeadLetter, RecoverStatus,
             ProcessorRestart, KeepsKnown, Remembered, consumerVars
    <3>2. NoFault \/ Fault("write")
      BY <2>5 DEF MonitorStep, CheckStaleMessages, RecoverDeadLetter, RecoverStatus,
             ProcessorRestart, Write, NoFault
    <3> QED BY <2>1, <2>3, <3>1, <3>2, QuietStep, FailStep DEF NoFault, KeepsKnown, LosesKnown
  <2> QED BY <1>1, <2>4, <2>5
<1> QED BY <1>1, LedgerConsumer DEF Processor, ProcessorStep

LEMMA LedgerEnvironment ==
  ASSUME TypeOK, TypeOK', RememberInv', Environment
  PROVE  [Ledger!Next]_(Ledger!ledger)
<1>0. status \in [Messages -> Statuses \cup {"absent", "dropped"}]
  BY DEF TypeOK, RepoTypeOK
<1>1. UNCHANGED <<pc, cur, delivered>>
  BY DEF Environment, consumerVars
<1>2. Steady
  BY <1>0 DEF Environment, MongoDB, RabbitMQ, Redis, TimePasses, DropCollection, Stored,
         Statuses, repoVars, Steady
<1>3. CASE NoFault
  <2>1. status' = status /\ inbox' = inbox
    BY <1>3 DEF TypeOK, Environment, MongoDB, RabbitMQ, Redis, TimePasses, Fault, NoFault,
           redisVars, repoVars
  <2>2. KeepsKnown /\ OneStatus
    BY <1>1, <2>1 DEF KeepsKnown, OneStatus, Remembered
  <2> QED BY <1>1, <1>2, <1>3, <2>2, QuietStep DEF NoFault
<1>4. ASSUME NEW kind, Fault(kind)
      PROVE  [Ledger!Next]_(Ledger!ledger)
  <2>1. inbox' \subseteq inbox
    BY DEF Environment, MongoDB, RabbitMQ, Redis, KeyExpires, RedisRestarts, redisVars
  <2>2. LosesKnown
    BY <1>1, <2>1 DEF LosesKnown, Remembered
  <2> QED BY <1>1, <1>2, <1>4, <2>2, FailStep
<1>5. NoFault \/ \E kind : Fault(kind)
  BY DEF Environment, MongoDB, RabbitMQ, Redis
<1> QED BY <1>3, <1>4, <1>5

\* The system implements the ledger: whatever the schedulers, the two goroutines,
\* the stores and the faults do, what clients and the endpoint see is a history the
\* ledger allows.
THEOREM LedgerImplemented == Spec => LedgerSpec
<1>1. Init => AcceptedInv
  BY DEF Init, ProcessorInit, AcceptedInv
<1>2. /\ TypeOK /\ TypeOK' /\ RememberInv /\ RememberInv' /\ DeliveryInv /\ AcceptedInv
      /\ [Next]_vars
      => [Ledger!Next]_(Ledger!ledger)
  <2>1. UNCHANGED vars => UNCHANGED Ledger!ledger
    BY DEF vars, repoVars, redisVars, consumerVars, Ledger!ledger, Remembered
  <2> QED
    BY <2>1, LedgerSender, LedgerProcessor, LedgerEnvironment DEF Next
<1>3. TypeOK /\ RememberInv /\ [Next]_vars => RememberInv'
  <2>1. TypeOK /\ RememberInv /\ UNCHANGED vars => RememberInv'
    BY DEF vars, repoVars, redisVars, consumerVars, RememberInv, RemembersOnlyDelivered
  <2> QED
    BY <2>1, RememberSender, RememberProcessor, RememberEnvironment DEF Next
<1> QED
  BY TypeCorrect, LedgerInit, RememberInit, DeliveryInit, DeliveryStep, AcceptedStep,
     <1>1, <1>2, <1>3, PTL DEF Spec, LedgerSpec, Ledger!Spec

-----------------------------------------------------------------------------
(* What the ledger promises, from its own steps alone: any system that         *)
(* implements it keeps this.                                                    *)

LedgerInv ==
  /\ faults \in Nat /\ delivered \in [Messages -> Nat]
  /\ \A m \in Messages :
       delivered[m] <= faults + (IF Remembered(m) THEN 1 ELSE 0)
  /\ \A m \in Messages : status[m] \in {"sent", "duplicate"} => delivered[m] > 0
  /\ \A m \in Messages : delivered[m] > 0 => status[m] # "absent"

LEMMA LedgerInvInit == Ledger!Init => LedgerInv
<1> SUFFICES ASSUME Ledger!Init PROVE LedgerInv
  OBVIOUS
<1>1. /\ faults = 0 /\ delivered = [m \in Messages |-> 0]
      /\ \A m \in Messages : ~Remembered(m) /\ status[m] \notin {"sent", "duplicate"}
  BY DEF Ledger!Init
<1> QED BY <1>1 DEF LedgerInv

LEMMA LedgerInvStep == LedgerInv /\ [Ledger!Next]_(Ledger!ledger) => LedgerInv'
<1> DEFINE accepted == {m \in Messages : status[m] # "absent"}
           known == {m \in Messages : Remembered(m)}
           confirmed == {m \in Messages : status[m] \in {"sent", "duplicate"}}
           Inv == /\ faults \in Nat /\ delivered \in [Messages -> Nat]
                  /\ \A m \in Messages :
                       delivered[m] <= faults + (IF m \in known THEN 1 ELSE 0)
                  /\ \A m \in confirmed : delivered[m] > 0
                  /\ \A m \in Messages : delivered[m] > 0 => m \in accepted
<1>1. (LedgerInv <=> Inv) /\ (LedgerInv' <=> Inv')
  BY DEF LedgerInv
<1> SUFFICES ASSUME Inv, [Ledger!Next]_(Ledger!ledger) PROVE Inv'
  BY <1>1
<1>2. ASSUME NEW m \in Messages, Ledger!Accept(m) PROVE Inv'
  <2>1. accepted' = accepted \cup {m} /\ UNCHANGED <<delivered, faults>>
        /\ known' = known /\ confirmed' = confirmed
    BY <1>2 DEF Ledger!Accept
  <2> QED BY <2>1
<1>3. ASSUME NEW m \in Messages, Ledger!Deliver(m) PROVE Inv'
  <2>1. /\ m \in accepted \ known /\ delivered' = [delivered EXCEPT ![m] = @ + 1]
        /\ known' = known \cup {m} /\ faults' = faults
        /\ accepted' = accepted /\ confirmed' = confirmed
    BY <1>3 DEF Ledger!Deliver, Ledger!Take
  <2> HIDE DEF accepted, known, confirmed
  <2> QED BY <2>1
<1>4. ASSUME NEW m \in Messages, Ledger!Confirm(m) \/ Ledger!Withdraw(m) PROVE Inv'
  <2>1. /\ \/ delivered[m] > 0 /\ confirmed' = confirmed \cup {m}
           \/ confirmed' = confirmed \ {m}
        /\ UNCHANGED <<delivered, faults>> /\ known' = known /\ accepted' = accepted
    BY <1>4 DEF Ledger!Confirm, Ledger!Withdraw
  <2> HIDE DEF accepted, known, confirmed
  <2> QED BY <2>1
<1>5. CASE Ledger!Fail
  <2>1. /\ faults' = faults + 1 /\ known' \subseteq known /\ accepted' = accepted
        /\ \A m \in confirmed' : m \in Messages /\ delivered'[m] > 0
        /\ \/ delivered' = delivered
           \/ \E m \in Messages : m \in accepted \ known
                                  /\ delivered' = [delivered EXCEPT ![m] = @ + 1]
    BY <1>5 DEF Ledger!Fail, Ledger!Take
  <2> HIDE DEF accepted, known, confirmed
  <2> QED BY <2>1
<1>6. CASE UNCHANGED Ledger!ledger
  <2>1. /\ UNCHANGED <<delivered, faults>> /\ known' = known /\ accepted' = accepted
        /\ confirmed' = confirmed
    BY <1>6 DEF Ledger!ledger
  <2> HIDE DEF accepted, known, confirmed
  <2> QED BY <2>1
<1> QED BY <1>2, <1>3, <1>4, <1>5, <1>6 DEF Ledger!Next

\* The ledger alone promises that the endpoint takes only what was accepted, takes it
\* once and once more at most for each fault, and that no confirmation is untrue.
THEOREM LedgerPromises ==
  LedgerSpec => []/\ DeliveriesPaidByFaults
                  /\ \A m \in Messages : status[m] \in {"sent", "duplicate"} => delivered[m] > 0
                  /\ \A m \in Messages : delivered[m] > 0 => status[m] # "absent"
<1>1. LedgerInv => /\ DeliveriesPaidByFaults
                   /\ \A m \in Messages :
                        status[m] \in {"sent", "duplicate"} => delivered[m] > 0
                   /\ \A m \in Messages : delivered[m] > 0 => status[m] # "absent"
  BY DEF LedgerInv, DeliveriesPaidByFaults
<1> QED
  BY LedgerInvInit, LedgerInvStep, <1>1, PTL DEF LedgerSpec, Ledger!Spec
=============================================================================
