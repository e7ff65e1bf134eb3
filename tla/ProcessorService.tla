-------------------------- MODULE ProcessorService --------------------------
(***************************************************************************)
(* The processor: one goroutine consumes the main queue, one looks for     *)
(* stale messages every minute. Each call to MongoDB, Redis, RabbitMQ or   *)
(* the webhook is a step of its own, so that the two goroutines, the       *)
(* sender and a crash come between any two calls.                          *)
(*                                                                         *)
(* pc is the next call of the consumer:                                    *)
(*   isProcessed -> getByID -> send -> storeID -> mark -> sent             *)
(*   send fails  -> increment -> processing -> reload -> retry             *)
(*   getByID, reload -> deadLetter -> failed (too many retries, stale)     *)
(*   isProcessed -> duplicate (in the inbox), discard (unusable body)      *)
(***************************************************************************)
EXTENDS MessageRepository, MessageQueue, IdempotencyService, WebhookClient

VARIABLES
  pc, cur,        \* the consumer: its next call, the body it handles
  found, failing  \* the monitor: messages left to recover, the one whose
                  \* dead letter is published and whose status is not written

consumerVars == <<pc, cur>>
monitorVars == <<found, failing>>

Calls == {"isProcessed", "getByID", "send", "storeID", "mark", "sent",
          "increment", "processing", "reload", "retry", "deadLetter", "failed",
          "duplicate"}

ProcessorTypeOK ==
  /\ \/ pc \in {"idle", "down"} /\ cur = None
     \/ pc \in Calls /\ cur \in Messages
     \/ pc = "isProcessed" /\ cur \in InvalidIDs
     \/ pc = "discard" /\ cur \in Malformed \cup InvalidIDs
  /\ found \subseteq Messages
  /\ failing \in Messages \cup {None}

ProcessorInit == pc = "idle" /\ cur = None /\ found = {} /\ failing = None

Goto(label) == pc' = label /\ UNCHANGED cur
Return_KeepsBody == pc' = "idle" /\ UNCHANGED cur  \* faulty
Return == pc' = "idle" /\ cur' = None

\* The process ends: what its goroutines held is gone. (A nil dereference in one
\* goroutine ends the process too.)
Die == pc' = "down" /\ cur' = None /\ found' = {} /\ failing' = None

-----------------------------------------------------------------------------
\* Start's select takes a delivery; processMessage acknowledges it first of all.
Receive ==
  /\ pc = "idle"
  /\ \E b \in Bodies :
       /\ TakeDelivery(b)
       /\ cur' = b
       /\ pc' = IF b \in Malformed THEN "discard" ELSE "isProcessed"
  /\ UNCHANGED <<repoVars, redisVars, delivered, faults, monitorVars>>

CheckInbox ==
  /\ pc = "isProcessed"
  /\ \/ /\ NoFault /\ UNCHANGED <<queues, channel>>
        /\ \/ IsProcessed(cur) /\ Goto("duplicate")
           \/ ~IsProcessed(cur) /\ cur \in InvalidIDs /\ Goto("discard")
           \/ ~IsProcessed(cur) /\ cur \in Messages /\ Goto("getByID")
     \/ Fault("lookup") /\ Nack /\ Return
  /\ UNCHANGED <<repoVars, redisVars, delivered, monitorVars>>

\* ShouldProcessMessage: neither the retry limit nor the four minutes reached.
\* The status of the document plays no part.
ShouldProcessMessage_LimitIncluded(m) ==  \* faulty
  retryCount[m] <= MaxRetries /\ m \notin stale
ShouldProcessMessage(m) == retryCount[m] < MaxRetries /\ m \notin stale

\* GetByID gives nil for a document that is gone, and the nil is dereferenced.
GetMessage ==
  /\ pc = "getByID"
  /\ \/ /\ Stored(cur) /\ NoFault /\ UNCHANGED <<queues, channel, monitorVars>>
        /\ Goto(IF ShouldProcessMessage(cur) THEN "send" ELSE "deadLetter")
     \/ ~Stored(cur) /\ NoFault /\ UNCHANGED <<queues, channel>> /\ Die
     \/ Fault("lookup") /\ Nack /\ Return /\ UNCHANGED monitorVars
  /\ UNCHANGED <<repoVars, redisVars, delivered>>

CallWebhook_NoIDIsAnError ==  \* faulty
  /\ pc = "send"
  /\ SendMessage(cur, Goto("storeID"), Goto("increment"), Goto("increment"))
  /\ UNCHANGED <<repoVars, queues, channel, redisVars, monitorVars>>
CallWebhook_IgnoresErrors ==  \* faulty
  /\ pc = "send"
  /\ SendMessage(cur, Goto("storeID"), Goto("mark"), Goto("mark"))
  /\ UNCHANGED <<repoVars, queues, channel, redisVars, monitorVars>>
CallWebhook ==
  /\ pc = "send"
  /\ SendMessage(cur, Goto("storeID"), Goto("mark"), Goto("increment"))
  /\ UNCHANGED <<repoVars, queues, channel, redisVars, monitorVars>>

StoreID_SkipsMark ==  \* faulty
  /\ pc = "storeID"
  /\ Write(StoreWebhookMessageID(cur), UNCHANGED redisVars,
           Goto("sent"), Goto("mark"))
  /\ UNCHANGED <<repoVars, queues, channel, delivered, monitorVars>>
StoreID ==
  /\ pc = "storeID"
  /\ Write(StoreWebhookMessageID(cur), UNCHANGED redisVars,
           Goto("mark"), Goto("mark"))
  /\ UNCHANGED <<repoVars, queues, channel, delivered, monitorVars>>

Mark ==
  /\ pc = "mark"
  /\ Write(MarkAsProcessed(cur), UNCHANGED redisVars, Goto("sent"), Return)
  /\ UNCHANGED <<repoVars, queues, channel, delivered, monitorVars>>

\* The one command on the document at each of these labels: the status written,
\* and where the code goes after a success. Any error ends the handling.
StatusAt == [sent |-> "sent", duplicate |-> "duplicate",
             failed |-> "failed", processing |-> "processing"]

WriteStatus ==
  /\ pc \in DOMAIN StatusAt
  /\ Write(UpdateStatus(cur, StatusAt[pc]), UNCHANGED repoVars,
           IF pc = "processing" THEN Goto("reload") ELSE Return, Return)
  /\ UNCHANGED <<queues, channel, redisVars, delivered, monitorVars>>

\* handleWebhookError: count the attempt, set processing (WriteStatus), read the
\* count back, then retry later or give up.
Increment ==
  /\ pc = "increment"
  /\ Write(IncrementRetryCount(cur), UNCHANGED repoVars,
           Goto("processing"), Return)
  /\ UNCHANGED <<queues, channel, redisVars, delivered, monitorVars>>

Reload ==
  /\ pc = "reload"
  /\ \/ /\ Stored(cur) /\ NoFault /\ UNCHANGED monitorVars
        /\ Goto(IF retryCount[cur] >= MaxRetries THEN "deadLetter" ELSE "retry")
     \/ ~Stored(cur) /\ NoFault /\ Die
     \/ Fault("lookup") /\ Return /\ UNCHANGED monitorVars
  /\ UNCHANGED <<repoVars, queues, channel, redisVars, delivered>>

RetryLater ==
  /\ pc = "retry"
  /\ MoveToRetryQueue(cur, Return, Return)
  /\ UNCHANGED <<repoVars, redisVars, delivered, faults, monitorVars>>

\* handleMaxRetriesReached, handleStaleMessage and the end of handleWebhookError:
\* an error of the publication is logged and the status is written all the same.
DeadLetter ==
  /\ pc = "deadLetter"
  /\ MoveToDeadLetter(cur, Goto("failed"), Goto("failed"))
  /\ UNCHANGED <<repoVars, redisVars, delivered, faults, monitorVars>>

\* handleMalformedMessage and handleInvalidID.
Discard ==
  /\ pc = "discard"
  /\ MoveToDeadLetter(cur, Return, Return)
  /\ UNCHANGED <<repoVars, redisVars, delivered, faults, monitorVars>>

ConsumerStep ==
  \/ Receive \/ CheckInbox \/ GetMessage \/ CallWebhook \/ StoreID \/ Mark
  \/ WriteStatus \/ Increment \/ Reload \/ RetryLater \/ DeadLetter \/ Discard

-----------------------------------------------------------------------------
\* A tick of the monitor. (When the query fails, nothing changes.)
CheckStaleMessages ==
  /\ pc # "down" /\ found = {} /\ failing = None
  /\ found' = FindStaleProcessingMessages
  /\ UNCHANGED <<repoVars, queues, channel, redisVars, delivered, faults,
                 consumerVars, failing>>

\* handleStaleMessageRecovery of the next message: its dead letter, then its
\* status. Here an error of the publication ends the recovery of this message.
RecoverDeadLetter_StatusOnly ==  \* faulty
  /\ failing = None
  /\ failing' \in found
  /\ UNCHANGED <<repoVars, queues, channel, redisVars, delivered, faults,
                 consumerVars, found>>
RecoverDeadLetter ==
  /\ failing = None
  /\ \E m \in found :
       MoveToDeadLetter(m, failing' = m /\ UNCHANGED found,
                           found' = found \ {m} /\ UNCHANGED failing)
  /\ UNCHANGED <<repoVars, redisVars, delivered, faults, consumerVars>>

RecoverStatus ==
  /\ failing # None
  /\ LET Next1 == found' = found \ {failing} /\ failing' = None
     IN  Write(UpdateStatus(failing, "failed"), UNCHANGED repoVars, Next1, Next1)
  /\ UNCHANGED <<queues, channel, redisVars, delivered, consumerVars>>

MonitorStep == CheckStaleMessages \/ RecoverDeadLetter \/ RecoverStatus

-----------------------------------------------------------------------------
\* The process is killed, or told to stop: Stop closes the queue and main
\* returns without waiting for either goroutine.
ProcessorCrash ==
  /\ pc # "down" /\ Fault("crash") /\ Die
  /\ UNCHANGED <<repoVars, queues, channel, redisVars, delivered>>

ProcessorRestart ==
  /\ pc = "down" /\ OpenChannel("processor")
  /\ pc' = "idle" /\ UNCHANGED cur
  /\ UNCHANGED <<repoVars, redisVars, delivered, faults, monitorVars>>

ProcessorStep ==
  ConsumerStep \/ MonitorStep \/ ProcessorCrash \/ ProcessorRestart
=============================================================================
