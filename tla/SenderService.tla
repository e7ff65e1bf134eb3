--------------------------- MODULE SenderService ---------------------------
(***************************************************************************)
(* The sender: the API stores messages in the outbox, the goroutines the   *)
(* scheduler runs publish them. There is one such goroutine, unless two    *)
(* start requests overlapped (module MessageScheduler).                    *)
(***************************************************************************)
EXTENDS MessageRepository, MessageQueue

CONSTANTS
  Runners,   \* goroutines of MessageScheduler.run
  BatchSize  \* messages fetched at each tick

ASSUME SenderAssumption == BatchSize \in Nat \ {0} /\ IsFiniteSet(Runners)

VARIABLES
  rpc,    \* per runner: "off", "select", "publish" or "update"
  batch,  \* per runner: the fetched messages not handled yet
  rcur    \* per runner: the message just published, or None

senderVars == <<rpc, batch, rcur>>

SenderTypeOK ==
  /\ rpc \in [Runners -> {"off", "select", "publish", "update"}]
  /\ batch \in [Runners -> SUBSET Messages]
  /\ rcur \in [Runners -> Messages \cup {None}]
  /\ \A r \in Runners : rpc[r] = "update" => rcur[r] \in Messages

SenderInit ==
  /\ rpc = [r \in Runners |-> "off"]
  /\ batch = [r \in Runners |-> {}]
  /\ rcur = [r \in Runners |-> None]

\* POST /messages.
CreateMessage ==
  /\ \E m \in Messages : InsertMessage(m)
  /\ UNCHANGED <<queues, channel, faults, senderVars>>

\* POST /scheduler/start and /stop: nothing runs until somebody asks for it, and
\* run looks at the stop channel only between two ticks.
StartScheduler(r) ==
  /\ rpc[r] = "off"
  /\ rpc' = [rpc EXCEPT ![r] = "select"]
  /\ UNCHANGED <<repoVars, queues, channel, faults, batch, rcur>>

StopScheduler(r) ==
  /\ rpc[r] = "select"
  /\ rpc' = [rpc EXCEPT ![r] = "off"]
  /\ UNCHANGED <<repoVars, queues, channel, faults, batch, rcur>>

\* A tick: processUnsentMessages fetches a batch. (An error of the query changes
\* nothing.)
ProcessUnsentMessages(r) ==
  /\ rpc[r] = "select"
  /\ \E S \in FindUnsentMessages(BatchSize) \ {{}} :
       batch' = [batch EXCEPT ![r] = S]
  /\ rpc' = [rpc EXCEPT ![r] = "publish"]
  /\ UNCHANGED <<repoVars, queues, channel, faults, rcur>>

\* The loop goes on to what is left of the batch, or back to the select.
NextInBatch_KeepsIt(r, m) ==  \* faulty
  /\ rpc' = [rpc EXCEPT ![r] = IF batch[r] \ {m} = {} THEN "select" ELSE "publish"]
  /\ rcur' = [rcur EXCEPT ![r] = None]
  /\ UNCHANGED batch
NextInBatch(r, m) ==
  /\ batch' = [batch EXCEPT ![r] = @ \ {m}]
  /\ rpc' = [rpc EXCEPT ![r] = IF batch[r] \ {m} = {} THEN "select" ELSE "publish"]
  /\ rcur' = [rcur EXCEPT ![r] = None]

\* handleMessage: publish first ...
PublishNext(r) ==
  /\ rpc[r] = "publish"
  /\ \E m \in batch[r] :
       PublishMessage(m, /\ rcur' = [rcur EXCEPT ![r] = m]
                         /\ rpc' = [rpc EXCEPT ![r] = "update"]
                         /\ UNCHANGED batch,
                         NextInBatch(r, m))
  /\ UNCHANGED <<repoVars, faults>>

\* ... then set the status, whatever it has become meanwhile.
MarkProcessing(r) ==
  /\ rpc[r] = "update"
  /\ Write(UpdateStatus(rcur[r], "processing"), UNCHANGED repoVars,
           NextInBatch(r, rcur[r]), NextInBatch(r, rcur[r]))
  /\ UNCHANGED <<queues, channel>>

RunnerStep(r) == ProcessUnsentMessages(r) \/ PublishNext(r) \/ MarkProcessing(r)

\* The process dies and is started again: no runner runs, the channel is new.
SenderRestart ==
  /\ Fault("crash")
  /\ OpenChannel("sender")
  /\ rpc' = [r \in Runners |-> "off"]
  /\ batch' = [r \in Runners |-> {}]
  /\ rcur' = [r \in Runners |-> None]
  /\ UNCHANGED repoVars

SenderStep ==
  \/ CreateMessage \/ SenderRestart
  \/ \E r \in Runners : StartScheduler(r) \/ StopScheduler(r) \/ RunnerStep(r)
=============================================================================
