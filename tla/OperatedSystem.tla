--------------------------- MODULE OperatedSystem ---------------------------
(***************************************************************************)
(* The whole system as its API operates it. ReliableMessaging lets the     *)
(* goroutines that publish start and end at will; here they are the        *)
(* runners of MessageScheduler, whose calls race for isRunning: a runner   *)
(* starts with the last statement of a Start and ends in the rendezvous    *)
(* with a Stop, or with the process.                                       *)
(***************************************************************************)
EXTENDS ReliableMessaging

CONSTANTS Starters, Stoppers  \* the goroutines that serve start and stop requests

ASSUME OperatedAssumption ==
  Starters \cap Stoppers = {} /\ IsFiniteSet(Starters) /\ IsFiniteSet(Stoppers)

VARIABLES isRunning, call, overlapped  \* see MessageScheduler

schedulerVars == <<isRunning, call, overlapped>>
operatedVars == <<vars, schedulerVars>>

\* The scheduler does not see what a runner does between two ticks.
Scheduler == INSTANCE MessageScheduler WITH
  runner <- [r \in Runners |-> IF rpc[r] \in {"off", "select"} THEN rpc[r] ELSE "work"]

OperatedInit == Init /\ Scheduler!Init

-----------------------------------------------------------------------------
SenderOnly == UNCHANGED <<redisVars, delivered, consumerVars, monitorVars>>

\* One access to isRunning by a call of the API.
ApiCall ==
  /\ UNCHANGED vars
  /\ \/ \E c \in Starters : Scheduler!StartCheck(c)
     \/ \E c \in Stoppers : Scheduler!StopCheck(c) \/ Scheduler!StopClear(c)

RunnerStarts ==
  /\ \E r \in Runners, c \in Starters : StartScheduler(r) /\ Scheduler!StartRun(c)
  /\ SenderOnly

RunnerEnds ==
  /\ \E r \in Runners, c \in Stoppers : StopScheduler(r) /\ Scheduler!Rendezvous(c, r)
  /\ SenderOnly

\* The flag and every call in progress are gone with the process.
SenderCrash ==
  /\ SenderRestart /\ SenderOnly
  /\ isRunning' = FALSE
  /\ call' = [c \in Starters \cup Stoppers |-> "idle"]
  /\ UNCHANGED overlapped

SenderWorks(r) == RunnerStep(r) /\ SenderOnly /\ UNCHANGED schedulerVars

OperatedNext ==
  \/ ApiCall \/ RunnerStarts \/ RunnerEnds \/ SenderCrash
  \/ CreateMessage /\ SenderOnly /\ UNCHANGED schedulerVars
  \/ \E r \in Runners : SenderWorks(r)
  \/ Processor /\ UNCHANGED schedulerVars
  \/ Environment /\ UNCHANGED schedulerVars

OperatedSpec == OperatedInit /\ [][OperatedNext]_operatedVars

\* What goes on by itself, as in ReliableMessaging. No call has to be made.
OperatedFairSpec ==
  /\ OperatedSpec
  /\ WF_operatedVars(ConsumerStep /\ UNCHANGED <<senderVars, schedulerVars>>)
  /\ WF_operatedVars(MonitorStep /\ UNCHANGED <<senderVars, schedulerVars>>)
  /\ \A r \in Runners : WF_operatedVars(SenderWorks(r))
  /\ \A m \in Messages : WF_operatedVars(Environment /\ TimePasses(m) /\ UNCHANGED schedulerVars)
  /\ \A b \in Bodies : WF_operatedVars(Environment /\ RetryExpires(b) /\ UNCHANGED schedulerVars)
  /\ \A s \in Services : WF_operatedVars(Environment /\ ChannelCloses(s) /\ UNCHANGED schedulerVars)

-----------------------------------------------------------------------------
\* Nobody has called Start twice at the same time, or before a Stop returned.
ByTurns == overlapped \cap {"start", "cross"} = {}

\* Then the API keeps the premise of PublishedOnce, however often the scheduler is
\* stopped and started: without a fault a publication of a message is its first.
PublishedByTurns == [][faults = 0 /\ ByTurns => FirstPublication]_operatedVars

\* And the copies of a message are one, and one more at most for each fault, crashes
\* of the sender with a runner in the middle of a batch included.
CopiesByTurns == ByTurns => \A m \in Messages : InFlight(m) <= 1 + faults

\* A stored message ends, for good, in a terminal status, as long as the processor is
\* up and, unless the message has been marked as published, the scheduler says that
\* it is running: then some runner takes the message, or two Stops have ended the
\* runner behind the flag. What is in processing needs no scheduler any more.
Settles ==
  \A m \in Messages :
    <>[](/\ pc # "down"
         /\ status[m] # "unsent" \/ (isRunning /\ "stop" \notin overlapped))
      => [](Stored(m) => <>[](status[m] \in Terminal))
=============================================================================
