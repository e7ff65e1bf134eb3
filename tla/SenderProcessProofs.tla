------------------------- MODULE SenderProcessProofs -------------------------
(***************************************************************************)
(* Proofs about the sender's process: it runs the scheduler as             *)
(* MessageScheduler describes it, its shutdown leaves no runner behind     *)
(* that it could have known of, and an accepted message is stored.         *)
(***************************************************************************)
EXTENDS SenderProcess, MessageSchedulerProofs

USE ProcessAssumption

-----------------------------------------------------------------------------
(* The process does nothing to the scheduler's variables that the scheduler    *)
(* does not do: main is one more caller of Stop.                               *)

LEMMA SchedulerStep == [ProcessNext]_processVars => [Next]_vars
<1> SUFFICES ASSUME [ProcessNext]_processVars PROVE [Next]_vars
  OBVIOUS
<1>1. ASSUME NEW c \in Starters, StartScheduler(c) PROVE Next
  BY <1>1 DEF StartScheduler, Next
<1>2. ASSUME NEW c \in Stoppers, StopScheduler(c) PROVE Next
  BY <1>2 DEF StopScheduler, Next
<1>3. ASSUME NEW r \in Runners, Run(r) PROVE Next
  BY <1>3 DEF Run, Next
<1>4. ASSUME NEW c \in Clients, Post(c) \/ Insert(c) \/ Answer(c) PROVE UNCHANGED vars
  BY <1>4 DEF Post, Insert, Answer
<1>5. CASE MainStop
  BY <1>5 DEF MainStop, Next
<1>6. CASE MainStopped
  BY <1>6 DEF MainStopped, Next
<1>7. CASE Signal \/ CloseQueue \/ Exit \/ Exited \/ UNCHANGED processVars
  BY <1>7 DEF Signal, CloseQueue, Exit, Exited, processVars
<1> QED BY <1>1, <1>2, <1>3, <1>4, <1>5, <1>6, <1>7 DEF ProcessNext

\* Whatever main and the clients do, the scheduler behaves as its own
\* specification says, so that what is proved of that holds in the process.
THEOREM SchedulerIsImplemented == ProcessSpec => Spec
<1>1. ProcessInit => Init
  BY DEF ProcessInit
<1> QED BY <1>1, SchedulerStep, PTL DEF ProcessSpec, Spec

\* In the process no runner is missing as long as two Stops, main's among them,
\* have not overlapped.
THEOREM ProcessMissesNoRunner == ProcessSpec => []EnoughRunners
  BY SchedulerIsImplemented, NoRunnerIsMissing, PTL

\* In the process no runner is left over as long as two Starts have not overlapped.
THEOREM ProcessLeavesNoRunner == ProcessSpec => []NoStrayRunner
  BY SchedulerIsImplemented, NoRunnerIsLeftOver, PTL

\* In the process two goroutines publish at the same time only if two Starts, or a
\* Start and a Stop that still waits, main's among them, have overlapped.
THEOREM ProcessHasOneRunner == ProcessSpec => []OneRunner
  BY SchedulerIsImplemented, OneRunnerAtATime, PTL

-----------------------------------------------------------------------------
LEMMA ApiSteps ==
  ASSUME [ProcessNext]_processVars
  PROVE  \/ \E c \in Clients : Post(c) \/ Insert(c) \/ Answer(c)
         \/ Exit \/ UNCHANGED apiVars
  BY DEF ProcessNext, StartScheduler, StopScheduler, Run, Signal, MainStop, MainStopped,
         CloseQueue, Exited, processVars

\* Every variable of the process stays in its type.
THEOREM ProcessTypeCorrect == ProcessSpec => []ProcessTypeOK
<1>1. ProcessInit => MainTypeOK
  BY DEF ProcessInit, MainTypeOK
<1>2. ProcessInit => ApiTypeOK
  BY DEF ProcessInit, ApiTypeOK
<1>3. MainTypeOK /\ [ProcessNext]_processVars => MainTypeOK'
  <2> SUFFICES ASSUME MainTypeOK, [ProcessNext]_processVars PROVE MainTypeOK'
    OBVIOUS
  <2>1. ASSUME NEW c \in Starters, StartScheduler(c) PROVE MainTypeOK'
    BY <2>1 DEF StartScheduler, MainTypeOK
  <2>2. CASE \/ \E c \in Stoppers : StopScheduler(c)
             \/ \E r \in Runners : Run(r)
             \/ \E c \in Clients : Post(c) \/ Insert(c) \/ Answer(c)
             \/ Exited \/ UNCHANGED processVars
    BY <2>2 DEF StopScheduler, Run, Post, Insert, Answer, Exited, processVars, mainVars,
           MainTypeOK
  <2>3. CASE Signal \/ MainStop \/ MainStopped \/ CloseQueue \/ Exit
    BY <2>3 DEF Signal, MainStop, MainStopped, CloseQueue, Exit, MainTypeOK
  <2> QED BY <2>1, <2>2, <2>3 DEF ProcessNext
<1>4. ApiTypeOK /\ [ProcessNext]_processVars => ApiTypeOK'
  <2> SUFFICES ASSUME ApiTypeOK, [ProcessNext]_processVars PROVE ApiTypeOK'
    OBVIOUS
  <2>1. ASSUME NEW c \in Clients, Post(c) \/ Insert(c) \/ Answer(c) PROVE ApiTypeOK'
    BY <2>1 DEF Post, Insert, Answer, ApiTypeOK
  <2>2. CASE Exit
    BY <2>2 DEF Exit, ApiTypeOK
  <2>3. CASE UNCHANGED apiVars
    BY <2>3 DEF apiVars, ApiTypeOK
  <2> QED BY <2>1, <2>2, <2>3, ApiSteps
<1> QED BY <1>1, <1>2, <1>3, <1>4, SchedulerIsImplemented, TypeCorrect, PTL
       DEF ProcessSpec, ProcessTypeOK

-----------------------------------------------------------------------------
(* Shutdown. From the moment main's Stop has cleared the flag, or found it     *)
(* clear, only a Start could set it again.                                     *)

StoppedInv ==
  /\ call[Main] # "idle" => main = "stop"
  /\ ~lateStart /\ main \in {"close", "disconnect", "exited"} => ~isRunning
  /\ ~lateStart /\ call[Main] = "send" => ~isRunning

LEMMA StoppedStep ==
  ASSUME ProcessTypeOK, StoppedInv, [ProcessNext]_processVars
  PROVE  StoppedInv'
<1>0. Main \in Callers /\ call \in [Callers -> {"idle", "set", "send"}] /\ Main \notin Starters
  BY SchedulerAssumption DEF ProcessTypeOK, TypeOK, Callers
<1>1. ASSUME NEW c \in Starters, StartScheduler(c) PROVE StoppedInv'
  <2>1. call'[Main] = call[Main] /\ main' = main
    BY <1>0, <1>1 DEF StartScheduler, StartCheck, StartRun, Callers
  <2>2. CASE StartCheck(c) /\ UNCHANGED lateStart
    BY <2>1, <2>2 DEF StartCheck, StoppedInv
  <2>3. CASE StartRun(c) /\ lateStart' = (lateStart \/ main # "serving")
    BY <2>1, <2>3 DEF StoppedInv
  <2> QED BY <1>1, <2>2, <2>3 DEF StartScheduler
<1>2. ASSUME NEW c \in Stoppers, StopScheduler(c) PROVE StoppedInv'
  <2>1. call'[Main] = call[Main] /\ UNCHANGED <<main, lateStart>>
    BY <1>0, <1>2 DEF StopScheduler, StopCheck, StopClear, Rendezvous, Callers, mainVars
  <2>2. isRunning' = isRunning \/ ~isRunning'
    BY <1>2 DEF StopScheduler, StopCheck, StopClear, Rendezvous
  <2> QED BY <2>1, <2>2 DEF StoppedInv
<1>3. CASE (\E r \in Runners : Run(r)) \/ (\E c \in Clients : Post(c) \/ Insert(c) \/ Answer(c))
           \/ Exited \/ UNCHANGED processVars
  <2>1. UNCHANGED <<isRunning, call, main, lateStart>>
    BY <1>3 DEF Run, Tick, TickDone, Post, Insert, Answer, Exited, processVars, vars, mainVars
  <2> QED BY <2>1 DEF StoppedInv
<1>4. CASE Signal
  BY <1>4 DEF Signal, vars, StoppedInv
<1>5. CASE MainStop
  <2>1. CASE StopCheck(Main) /\ UNCHANGED main
    BY <1>0, <1>5, <2>1 DEF MainStop, StopCheck, StoppedInv
  <2>2. CASE StopClear(Main) /\ UNCHANGED main
    BY <1>0, <1>5, <2>2 DEF MainStop, StopClear, StoppedInv
  <2>3. CASE call[Main] = "idle" /\ ~isRunning /\ main' = "close" /\ UNCHANGED vars
    BY <2>3 DEF vars, StoppedInv
  <2> QED BY <1>5, <2>1, <2>2, <2>3 DEF MainStop
<1>6. CASE MainStopped
  BY <1>0, <1>6 DEF MainStopped, Rendezvous, StoppedInv
<1>7. CASE CloseQueue \/ Exit
  BY <1>7 DEF CloseQueue, Exit, vars, StoppedInv
<1> QED BY <1>1, <1>2, <1>3, <1>4, <1>5, <1>6, <1>7 DEF ProcessNext

\* When main closes the connections, the runners there still are have a Stop
\* waiting for them, unless a Start came late or two Starts had overlapped.
THEOREM ShutdownIsClean == ProcessSpec => []ShutdownStops
<1>1. ProcessInit => StoppedInv
  BY DEF ProcessInit, Init, StoppedInv, Callers
<1>2. StoppedInv /\ NoStrayRunner => ShutdownStops
  BY Counts DEF StoppedInv, NoStrayRunner, ShutdownStops, Accounted
<1> QED BY <1>1, <1>2, StoppedStep, ProcessTypeCorrect, ProcessLeavesNoRunner, PTL
       DEF ProcessSpec

-----------------------------------------------------------------------------
(* Requests. While its request is under way, or after it was accepted, a client *)
(* has one document more than its failures account for, at most.               *)

StoredInv ==
  \A c \in Clients :
    /\ c \in accepted \/ request[c] = "ok" => documents[c] > 0
    /\ documents[c] <= failures[c] + 1
    /\ c \notin accepted /\ request[c] \in {"none", "insert"} => documents[c] <= failures[c]
    /\ c \in accepted => request[c] = "none"

LEMMA StoredStep ==
  ASSUME ProcessTypeOK, StoredInv, [ProcessNext]_processVars
  PROVE  StoredInv'
<1>0. /\ request \in [Clients -> {"none", "insert", "ok", "error"}]
      /\ documents \in [Clients -> Nat] /\ failures \in [Clients -> Nat]
      /\ accepted \subseteq Clients
  BY DEF ProcessTypeOK, ApiTypeOK
<1>1. ASSUME NEW c \in Clients, Post(c) PROVE StoredInv'
  BY <1>0, <1>1 DEF Post, StoredInv
<1>2. ASSUME NEW c \in Clients, Insert(c) PROVE StoredInv'
  <2>1. /\ UNCHANGED <<failures, accepted>> /\ c \notin accepted
        /\ request'[c] \in {"ok", "error"} /\ documents'[c] \in {documents[c], documents[c] + 1}
        /\ request'[c] = "ok" => documents'[c] = documents[c] + 1
        /\ documents[c] <= failures[c]
        /\ \A d \in Clients : d # c => request'[d] = request[d] /\ documents'[d] = documents[d]
    BY <1>0, <1>2 DEF Insert, StoredInv
  <2> QED BY <1>0, <2>1 DEF StoredInv
<1>3. ASSUME NEW c \in Clients, Answer(c) PROVE StoredInv'
  BY <1>0, <1>3 DEF Answer, StoredInv
<1>4. CASE Exit
  BY <1>0, <1>4 DEF Exit, StoredInv
<1>5. CASE UNCHANGED apiVars
  BY <1>5 DEF apiVars, StoredInv
<1> QED BY <1>1, <1>2, <1>3, <1>4, <1>5, ApiSteps

\* An accepted message is stored, and stored more often than once only as often as
\* an earlier post of it failed.
THEOREM AcceptedMessagesAreStored == ProcessSpec => []AcceptedIsStored
<1>1. ProcessInit => StoredInv
  BY DEF ProcessInit, StoredInv
<1>2. StoredInv => AcceptedIsStored
  BY DEF StoredInv, AcceptedIsStored
<1> QED BY <1>1, <1>2, StoredStep, ProcessTypeCorrect, PTL DEF ProcessSpec
=============================================================================
