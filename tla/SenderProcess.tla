---------------------------- MODULE SenderProcess ----------------------------
(***************************************************************************)
(* The sender as one process: main, which waits for a signal and then      *)
(* shuts down, the goroutines of the HTTP server, which go on serving      *)
(* until the process is gone, and the scheduler between them.              *)
(* main's call of Stop is one caller of MessageScheduler among the         *)
(* requests. A refused request (400, 429) calls nothing and is no step.    *)
(***************************************************************************)
EXTENDS MessageScheduler

CONSTANTS
  Main,     \* the Stopper that is the main goroutine
  Clients,  \* each posts one message, again as long as it is not accepted
  MaxPosts  \* bound: how often a client posts

ASSUME ProcessAssumption == Main \in Stoppers /\ MaxPosts \in Nat

VARIABLES
  main,       \* "serving", "stop", "close", "disconnect", "exited"
  lateStart,  \* history: a Start has taken effect after the signal
  request,    \* per client: "none", "insert", or the answer: "ok", "error"
  documents,  \* per client: the documents stored for its message
  failures,   \* per client: the posts that ended without "Accepted"
  accepted    \* the clients that were told "Accepted"

mainVars == <<main, lateStart>>
apiVars == <<request, documents, failures, accepted>>
processVars == <<vars, mainVars, apiVars>>

MainTypeOK ==
  /\ main \in {"serving", "stop", "close", "disconnect", "exited"}
  /\ lateStart \in BOOLEAN

ApiTypeOK ==
  /\ request \in [Clients -> {"none", "insert", "ok", "error"}]
  /\ documents \in [Clients -> Nat]
  /\ failures \in [Clients -> Nat]
  /\ accepted \subseteq Clients

ProcessTypeOK == TypeOK /\ MainTypeOK /\ ApiTypeOK

ProcessInit ==
  /\ Init
  /\ main = "serving" /\ lateStart = FALSE
  /\ request = [c \in Clients |-> "none"]
  /\ documents = [c \in Clients |-> 0]
  /\ failures = [c \in Clients |-> 0]
  /\ accepted = {}

-----------------------------------------------------------------------------
\* POST /scheduler/start.
StartScheduler(c) ==
  /\ \/ StartCheck(c) /\ UNCHANGED lateStart
     \/ StartRun(c) /\ lateStart' = (lateStart \/ main # "serving")
  /\ UNCHANGED <<main, apiVars>>

\* POST /scheduler/stop.
StopScheduler(c) ==
  /\ c # Main
  /\ StopCheck(c) \/ StopClear(c) \/ \E r \in Runners : Rendezvous(c, r)
  /\ UNCHANGED <<mainVars, apiVars>>

Run(r) == (Tick(r) \/ TickDone(r)) /\ UNCHANGED <<mainVars, apiVars>>

\* POST /messages: the handler, the insertion under a time limit of five seconds
\* (an error may hide a document that was stored), the answer.
Post(c) ==
  /\ request[c] = "none" /\ c \notin accepted /\ failures[c] < MaxPosts
  /\ request' = [request EXCEPT ![c] = "insert"]
  /\ UNCHANGED <<vars, mainVars, documents, failures, accepted>>

Insert_IgnoresErrors(c) ==  \* faulty
  /\ request[c] = "insert"
  /\ documents' \in {documents, [documents EXCEPT ![c] = @ + 1]}
  /\ request' = [request EXCEPT ![c] = "ok"]
  /\ UNCHANGED <<vars, mainVars, failures, accepted>>
Insert(c) ==
  /\ request[c] = "insert"
  /\ documents' \in {documents, [documents EXCEPT ![c] = @ + 1]}
  /\ \/ documents' # documents /\ request' = [request EXCEPT ![c] = "ok"]
     \/ request' = [request EXCEPT ![c] = "error"]
  /\ UNCHANGED <<vars, mainVars, failures, accepted>>

Answer(c) ==
  /\ \/ request[c] = "ok" /\ accepted' = accepted \cup {c} /\ UNCHANGED failures
     \/ /\ request[c] = "error" /\ UNCHANGED accepted
        /\ failures' = [failures EXCEPT ![c] = @ + 1]
  /\ request' = [request EXCEPT ![c] = "none"]
  /\ UNCHANGED <<vars, mainVars, documents>>

-----------------------------------------------------------------------------
\* SIGINT or SIGTERM. The HTTP server is not told.
Signal ==
  /\ main = "serving" /\ main' = "stop"
  /\ UNCHANGED <<vars, lateStart, apiVars>>

\* main calls Stop, which returns at once when the flag is not set, even if the
\* Stop of a request has just cleared it and its runner is still at work.
MainStop_Skips ==  \* faulty
  /\ main = "stop" /\ main' = "close"
  /\ UNCHANGED <<vars, lateStart, apiVars>>
MainStop ==
  /\ main = "stop"
  /\ \/ StopCheck(Main) /\ UNCHANGED main
     \/ StopClear(Main) /\ UNCHANGED main
     \/ call[Main] = "idle" /\ ~isRunning /\ main' = "close" /\ UNCHANGED vars
  /\ UNCHANGED <<lateStart, apiVars>>

MainStopped ==
  /\ main = "stop" /\ main' = "close"
  /\ \E r \in Runners : Rendezvous(Main, r)
  /\ UNCHANGED <<lateStart, apiVars>>

CloseQueue ==
  /\ main = "close" /\ main' = "disconnect"
  /\ UNCHANGED <<vars, lateStart, apiVars>>

\* The client of MongoDB is closed and main returns: every goroutine is gone, and a
\* client in the middle of a request gets no answer.
Exit ==
  /\ main = "disconnect" /\ main' = "exited"
  /\ failures' = [c \in Clients |-> IF request[c] = "none" THEN failures[c]
                                                          ELSE failures[c] + 1]
  /\ request' = [c \in Clients |-> "none"]
  /\ UNCHANGED <<vars, lateStart, documents, accepted>>

Exited == main = "exited" /\ UNCHANGED processVars

ProcessNext ==
  \/ /\ main # "exited"
     /\ \/ \E c \in Starters : StartScheduler(c)
        \/ \E c \in Stoppers : StopScheduler(c)
        \/ \E r \in Runners : Run(r)
        \/ \E c \in Clients : Post(c) \/ Insert(c) \/ Answer(c)
  \/ Signal \/ MainStop \/ MainStopped \/ CloseQueue \/ Exit
  \/ Exited

ProcessSpec == ProcessInit /\ [][ProcessNext]_processVars

\* Goroutines go on. A Stop that sends whenever a runner selects is served some
\* time: done is ready at once, the ticker every two minutes only.
ProcessFairSpec ==
  /\ ProcessSpec
  /\ WF_processVars(MainStop) /\ SF_processVars(MainStopped)
  /\ WF_processVars(CloseQueue) /\ WF_processVars(Exit)
  /\ \A c \in Stoppers :
       /\ WF_processVars(main # "exited" /\ StopScheduler(c) /\ call[c] = "set")
       /\ SF_processVars(main # "exited" /\ StopScheduler(c) /\ call[c] = "send")
  /\ \A r \in Runners : WF_processVars(main # "exited" /\ Run(r) /\ runner[r] = "work")

-----------------------------------------------------------------------------
\* A Stop that found the scheduler running returns, also when a runner is in the
\* middle of a batch and when calls of Start come in between, unless two Stops
\* have overlapped or the process ends.
StopReturns ==
  \A c \in Stoppers :
    call[c] # "idle" ~> call[c] = "idle" \/ "stop" \in overlapped \/ main = "exited"

\* Told to end, the process ends, whatever runs and whatever is still requested:
\* main waits in Stop for ever only if two Stops have overlapped.
ShutdownExits == main = "stop" ~> main = "exited" \/ "stop" \in overlapped

\* When main closes the connections, nothing publishes any more but what a request
\* in the middle of its own Stop is waiting for, or what a request has started
\* since the signal, or a runner that overlapping Starts left over.
ShutdownStops ==
  main \in {"close", "disconnect", "exited"} /\ ~lateStart /\ "start" \notin overlapped
    => Cardinality(Alive) <= Cardinality(Sending)

\* A message that was accepted is stored. It is stored once, and once more at most
\* for each earlier post of it that failed: nothing makes a repeated post the same
\* message.
AcceptedIsStored ==
  \A c \in Clients :
    /\ c \in accepted => documents[c] > 0
    /\ documents[c] <= failures[c] + 1
=============================================================================
