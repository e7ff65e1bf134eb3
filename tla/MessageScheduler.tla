-------------------------- MODULE MessageScheduler --------------------------
(***************************************************************************)
(* How the goroutines that publish messages come and go. POST              *)
(* /scheduler/start and /stop are served by concurrent goroutines, main    *)
(* calls Stop on shutdown, and all of them read and write isRunning        *)
(* without a lock: a step of this module is one access to isRunning, or    *)
(* one rendezvous on the unbuffered channel done. (A racing read of the    *)
(* flag gives its old or its new value: it comes before or after the       *)
(* write.) A call that returns at once changes nothing and is no step.     *)
(* What a runner does between two ticks is in SenderService.               *)
(***************************************************************************)
EXTENDS Naturals, FiniteSets

CONSTANTS
  Starters,  \* goroutines that call Start, one call after another
  Stoppers,  \* goroutines that call Stop, one call after another
  Runners    \* goroutines of run: bounds how many exist at a time

ASSUME SchedulerAssumption ==
  /\ Starters \cap Stoppers = {}
  /\ IsFiniteSet(Starters) /\ IsFiniteSet(Stoppers) /\ IsFiniteSet(Runners)

VARIABLES
  isRunning,
  call,       \* per caller: "idle", "set" (it has read isRunning), "send"
  runner,     \* per runner: "off", "select", "work"
  overlapped  \* history: "start", "stop" once two such calls were in "set" at once,
              \* "cross" once a Start took effect while a Stop was in "send"

vars == <<isRunning, call, runner, overlapped>>

Callers == Starters \cup Stoppers

TypeOK ==
  /\ isRunning \in BOOLEAN
  /\ call \in [Callers -> {"idle", "set", "send"}]
  /\ \A c \in Starters : call[c] # "send"
  /\ runner \in [Runners -> {"off", "select", "work"}]
  /\ overlapped \subseteq {"start", "stop", "cross"}

Init ==
  /\ isRunning = FALSE
  /\ call = [c \in Callers |-> "idle"]
  /\ runner = [r \in Runners |-> "off"]
  /\ overlapped = {}

-----------------------------------------------------------------------------
\* A call of the given kind has passed its check: does another one stand there?
Overlap(kind, group) ==
  overlapped' = IF \E c \in group : call[c] = "set"
                THEN overlapped \cup {kind} ELSE overlapped

\* Start: "if s.isRunning { return }", else go on.
StartCheck(c) ==
  /\ call[c] = "idle" /\ ~isRunning
  /\ call' = [call EXCEPT ![c] = "set"]
  /\ Overlap("start", Starters)
  /\ UNCHANGED <<isRunning, runner>>

Cross ==
  overlapped' = IF \E d \in Stoppers : call[d] = "send"
                THEN overlapped \cup {"cross"} ELSE overlapped

StartRun_Sends(c) ==  \* faulty
  /\ call[c] = "set"
  /\ isRunning' = TRUE
  /\ \E r \in Runners : runner[r] = "off" /\ runner' = [runner EXCEPT ![r] = "select"]
  /\ call' = [call EXCEPT ![c] = "send"]
  /\ Cross
StartRun_KeepsFlag(c) ==  \* faulty
  /\ call[c] = "set"
  /\ \E r \in Runners : runner[r] = "off" /\ runner' = [runner EXCEPT ![r] = "select"]
  /\ call' = [call EXCEPT ![c] = "idle"]
  /\ Cross
  /\ UNCHANGED isRunning
\* The flag is set and the goroutine started, two statements in one step: a goroutine
\* that is yet to be started is to all others one that is slow to reach its select.
StartRun(c) ==
  /\ call[c] = "set"
  /\ isRunning' = TRUE
  /\ \E r \in Runners : runner[r] = "off" /\ runner' = [runner EXCEPT ![r] = "select"]
  /\ call' = [call EXCEPT ![c] = "idle"]
  /\ Cross

\* Stop: "if !s.isRunning { return }", else clear the flag and send on done.
StopCheck(c) ==
  /\ call[c] = "idle" /\ isRunning
  /\ call' = [call EXCEPT ![c] = "set"]
  /\ Overlap("stop", Stoppers)
  /\ UNCHANGED <<isRunning, runner>>

StopClear(c) ==
  /\ call[c] = "set"
  /\ isRunning' = FALSE
  /\ call' = [call EXCEPT ![c] = "send"]
  /\ UNCHANGED <<runner, overlapped>>

\* The rendezvous: Stop returns, and some runner that waits in its select ends.
Rendezvous_LeavesRunner(c, r) ==  \* faulty
  /\ call[c] = "send" /\ runner[r] = "select"
  /\ call' = [call EXCEPT ![c] = "idle"]
  /\ UNCHANGED <<isRunning, runner, overlapped>>
Rendezvous(c, r) ==
  /\ call[c] = "send" /\ runner[r] = "select"
  /\ call' = [call EXCEPT ![c] = "idle"]
  /\ runner' = [runner EXCEPT ![r] = "off"]
  /\ UNCHANGED <<isRunning, overlapped>>

\* A tick, and the end of processUnsentMessages.
Tick(r) ==
  /\ runner[r] = "select"
  /\ runner' = [runner EXCEPT ![r] = "work"]
  /\ UNCHANGED <<isRunning, call, overlapped>>

TickDone_Ends(r) ==  \* faulty
  /\ runner[r] = "work"
  /\ runner' = [runner EXCEPT ![r] = "off"]
  /\ UNCHANGED <<isRunning, call, overlapped>>
TickDone(r) ==
  /\ runner[r] = "work"
  /\ runner' = [runner EXCEPT ![r] = "select"]
  /\ UNCHANGED <<isRunning, call, overlapped>>

Next ==
  \/ \E c \in Starters : StartCheck(c) \/ StartRun(c)
  \/ \E c \in Stoppers : StopCheck(c) \/ StopClear(c) \/ \E r \in Runners : Rendezvous(c, r)
  \/ \E r \in Runners : Tick(r) \/ TickDone(r)

Spec == Init /\ [][Next]_vars

-----------------------------------------------------------------------------
Alive == {r \in Runners : runner[r] # "off"}
Sending == {c \in Stoppers : call[c] = "send"}

\* The runners there should be: one for the flag, and one for each Stop whose
\* send on done some runner has still to receive.
Accounted == (IF isRunning THEN 1 ELSE 0) + Cardinality(Sending)

\* As long as two calls of Stop have not overlapped, no runner is missing, whatever
\* the calls of Start do: the flag does not claim a runner that is gone, and no Stop
\* waits for a runner that does not exist.
EnoughRunners == "stop" \notin overlapped => Cardinality(Alive) >= Accounted

\* As long as two calls of Start have not overlapped, no runner is left over,
\* whatever the calls of Stop do: once the flag is cleared and the sends are
\* received nothing publishes.
NoStrayRunner == "start" \notin overlapped => Cardinality(Alive) <= Accounted

\* Two goroutines publish at the same time only after two calls of Start have
\* overlapped, or a Start has taken effect while a Stop was still waiting for the
\* goroutine before it to finish its batch.
OneRunner ==
  overlapped \cap {"start", "cross"} = {} =>
    \A q, r \in Runners : runner[q] # "off" /\ runner[r] # "off" => q = r

\* Comment of the handler: "Stop the message processing scheduler". When no call is
\* in progress and the scheduler is stopped, nothing publishes messages.
StoppedMeansNoRunner ==
  (\A c \in Callers : call[c] = "idle") /\ ~isRunning => Alive = {}
=============================================================================
