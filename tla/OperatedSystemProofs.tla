------------------------ MODULE OperatedSystemProofs ------------------------
(***************************************************************************)
(* Proofs about the system as its API operates it, for any number of       *)
(* messages, runners and calls: it implements ReliableMessaging, and calls *)
(* that do not overlap keep its runners to one at a time.                  *)
(***************************************************************************)
EXTENDS OperatedSystem, PublicationProofs

USE OperatedAssumption

-----------------------------------------------------------------------------
(* The system the API operates is the system.                               *)

LEMMA OperatedStep == [OperatedNext]_operatedVars => [Next]_vars
<1> SUFFICES ASSUME [OperatedNext]_operatedVars PROVE [Next]_vars
  OBVIOUS
<1>1. CASE UNCHANGED operatedVars
  BY <1>1 DEF operatedVars
<1>2. CASE ApiCall
  BY <1>2 DEF ApiCall
<1>3. CASE RunnerStarts \/ RunnerEnds \/ SenderCrash \/ (CreateMessage /\ SenderOnly)
           \/ \E r \in Runners : SenderWorks(r)
  BY <1>3 DEF RunnerStarts, RunnerEnds, SenderCrash, SenderWorks, SenderOnly, Next, Sender,
     SenderStep
<1>4. CASE Processor \/ Environment
  BY <1>4 DEF Next
<1> QED BY <1>1, <1>2, <1>3, <1>4 DEF OperatedNext

\* Whatever is proved of the system with runners that come and go at will holds of
\* the system whose runners the two endpoints of the scheduler start and stop.
THEOREM SystemIsImplemented == OperatedSpec => Spec
<1>1. OperatedInit => Init
  BY DEF OperatedInit
<1> QED BY <1>1, OperatedStep, PTL DEF OperatedSpec, Spec

-----------------------------------------------------------------------------
(* What a step does to the flag, the calls and the runners.                 *)

Sending == {c \in Stoppers : call[c] = "send"}

CallsTypeOK ==
  /\ isRunning \in BOOLEAN
  /\ call \in [Starters \cup Stoppers -> {"idle", "set", "send"}]

LEMMA SendingFinite == IsFiniteSet(Sending) /\ Cardinality(Sending) \in Nat
<1>1. Sending \in SUBSET Stoppers
  BY DEF Sending
<1> QED BY <1>1, FS_Subset, FS_CardinalityType

LEMMA StartStep ==
  ASSUME TypeOK, CallsTypeOK, NEW c \in Starters, NEW r \in Runners,
         StartScheduler(r), Scheduler!StartRun(c)
  PROVE  /\ Cardinality(Active') = Cardinality(Active) + 1 /\ Sending' = Sending
         /\ call[c] = "set" /\ isRunning' = TRUE
         /\ call' = [call EXCEPT ![c] = "idle"]
         /\ overlapped' = IF Sending # {} THEN overlapped \cup {"cross"} ELSE overlapped
<1>1. Active' = Active \cup {r} /\ r \notin Active
  BY DEF StartScheduler, Active, TypeOK, SenderTypeOK
<1>2. /\ call[c] = "set" /\ isRunning' = TRUE /\ call' = [call EXCEPT ![c] = "idle"]
      /\ overlapped' = IF Sending # {} THEN overlapped \cup {"cross"} ELSE overlapped
  BY DEF Scheduler!StartRun, Scheduler!Cross, Sending
<1>3. Sending' = Sending
  BY <1>2 DEF Sending, CallsTypeOK
<1>4. Cardinality(Active') = Cardinality(Active) + 1
  BY <1>1, ActiveFinite, FS_AddElement
<1> QED BY <1>2, <1>3, <1>4

LEMMA EndStep ==
  ASSUME TypeOK, CallsTypeOK, NEW c \in Stoppers, NEW r \in Runners,
         StopScheduler(r), Scheduler!Rendezvous(c, r)
  PROVE  /\ Cardinality(Active') = Cardinality(Active) - 1
         /\ Cardinality(Sending') = Cardinality(Sending) - 1
         /\ call' = [call EXCEPT ![c] = "idle"] /\ UNCHANGED <<isRunning, overlapped>>
<1>1. Active' = Active \ {r} /\ r \in Active
  BY DEF StopScheduler, Active, TypeOK, SenderTypeOK
<1>2. /\ call[c] = "send" /\ call' = [call EXCEPT ![c] = "idle"]
      /\ UNCHANGED <<isRunning, overlapped>>
  BY DEF Scheduler!Rendezvous
<1>3. Sending' = Sending \ {c} /\ c \in Sending
  BY <1>2 DEF Sending, CallsTypeOK
<1>4. Cardinality(Active') = Cardinality(Active) - 1
  BY <1>1, ActiveFinite, FS_RemoveElement
<1>5. Cardinality(Sending') = Cardinality(Sending) - 1
  BY <1>3, SendingFinite, FS_RemoveElement
<1> QED BY <1>2, <1>4, <1>5

LEMMA ClearStep ==
  ASSUME CallsTypeOK, NEW c \in Stoppers, Scheduler!StopClear(c)
  PROVE  /\ Cardinality(Sending') = Cardinality(Sending) + 1
         /\ isRunning' = FALSE /\ call' = [call EXCEPT ![c] = "send"]
         /\ UNCHANGED overlapped
<1>1. /\ call[c] = "set" /\ isRunning' = FALSE /\ call' = [call EXCEPT ![c] = "send"]
      /\ UNCHANGED overlapped
  BY DEF Scheduler!StopClear
<1>2. Sending' = Sending \cup {c} /\ c \notin Sending
  BY <1>1 DEF Sending, CallsTypeOK
<1>3. Cardinality(Sending') = Cardinality(Sending) + 1
  BY <1>2, SendingFinite, FS_AddElement
<1> QED BY <1>1, <1>3

LEMMA CheckStep ==
  ASSUME CallsTypeOK,
         NEW c \in Starters \cup Stoppers,
         \/ c \in Starters /\ Scheduler!StartCheck(c)
         \/ c \in Stoppers /\ Scheduler!StopCheck(c)
  PROVE  /\ Sending' = Sending /\ isRunning' = isRunning
         /\ call[c] = "idle" /\ call' = [call EXCEPT ![c] = "set"]
         /\ overlapped \subseteq overlapped'
         /\ c \in Starters =>
              /\ ~isRunning
              /\ (\E d \in Starters : call[d] = "set") => "start" \in overlapped'
<1>1. /\ isRunning' = isRunning
      /\ call[c] = "idle" /\ call' = [call EXCEPT ![c] = "set"]
  BY DEF Scheduler!StartCheck, Scheduler!StopCheck
<1>2. Sending' = Sending
  BY <1>1 DEF Sending, CallsTypeOK
<1>3. /\ overlapped \subseteq overlapped'
      /\ c \in Starters =>
           /\ ~isRunning
           /\ (\E d \in Starters : call[d] = "set") => "start" \in overlapped'
  BY DEF Scheduler!StartCheck, Scheduler!StopCheck, Scheduler!Overlap
<1> QED BY <1>1, <1>2, <1>3

\* Nothing else touches the flag or a call, or makes a runner start or end.
LEMMA RunnersGoOn ==
  ASSUME TypeOK,
         \/ \E r \in Runners : SenderWorks(r)
         \/ CreateMessage /\ SenderOnly /\ UNCHANGED schedulerVars
         \/ Processor /\ UNCHANGED schedulerVars
         \/ Environment /\ UNCHANGED schedulerVars
         \/ UNCHANGED operatedVars
  PROVE  UNCHANGED schedulerVars /\ Active' = Active
<1>1. UNCHANGED schedulerVars
  BY DEF SenderWorks, operatedVars
<1>2. ASSUME NEW r \in Runners, RunnerStep(r)
      PROVE  Active' = Active
  <2>1. ASSUME NEW p \in {"select", "publish", "update"},
               rpc' = [rpc EXCEPT ![r] = p], rpc[r] # "off"
        PROVE  Active' = Active
    BY <2>1 DEF Active, TypeOK, SenderTypeOK
  <2>2. rpc[r] # "off" /\ \E p \in {"select", "publish", "update"} : rpc' = [rpc EXCEPT ![r] = p]
    BY <1>2 DEF RunnerStep, ProcessUnsentMessages, PublishNext, PublishMessage, Publish,
           MarkProcessing, Write, NextInBatch
  <2> QED BY <2>1, <2>2
<1>3. ASSUME rpc' = rpc PROVE Active' = Active
  BY <1>3 DEF Active
<1> QED
  BY <1>1, <1>2, <1>3 DEF SenderWorks, CreateMessage, Processor, Environment, operatedVars,
     vars, senderVars

LEMMA CallsTypeStep ==
  ASSUME TypeOK, CallsTypeOK, [OperatedNext]_operatedVars PROVE CallsTypeOK'
<1>1. ASSUME UNCHANGED schedulerVars PROVE CallsTypeOK'
  BY <1>1 DEF CallsTypeOK, schedulerVars
<1>2. CASE ApiCall
  BY <1>2 DEF ApiCall, CallsTypeOK, Scheduler!StartCheck, Scheduler!StopCheck,
     Scheduler!StopClear
<1>3. CASE RunnerStarts \/ RunnerEnds
  BY <1>3 DEF RunnerStarts, RunnerEnds, CallsTypeOK, Scheduler!StartRun, Scheduler!Rendezvous
<1>4. CASE SenderCrash
  BY <1>4 DEF SenderCrash, CallsTypeOK
<1> QED BY <1>1, <1>2, <1>3, <1>4 DEF OperatedNext, SenderWorks, operatedVars

LEMMA OverlapsAreKept ==
  ASSUME TypeOK, CallsTypeOK, [OperatedNext]_operatedVars PROVE overlapped \subseteq overlapped'
<1>1. ASSUME UNCHANGED schedulerVars PROVE overlapped \subseteq overlapped'
  BY <1>1 DEF schedulerVars
<1>2. CASE ApiCall
  BY <1>2, CheckStep, ClearStep DEF ApiCall
<1>3. CASE RunnerStarts
  BY <1>3, StartStep DEF RunnerStarts
<1>4. CASE RunnerEnds
  BY <1>4, EndStep DEF RunnerEnds
<1>5. CASE SenderCrash
  BY <1>5 DEF SenderCrash
<1> QED BY <1>1, <1>2, <1>3, <1>4, <1>5 DEF OperatedNext, SenderWorks, operatedVars

-----------------------------------------------------------------------------
(* As long as calls of Start do not overlap, the flag and the Stops that wait    *)
(* account for the runners; and as long as no Start overtakes a Stop either, a   *)
(* Start finds the flag clear and nobody waiting, hence no runner. A crash takes *)
(* the runners, the flag and the calls at once.                                  *)

Accounted == (IF isRunning THEN 1 ELSE 0) + Cardinality(Sending)

TurnsInv ==
  /\ "start" \notin overlapped =>
       /\ Cardinality(Active) <= Accounted
       /\ \A c \in Starters : call[c] = "set" => ~isRunning
       /\ \A c, d \in Starters : call[c] = "set" /\ call[d] = "set" => c = d
  /\ ByTurns => Cardinality(Active) <= 1

LEMMA TurnsInit == OperatedInit => TurnsInv
<1> SUFFICES ASSUME OperatedInit PROVE TurnsInv
  OBVIOUS
<1>1. /\ rpc = [r \in Runners |-> "off"] /\ isRunning = FALSE
      /\ call = [c \in Starters \cup Stoppers |-> "idle"]
  BY DEF OperatedInit, Init, SenderInit, Scheduler!Init, Scheduler!Callers
<1>2. Active = {} /\ Sending = {}
  BY <1>1 DEF Active, Sending
<1>3. Cardinality(Active) = 0 /\ Cardinality(Sending) = 0
  BY <1>2, FS_EmptySet, Zenon
<1> QED BY <1>1, <1>3 DEF TurnsInv, Accounted

LEMMA TurnsStep ==
  ASSUME TypeOK, CallsTypeOK, TurnsInv, [OperatedNext]_operatedVars
  PROVE  TurnsInv'
<1>0. /\ Cardinality(Active) \in Nat /\ Cardinality(Sending) \in Nat
      /\ overlapped \subseteq overlapped' /\ (ByTurns => "start" \notin overlapped)
  BY ActiveFinite, SendingFinite, OverlapsAreKept DEF ByTurns
<1>1. CASE RunnerStarts
  <2>1. PICK c \in Starters, r \in Runners : StartScheduler(r) /\ Scheduler!StartRun(c)
    BY <1>1 DEF RunnerStarts
  <2>2. /\ Cardinality(Active') = Cardinality(Active) + 1 /\ Sending' = Sending
        /\ call[c] = "set" /\ isRunning' = TRUE /\ call' = [call EXCEPT ![c] = "idle"]
        /\ overlapped' = IF Sending # {} THEN overlapped \cup {"cross"} ELSE overlapped
    BY <2>1, StartStep
  <2>3. ASSUME "start" \notin overlapped'
        PROVE  /\ Cardinality(Active') <= Accounted'
               /\ \A d \in Starters : call'[d] # "set"
    <3>1. /\ Cardinality(Active) <= Accounted /\ ~isRunning
          /\ \A d \in Starters : call[d] = "set" => c = d
      BY <1>0, <2>2, <2>3 DEF TurnsInv
    <3>2. \A d \in Starters : call'[d] # "set"
      BY <2>2, <3>1 DEF CallsTypeOK
    <3>3. Cardinality(Sending') = Cardinality(Sending)
      BY <2>2
    <3> QED BY <1>0, <2>2, <3>1, <3>2, <3>3 DEF Accounted
  <2>4. ASSUME ByTurns' PROVE Cardinality(Active') <= 1
    <3>1. Sending = {} /\ "start" \notin overlapped
      BY <1>0, <2>2, <2>4 DEF ByTurns
    <3>2. Cardinality(Active) <= Accounted /\ ~isRunning
      BY <2>2, <3>1 DEF TurnsInv
    <3>3. Cardinality(Sending) = 0
      BY <3>1, FS_EmptySet, Zenon
    <3> QED BY <1>0, <2>2, <3>2, <3>3 DEF Accounted
  <2> QED BY <2>3, <2>4 DEF TurnsInv
<1>2. CASE RunnerEnds
  <2>1. PICK c \in Stoppers, r \in Runners : StopScheduler(r) /\ Scheduler!Rendezvous(c, r)
    BY <1>2 DEF RunnerEnds
  <2>2. /\ Cardinality(Active') = Cardinality(Active) - 1
        /\ Cardinality(Sending') = Cardinality(Sending) - 1
        /\ call' = [call EXCEPT ![c] = "idle"] /\ UNCHANGED <<isRunning, overlapped>>
    BY <2>1, EndStep
  <2>3. \A d \in Starters : call'[d] = "set" => call[d] = "set"
    BY <2>2 DEF CallsTypeOK
  <2>4. Cardinality(Active) <= Accounted => Cardinality(Active') <= Accounted'
    BY <1>0, <2>2 DEF Accounted
  <2>5. Cardinality(Active) <= 1 => Cardinality(Active') <= 1
    BY <1>0, <2>2
  <2> QED BY <2>2, <2>3, <2>4, <2>5 DEF TurnsInv, ByTurns
<1>3. CASE \E c \in Stoppers : Scheduler!StopClear(c) /\ UNCHANGED vars
  <2>1. PICK c \in Stoppers : Scheduler!StopClear(c) /\ UNCHANGED vars
    BY <1>3
  <2>2. /\ Cardinality(Sending') = Cardinality(Sending) + 1
        /\ isRunning' = FALSE /\ call' = [call EXCEPT ![c] = "send"] /\ UNCHANGED overlapped
    BY <2>1, ClearStep
  <2>3. Active' = Active
    BY <2>1 DEF vars, senderVars, Active
  <2>4. \A d \in Starters : call'[d] = "set" => call[d] = "set"
    BY <2>2 DEF CallsTypeOK
  <2>5. Cardinality(Active) <= Accounted => Cardinality(Active') <= Accounted'
    BY <1>0, <2>2, <2>3 DEF Accounted
  <2> QED BY <2>2, <2>3, <2>4, <2>5 DEF TurnsInv, ByTurns
<1>4. CASE \/ \E c \in Starters : Scheduler!StartCheck(c) /\ UNCHANGED vars
           \/ \E c \in Stoppers : Scheduler!StopCheck(c) /\ UNCHANGED vars
  <2>1. PICK c \in Starters \cup Stoppers :
          /\ UNCHANGED vars
          /\ \/ c \in Starters /\ Scheduler!StartCheck(c)
             \/ c \in Stoppers /\ Scheduler!StopCheck(c)
    BY <1>4
  <2>2. /\ Sending' = Sending /\ isRunning' = isRunning
        /\ call[c] = "idle" /\ call' = [call EXCEPT ![c] = "set"]
        /\ c \in Starters =>
             /\ ~isRunning
             /\ (\E d \in Starters : call[d] = "set") => "start" \in overlapped'
    BY <2>1, CheckStep
  <2>3. Active' = Active
    BY <2>1 DEF vars, senderVars, Active
  <2>4. Cardinality(Active') = Cardinality(Active) /\ Accounted' = Accounted
    BY <2>2, <2>3 DEF Accounted
  <2>5. ASSUME "start" \notin overlapped'
        PROVE  /\ \A d \in Starters : call'[d] = "set" => ~isRunning'
               /\ \A d, e \in Starters : call'[d] = "set" /\ call'[e] = "set" => d = e
    <3>1. /\ \A d \in Starters : call[d] = "set" => ~isRunning
          /\ \A d, e \in Starters : call[d] = "set" /\ call[e] = "set" => d = e
      BY <1>0, <2>5 DEF TurnsInv
    <3> QED BY <2>2, <2>5, <3>1 DEF CallsTypeOK
  <2> QED BY <1>0, <2>4, <2>5 DEF TurnsInv, ByTurns
<1>5. CASE SenderCrash
  <2>1. Active' = {} /\ Sending' = {} /\ isRunning' = FALSE
    BY <1>5 DEF SenderCrash, SenderRestart, Active, Sending
  <2>2. Cardinality(Active') = 0 /\ Cardinality(Sending') = 0
    BY <2>1, FS_EmptySet, Zenon
  <2>3. \A c \in Starters : call'[c] # "set"
    BY <1>5 DEF SenderCrash
  <2> QED BY <2>1, <2>2, <2>3 DEF TurnsInv, Accounted
<1>6. ASSUME UNCHANGED schedulerVars, Active' = Active
      PROVE  TurnsInv'
  BY <1>6 DEF schedulerVars, TurnsInv, Accounted, Sending, ByTurns
<1> QED
  BY <1>1, <1>2, <1>3, <1>4, <1>5, <1>6, RunnersGoOn DEF OperatedNext, ApiCall

LEMMA TurnsHold == OperatedSpec => [](CallsTypeOK /\ TurnsInv)
<1>1. OperatedInit => CallsTypeOK
  BY DEF OperatedInit, Scheduler!Init, Scheduler!Callers, CallsTypeOK
<1> QED
  BY SystemIsImplemented, TypeCorrect, TurnsInit, TurnsStep, CallsTypeStep, <1>1, PTL
     DEF OperatedSpec

LEMMA TurnsMeanOne == ByTurns /\ TurnsInv => OneAtATime
<1> SUFFICES ASSUME Cardinality(Active) <= 1, NEW q \in Active, NEW r \in Active
             PROVE  q = r
  BY DEF TurnsInv, OneAtATime, Active
<1>1. Cardinality(Active) = 1
  <2>1. Cardinality(Active) # 0
    BY ActiveFinite, FS_EmptySet
  <2> QED BY <2>1, ActiveFinite
<1>2. PICK a : Active = {a}
  BY <1>1, ActiveFinite, FS_Singleton
<1> QED BY <1>2

\* Two goroutines publish at the same time only if calls of the API have overlapped:
\* two Starts, or a Start and a Stop that still waits for the goroutine before it to
\* finish its batch. A crash of the sender with calls in progress does not change it.
THEOREM OneRunnerByTurns == OperatedSpec => [](ByTurns => OneAtATime)
BY TurnsHold, TurnsMeanOne, PTL

-----------------------------------------------------------------------------
(* The other side of the account: as long as calls of Stop do not overlap, a Stop *)
(* that has read the flag still finds it set when it clears it.                   *)

EnoughInv ==
  "stop" \notin overlapped =>
    /\ Cardinality(Active) >= Accounted
    /\ \A c \in Stoppers : call[c] = "set" => isRunning
    /\ \A c, d \in Stoppers : call[c] = "set" /\ call[d] = "set" => c = d

\* The account of the calls, whatever else a step does.
LEMMA EnoughKept ==
  ASSUME EnoughInv, overlapped \subseteq overlapped',
         Cardinality(Active) >= Accounted => Cardinality(Active') >= Accounted',
         \A c \in Stoppers : call'[c] = "set" => call[c] = "set",
         isRunning => isRunning'
  PROVE  EnoughInv'
BY DEF EnoughInv

LEMMA EnoughStep ==
  ASSUME TypeOK, CallsTypeOK, EnoughInv, [OperatedNext]_operatedVars
  PROVE  EnoughInv'
<1>0. /\ Cardinality(Active) \in Nat /\ Cardinality(Sending) \in Nat
      /\ overlapped \subseteq overlapped' /\ Starters \cap Stoppers = {}
  BY ActiveFinite, SendingFinite, OverlapsAreKept
<1>1. CASE RunnerStarts
  <2>1. PICK c \in Starters, r \in Runners : StartScheduler(r) /\ Scheduler!StartRun(c)
    BY <1>1 DEF RunnerStarts
  <2>2. /\ Cardinality(Active') = Cardinality(Active) + 1 /\ Sending' = Sending
        /\ isRunning' = TRUE /\ call' = [call EXCEPT ![c] = "idle"]
    BY <2>1, StartStep
  <2>3. Cardinality(Sending') = Cardinality(Sending)
    BY <2>2
  <2>4. Cardinality(Active) >= Accounted => Cardinality(Active') >= Accounted'
    BY <1>0, <2>2, <2>3 DEF Accounted
  <2>5. \A d \in Stoppers : call'[d] = "set" => call[d] = "set"
    BY <2>2 DEF CallsTypeOK
  <2> QED BY <1>0, <2>2, <2>4, <2>5, EnoughKept
<1>2. CASE RunnerEnds
  <2>1. PICK c \in Stoppers, r \in Runners : StopScheduler(r) /\ Scheduler!Rendezvous(c, r)
    BY <1>2 DEF RunnerEnds
  <2>2. /\ Cardinality(Active') = Cardinality(Active) - 1
        /\ Cardinality(Sending') = Cardinality(Sending) - 1
        /\ call' = [call EXCEPT ![c] = "idle"] /\ isRunning' = isRunning
    BY <2>1, EndStep
  <2>3. Cardinality(Active) >= Accounted => Cardinality(Active') >= Accounted'
    BY <1>0, <2>2 DEF Accounted
  <2>4. \A d \in Stoppers : call'[d] = "set" => call[d] = "set"
    BY <2>2 DEF CallsTypeOK
  <2> QED BY <1>0, <2>2, <2>3, <2>4, EnoughKept
<1>3. CASE \E c \in Stoppers : Scheduler!StopClear(c) /\ UNCHANGED vars
  <2>1. PICK c \in Stoppers : Scheduler!StopClear(c) /\ UNCHANGED vars
    BY <1>3
  <2>2. /\ Cardinality(Sending') = Cardinality(Sending) + 1
        /\ isRunning' = FALSE /\ call' = [call EXCEPT ![c] = "send"]
        /\ overlapped' = overlapped
    BY <2>1, ClearStep
  <2>3. call[c] = "set"
    BY <2>1 DEF Scheduler!StopClear
  <2>4. Active' = Active
    BY <2>1 DEF vars, senderVars, Active
  <2>5. SUFFICES ASSUME "stop" \notin overlapped PROVE EnoughInv'
    BY <2>2 DEF EnoughInv
  <2>6. /\ Cardinality(Active) >= Accounted /\ isRunning
        /\ \A d \in Stoppers : call[d] = "set" => c = d
    BY <2>3, <2>5 DEF EnoughInv
  <2>7. \A d \in Stoppers : call'[d] # "set"
    BY <2>2, <2>6 DEF CallsTypeOK
  <2>8. Cardinality(Active') >= Accounted'
    BY <1>0, <2>2, <2>4, <2>6 DEF Accounted
  <2> QED BY <2>7, <2>8 DEF EnoughInv
<1>4. CASE \E c \in Starters : Scheduler!StartCheck(c) /\ UNCHANGED vars
  <2>1. PICK c \in Starters : Scheduler!StartCheck(c) /\ UNCHANGED vars
    BY <1>4
  <2>2. /\ Sending' = Sending /\ isRunning' = isRunning
        /\ call' = [call EXCEPT ![c] = "set"]
    BY <2>1, CheckStep
  <2>3. Active' = Active
    BY <2>1 DEF vars, senderVars, Active
  <2>4. Cardinality(Active') = Cardinality(Active) /\ Accounted' = Accounted
    BY <2>2, <2>3 DEF Accounted
  <2>5. \A d \in Stoppers : call'[d] = "set" => call[d] = "set"
    BY <1>0, <2>2 DEF CallsTypeOK
  <2> QED BY <1>0, <2>2, <2>4, <2>5, EnoughKept
<1>5. CASE \E c \in Stoppers : Scheduler!StopCheck(c) /\ UNCHANGED vars
  <2>1. PICK c \in Stoppers : Scheduler!StopCheck(c) /\ UNCHANGED vars
    BY <1>5
  <2>2. /\ Sending' = Sending /\ isRunning' = isRunning /\ isRunning
        /\ call' = [call EXCEPT ![c] = "set"]
        /\ (\E d \in Stoppers : call[d] = "set") => "stop" \in overlapped'
    BY <2>1, CheckStep DEF Scheduler!StopCheck, Scheduler!Overlap
  <2>3. Active' = Active
    BY <2>1 DEF vars, senderVars, Active
  <2>4. Cardinality(Active') = Cardinality(Active) /\ Accounted' = Accounted
    BY <2>2, <2>3 DEF Accounted
  <2>5. "stop" \notin overlapped' =>
          \A d, e \in Stoppers : call'[d] = "set" /\ call'[e] = "set" => d = e
    BY <2>2 DEF CallsTypeOK
  <2> QED BY <1>0, <2>2, <2>4, <2>5 DEF EnoughInv
<1>6. CASE SenderCrash
  <2>1. Active' = {} /\ Sending' = {} /\ isRunning' = FALSE
    BY <1>6 DEF SenderCrash, SenderRestart, Active, Sending
  <2>2. Cardinality(Active') = 0 /\ Cardinality(Sending') = 0
    BY <2>1, FS_EmptySet, Zenon
  <2>3. \A c \in Stoppers : call'[c] # "set"
    BY <1>6 DEF SenderCrash
  <2> QED BY <2>1, <2>2, <2>3 DEF EnoughInv, Accounted
<1>7. ASSUME UNCHANGED schedulerVars, Active' = Active
      PROVE  EnoughInv'
  BY <1>7 DEF schedulerVars, EnoughInv, Accounted, Sending
<1> QED
  BY <1>1, <1>2, <1>3, <1>4, <1>5, <1>6, <1>7, RunnersGoOn DEF OperatedNext, ApiCall

\* What the scheduler promises of its runners, said of the goroutines of the system.
FlagHasRunner == Scheduler!EnoughRunners

\* With one Stop at a time the flag never claims a runner that is gone and no Stop
\* waits for a runner that does not exist, whatever crashes and whatever the runners
\* are at: the premise under which a stored message settles is the flag alone.
THEOREM FlagIsTrue == OperatedSpec => []FlagHasRunner
<1>1. OperatedInit => EnoughInv
  <2> SUFFICES ASSUME OperatedInit PROVE EnoughInv
    OBVIOUS
  <2>1. /\ rpc = [r \in Runners |-> "off"] /\ isRunning = FALSE
        /\ call = [c \in Starters \cup Stoppers |-> "idle"]
    BY DEF OperatedInit, Init, SenderInit, Scheduler!Init, Scheduler!Callers
  <2>2. Active = {} /\ Sending = {}
    BY <2>1 DEF Active, Sending
  <2>3. Cardinality(Active) = 0 /\ Cardinality(Sending) = 0
    BY <2>2, FS_EmptySet, Zenon
  <2> QED BY <2>1, <2>3 DEF EnoughInv, Accounted
<1>2. TypeOK /\ CallsTypeOK /\ EnoughInv /\ [OperatedNext]_operatedVars => EnoughInv'
  BY EnoughStep
<1>3. EnoughInv => FlagHasRunner
  <2>1. Scheduler!Sending = Sending
    BY DEF Scheduler!Sending, Sending
  <2>2. Scheduler!Alive = Active
    <3>1. ASSUME NEW r \in Runners
          PROVE  [q \in Runners |-> IF rpc[q] \in {"off", "select"} THEN rpc[q] ELSE "work"][r] # "off"
                   <=> rpc[r] # "off"
      OBVIOUS
    <3> QED BY <3>1 DEF Scheduler!Alive, Active
  <2>3. ASSUME NEW S PROVE Scheduler!Cardinality(S) = Cardinality(S)
    BY DEF Scheduler!Cardinality, Cardinality
  <2>4. /\ Scheduler!Cardinality(Scheduler!Alive) = Cardinality(Active)
        /\ Scheduler!Cardinality(Scheduler!Sending) = Cardinality(Sending)
    BY <2>1, <2>2, <2>3
  <2>5. Scheduler!Accounted = Accounted
    BY <2>4 DEF Scheduler!Accounted, Accounted
  <2> QED BY <2>4, <2>5, Zenon DEF EnoughInv, FlagHasRunner, Scheduler!EnoughRunners
<1> QED
  BY SystemIsImplemented, TypeCorrect, TurnsHold, <1>1, <1>2, <1>3, PTL DEF OperatedSpec

-----------------------------------------------------------------------------
(* Turns are never retaken: calls that do not overlap now have not before. So   *)
(* what holds of one scheduler at a time holds up to here.                      *)

LEMMA TurnsWereKept ==
  ASSUME TypeOK, CallsTypeOK, [OperatedNext]_operatedVars, ByTurns' PROVE ByTurns
  BY OverlapsAreKept DEF ByTurns

LEMMA BusySystem == OperatedSpec => [](TypeOK /\ BusyInv)
BY SystemIsImplemented, TypeCorrect, BusyHolds, PTL

\* The outbox under the API: without a fault, and as long as calls do not overlap, a
\* message is published when nothing is left of an earlier publication, however often
\* the scheduler is stopped and started again: a new goroutine of run finds the
\* batch of the one before it handled to the end.
THEOREM PublishedByTurnsHolds == OperatedSpec => PublishedByTurns
<1> DEFINE FreshByTurns == ByTurns => FreshInv
<1>1. OperatedInit => FreshByTurns
  BY FreshInit DEF OperatedInit
<1>2. TypeOK /\ BusyInv /\ CallsTypeOK /\ TurnsInv /\ FreshByTurns
        /\ [OperatedNext]_operatedVars => FreshByTurns'
  BY TurnsWereKept, TurnsMeanOne, OperatedStep, FreshStep
<1>3. TypeOK /\ TurnsInv /\ FreshByTurns /\ [OperatedNext]_operatedVars =>
        [faults = 0 /\ ByTurns => FirstPublication]_operatedVars
  BY TurnsMeanOne, OperatedStep, PublishesFresh
<1> HIDE DEF FreshByTurns
<1> QED BY BusySystem, TurnsHold, <1>1, <1>2, <1>3, PTL DEF OperatedSpec, PublishedByTurns

\* Without overlaps what is proved for at most K schedulers holds for one.
CopiesOnce == ByTurns => CopiesInv(1)

LEMMA OneHand == BusyInv /\ TurnsInv /\ ByTurns => Hands(1)
BY DEF Hands, TurnsInv

LEMMA CopiesOnceHolds == OperatedSpec => []CopiesOnce
<1>1. OperatedInit => CopiesOnce
  BY CopiesInit DEF OperatedInit, CopiesOnce
<1>2. TypeOK /\ TypeOK' /\ BusyInv /\ BusyInv' /\ CallsTypeOK /\ TurnsInv /\ TurnsInv'
        /\ CopiesOnce /\ [OperatedNext]_operatedVars => CopiesOnce'
  <2> SUFFICES ASSUME TypeOK, TypeOK', BusyInv, BusyInv', CallsTypeOK, TurnsInv, TurnsInv',
                      CopiesOnce, [OperatedNext]_operatedVars, ByTurns'
               PROVE  CopiesInv(1)'
    BY DEF CopiesOnce
  <2>1. ByTurns /\ CopiesInv(1)
    BY TurnsWereKept DEF CopiesOnce
  <2>2. Hands(1)
    BY <2>1, OneHand
  <2>3. Hands(1)'
    BY DEF Hands, TurnsInv
  <2> QED BY <2>1, <2>2, <2>3, OperatedStep, CopiesStep
<1> QED BY BusySystem, TurnsHold, <1>1, <1>2, PTL DEF OperatedSpec

\* A message has one copy on its way to the consumer, and one more at most for each
\* fault: restarts of the scheduler and of the processes add none of their own.
THEOREM CopiesByTurnsHolds == OperatedSpec => []CopiesByTurns
<1>1. TypeOK /\ BusyInv /\ TurnsInv /\ CopiesOnce => CopiesByTurns
  <2> SUFFICES ASSUME TypeOK, BusyInv, TurnsInv, CopiesOnce, ByTurns, NEW m \in Messages
               PROVE  InFlight(m) <= 1 + faults
    BY DEF CopiesByTurns
  <2>1. InFlight(m) <= 1 * (1 + faults)
    BY OneHand, CopiesBound DEF CopiesOnce
  <2>2. faults \in Nat
    BY DEF TypeOK
  <2> QED BY <2>1, <2>2
<1> QED BY BusySystem, TurnsHold, CopiesOnceHolds, <1>1, PTL

\* The dead letters of a message under the API: without an overlap and without a fault
\* at most one per counted attempt and two more, for the copy and for the status of
\* its one publication, however often the scheduler is stopped and started again.
THEOREM DeadLettersByTurns ==
  OperatedSpec => [](ByTurns /\ "drop" \notin Faults => \A m \in Messages :
                       dlq[m] <= retryCount[m] + 2 * (1 + faults))
<1> DEFINE DeadOnce == ByTurns /\ "drop" \notin Faults => DeadInv(1)
           Bound == ByTurns /\ "drop" \notin Faults => \A m \in Messages :
                      dlq[m] <= retryCount[m] + 2 * (1 + faults)
<1>1. OperatedInit => DeadOnce
  BY DeadInit DEF OperatedInit
<1>2. TypeOK /\ TypeOK' /\ BusyInv /\ BusyInv' /\ CallsTypeOK /\ TurnsInv /\ TurnsInv'
        /\ CopiesOnce /\ DeadOnce /\ [OperatedNext]_operatedVars => DeadOnce'
  <2> SUFFICES ASSUME TypeOK, TypeOK', BusyInv, BusyInv', CallsTypeOK, TurnsInv, TurnsInv',
                      CopiesOnce, DeadOnce, [OperatedNext]_operatedVars, ByTurns',
                      "drop" \notin Faults
               PROVE  DeadInv(1)'
    OBVIOUS
  <2>1. ByTurns /\ CopiesInv(1) /\ DeadInv(1)
    BY TurnsWereKept DEF CopiesOnce
  <2>2. Hands(1)
    BY <2>1, OneHand
  <2>3. Hands(1)'
    BY DEF Hands, TurnsInv
  <2> QED BY <2>1, <2>2, <2>3, OperatedStep, DeadStep
<1>3. TypeOK /\ BusyInv /\ TurnsInv /\ CopiesOnce /\ DeadOnce => Bound
  <2> SUFFICES ASSUME TypeOK, BusyInv, TurnsInv, CopiesOnce, DeadOnce, ByTurns,
                      "drop" \notin Faults, NEW m \in Messages
               PROVE  dlq[m] <= retryCount[m] + 2 * (1 + faults)
    OBVIOUS
  <2>1. dlq[m] <= retryCount[m] + 2 * (1 * (1 + faults))
    BY OneHand, DeadBound DEF CopiesOnce
  <2>2. 1 * (1 + faults) = 1 + faults
    BY DEF TypeOK
  <2> QED BY <2>1, <2>2
<1> HIDE DEF DeadOnce, Bound
<1>4. OperatedSpec => []Bound
  BY BusySystem, TurnsHold, CopiesOnceHolds, <1>1, <1>2, <1>3, PTL DEF OperatedSpec
<1> QED BY <1>4 DEF Bound
=============================================================================
