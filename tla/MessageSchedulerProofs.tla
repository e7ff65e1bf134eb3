----------------------- MODULE MessageSchedulerProofs -----------------------
(***************************************************************************)
(* Proofs, for any number of callers and runners, that the flag of the     *)
(* scheduler accounts for its runners, as far as calls do not overlap.     *)
(***************************************************************************)
EXTENDS MessageScheduler, FiniteSetTheorems, TLAPS

USE SchedulerAssumption

\* Every variable stays in its type.
THEOREM TypeCorrect == Spec => []TypeOK
<1>1. Init => TypeOK
  BY DEF Init, TypeOK, Callers
<1>2. TypeOK /\ [Next]_vars => TypeOK'
  <2> SUFFICES ASSUME TypeOK, [Next]_vars PROVE TypeOK'
    OBVIOUS
  <2>1. ASSUME NEW c \in Starters, StartCheck(c) \/ StartRun(c)
        PROVE  TypeOK'
    BY <2>1 DEF TypeOK, Callers, StartCheck, StartRun, Overlap, Cross
  <2>2. ASSUME NEW c \in Stoppers, StopCheck(c) \/ StopClear(c)
        PROVE  TypeOK'
    BY <2>2 DEF TypeOK, Callers, StopCheck, StopClear, Overlap
  <2>3. ASSUME NEW c \in Stoppers, NEW r \in Runners, Rendezvous(c, r)
        PROVE  TypeOK'
    BY <2>3 DEF TypeOK, Callers, Rendezvous
  <2>4. ASSUME NEW r \in Runners, Tick(r) \/ TickDone(r)
        PROVE  TypeOK'
    BY <2>4 DEF TypeOK, Tick, TickDone
  <2>5. CASE UNCHANGED vars
    BY <2>5 DEF TypeOK, vars
  <2> QED BY <2>1, <2>2, <2>3, <2>4, <2>5 DEF Next
<1> QED BY <1>1, <1>2, PTL DEF Spec

\* overlapped never forgets, and tells the truth: a kind of call that has not
\* overlapped has one caller at most between its check and its write.
AloneInv ==
  /\ "start" \notin overlapped =>
       \A c, d \in Starters : call[c] = "set" /\ call[d] = "set" => c = d
  /\ "stop" \notin overlapped =>
       \A c, d \in Stoppers : call[c] = "set" /\ call[d] = "set" => c = d

LEMMA OverlapsRemembered ==
  ASSUME TypeOK, [Next]_vars PROVE overlapped \subseteq overlapped'
  BY DEF Next, vars, StartCheck, StartRun, StopCheck, StopClear, Rendezvous, Tick, TickDone,
         Overlap, Cross

LEMMA AloneStep ==
  ASSUME TypeOK, AloneInv, [Next]_vars PROVE AloneInv'
<1>1. ASSUME NEW c \in Starters, StartCheck(c) PROVE AloneInv'
  BY <1>1 DEF TypeOK, Callers, AloneInv, StartCheck, Overlap
<1>2. ASSUME NEW c \in Stoppers, StopCheck(c) PROVE AloneInv'
  BY <1>2 DEF TypeOK, Callers, AloneInv, StopCheck, Overlap
<1>3. CASE \/ \E c \in Starters : StartRun(c)
           \/ \E c \in Stoppers : StopClear(c) \/ \E r \in Runners : Rendezvous(c, r)
           \/ \E r \in Runners : Tick(r) \/ TickDone(r)
           \/ UNCHANGED vars
  <2>1. /\ overlapped \subseteq overlapped'
        /\ \A c \in Callers : call'[c] = "set" => call[c] = "set"
    BY <1>3 DEF TypeOK, Callers, StartRun, Cross, StopClear, Rendezvous, Tick, TickDone, vars
  <2> QED BY <2>1 DEF AloneInv, Callers
<1> QED BY <1>1, <1>2, <1>3 DEF Next

-----------------------------------------------------------------------------
(* What each step does to the two counts. *)

LEMMA Counts ==
  /\ IsFiniteSet(Alive) /\ Cardinality(Alive) \in Nat
  /\ IsFiniteSet(Sending) /\ Cardinality(Sending) \in Nat
<1>1. Alive \subseteq Runners /\ Sending \subseteq Stoppers
  BY DEF Alive, Sending
<1> QED BY <1>1, FS_Subset, FS_CardinalityType

LEMMA StartCounts ==
  ASSUME TypeOK, NEW c \in Starters, StartRun(c)
  PROVE  Cardinality(Alive') = Cardinality(Alive) + 1 /\ Sending' = Sending
<1>1. PICK r \in Runners : runner[r] = "off" /\ runner' = [runner EXCEPT ![r] = "select"]
  BY DEF StartRun
<1>2. Alive' = Alive \cup {r} /\ r \notin Alive
  BY <1>1 DEF TypeOK, Alive
<1>3. Sending' = Sending
  BY DEF TypeOK, StartRun, Sending, Callers
<1> QED BY <1>2, <1>3, Counts, FS_AddElement

LEMMA ClearCounts ==
  ASSUME TypeOK, NEW c \in Stoppers, StopClear(c)
  PROVE  Cardinality(Sending') = Cardinality(Sending) + 1 /\ Alive' = Alive
<1>1. Sending' = Sending \cup {c} /\ c \notin Sending
  BY DEF TypeOK, StopClear, Sending, Callers
<1>2. Alive' = Alive
  BY DEF StopClear, Alive
<1> QED BY <1>1, <1>2, Counts, FS_AddElement

LEMMA RendezvousCounts ==
  ASSUME TypeOK, NEW c \in Stoppers, NEW r \in Runners, Rendezvous(c, r)
  PROVE  /\ Cardinality(Alive') = Cardinality(Alive) - 1
         /\ Cardinality(Sending') = Cardinality(Sending) - 1
<1>1. Alive' = Alive \ {r} /\ r \in Alive
  BY DEF TypeOK, Rendezvous, Alive
<1>2. Sending' = Sending \ {c} /\ c \in Sending
  BY DEF TypeOK, Rendezvous, Sending, Callers
<1> QED BY <1>1, <1>2, Counts, FS_RemoveElement

LEMMA OtherCounts ==
  ASSUME TypeOK,
         \/ \E c \in Starters : StartCheck(c)
         \/ \E c \in Stoppers : StopCheck(c)
         \/ \E r \in Runners : Tick(r) \/ TickDone(r)
         \/ UNCHANGED vars
  PROVE  Alive' = Alive /\ Sending' = Sending /\ isRunning' = isRunning
  BY DEF TypeOK, Callers, StartCheck, StopCheck, Tick, TickDone, vars, Alive, Sending

-----------------------------------------------------------------------------
(* No two calls of Stop have overlapped: between the read of the flag and the   *)
(* write of a Stop nobody else clears the flag.                                 *)

EnoughInv ==
  "stop" \notin overlapped =>
    /\ Cardinality(Alive) >= Accounted
    /\ \A c \in Stoppers : call[c] = "set" => isRunning

\* With one Stop at a time no runner is missing.
THEOREM NoRunnerIsMissing == Spec => []EnoughRunners
<1>1. Init => EnoughInv
  <2> SUFFICES ASSUME Init PROVE EnoughInv
    OBVIOUS
  <2>1. Alive = {} /\ Sending = {} /\ Accounted = 0
    <3>1. Alive = {} /\ Sending = {} BY DEF Init, Alive, Sending, Callers
    <3> QED BY <3>1, FS_EmptySet DEF Init, Accounted
  <2> QED BY <2>1, FS_EmptySet DEF Init, EnoughInv, Callers
<1>2. TypeOK /\ AloneInv /\ EnoughInv /\ [Next]_vars => EnoughInv'
  <2> SUFFICES ASSUME TypeOK, AloneInv, EnoughInv, [Next]_vars, "stop" \notin overlapped'
               PROVE  /\ Cardinality(Alive') >= Accounted'
                      /\ \A c \in Stoppers : call'[c] = "set" => isRunning'
    BY DEF EnoughInv
  <2>0. /\ Cardinality(Alive) >= Accounted
        /\ \A c \in Stoppers : call[c] = "set" => isRunning
    BY OverlapsRemembered DEF EnoughInv
  <2>1. ASSUME NEW c \in Starters, StartRun(c)
        PROVE  /\ Cardinality(Alive') >= Accounted'
               /\ \A d \in Stoppers : call'[d] = "set" => isRunning'
    <3>1. isRunning'
      BY <2>1 DEF StartRun
    <3>2. Cardinality(Alive') >= Accounted'
      BY <2>0, <2>1, <3>1, StartCounts, Counts DEF Accounted
    <3> QED BY <3>1, <3>2
  <2>2. ASSUME NEW c \in Stoppers, StopClear(c)
        PROVE  /\ Cardinality(Alive') >= Accounted'
               /\ \A d \in Stoppers : call'[d] = "set" => isRunning'
    <3>1. \A d \in Stoppers : call'[d] # "set"
      BY <2>2, OverlapsRemembered DEF TypeOK, Callers, AloneInv, StopClear
    <3>2. isRunning /\ ~isRunning'
      BY <2>0, <2>2 DEF TypeOK, StopClear, Callers
    <3>3. Cardinality(Alive') >= Accounted'
      BY <2>0, <2>2, <3>2, ClearCounts, Counts DEF Accounted
    <3> QED BY <3>1, <3>2, <3>3
  <2>3. ASSUME NEW c \in Stoppers, NEW r \in Runners, Rendezvous(c, r)
        PROVE  /\ Cardinality(Alive') >= Accounted'
               /\ \A d \in Stoppers : call'[d] = "set" => isRunning'
    <3>1. isRunning' = isRunning /\ \A d \in Stoppers : call'[d] = "set" => call[d] = "set"
      BY <2>3 DEF TypeOK, Rendezvous, Callers
    <3>2. Cardinality(Alive') >= Accounted'
      BY <2>0, <2>3, <3>1, RendezvousCounts, Counts DEF Accounted
    <3> QED BY <2>0, <3>1, <3>2
  <2>4. ASSUME NEW c \in Stoppers, StopCheck(c)
        PROVE  \A d \in Stoppers : call'[d] = "set" => isRunning'
    BY <2>4 DEF StopCheck
  <2>5. CASE \/ \E c \in Starters : StartCheck(c)
             \/ \E c \in Stoppers : StopCheck(c)
             \/ \E r \in Runners : Tick(r) \/ TickDone(r)
             \/ UNCHANGED vars
    <3>1. Cardinality(Alive') >= Accounted'
      BY <2>0, <2>5, OtherCounts DEF Accounted
    <3>2. \A d \in Stoppers : call'[d] = "set" => isRunning'
      BY <2>0, <2>4, <2>5 DEF TypeOK, Callers, StartCheck, Tick, TickDone, vars
    <3> QED BY <3>1, <3>2
  <2> QED BY <2>1, <2>2, <2>3, <2>5 DEF Next
<1>3. EnoughInv => EnoughRunners
  BY DEF EnoughInv, EnoughRunners
<1>4. Init => AloneInv
  BY DEF Init, AloneInv, Callers
<1> QED BY TypeCorrect, <1>1, <1>2, <1>3, <1>4, AloneStep, PTL DEF Spec

-----------------------------------------------------------------------------
(* No two calls of Start have overlapped: between the read of the flag and the  *)
(* write of a Start nobody else sets the flag.                                  *)

StrayInv ==
  "start" \notin overlapped =>
    /\ Cardinality(Alive) <= Accounted
    /\ \A c \in Starters : call[c] = "set" => ~isRunning

LEMMA StrayInit == Init => StrayInv
<1> SUFFICES ASSUME Init PROVE StrayInv
  OBVIOUS
<1>1. Alive = {} /\ Sending = {} /\ Accounted = 0
  <2>1. Alive = {} /\ Sending = {} BY DEF Init, Alive, Sending, Callers
  <2> QED BY <2>1, FS_EmptySet DEF Init, Accounted
<1> QED BY <1>1, FS_EmptySet DEF Init, StrayInv, Callers

LEMMA StrayStep == TypeOK /\ AloneInv /\ StrayInv /\ [Next]_vars => StrayInv'
<1> SUFFICES ASSUME TypeOK, AloneInv, StrayInv, [Next]_vars, "start" \notin overlapped'
             PROVE  /\ Cardinality(Alive') <= Accounted'
                    /\ \A c \in Starters : call'[c] = "set" => ~isRunning'
  BY DEF StrayInv
<1>0. /\ Cardinality(Alive) <= Accounted
      /\ \A c \in Starters : call[c] = "set" => ~isRunning
  BY OverlapsRemembered DEF StrayInv
<1>1. ASSUME NEW c \in Starters, StartRun(c)
      PROVE  /\ Cardinality(Alive') <= Accounted'
             /\ \A d \in Starters : call'[d] = "set" => ~isRunning'
  <2>1. \A d \in Starters : call'[d] # "set"
    BY <1>1, OverlapsRemembered DEF TypeOK, Callers, AloneInv, StartRun
  <2>2. ~isRunning /\ isRunning'
    BY <1>0, <1>1 DEF TypeOK, StartRun, Callers
  <2>3. Cardinality(Alive') <= Accounted'
    BY <1>0, <1>1, <2>2, StartCounts, Counts DEF Accounted
  <2> QED BY <2>1, <2>2, <2>3
<1>2. ASSUME NEW c \in Stoppers, StopClear(c)
      PROVE  /\ Cardinality(Alive') <= Accounted'
             /\ \A d \in Starters : call'[d] = "set" => ~isRunning'
  <2>1. ~isRunning'
    BY <1>2 DEF StopClear
  <2>2. Cardinality(Alive') <= Accounted'
    BY <1>0, <1>2, <2>1, ClearCounts, Counts DEF Accounted
  <2> QED BY <2>1, <2>2
<1>3. ASSUME NEW c \in Stoppers, NEW r \in Runners, Rendezvous(c, r)
      PROVE  /\ Cardinality(Alive') <= Accounted'
             /\ \A d \in Starters : call'[d] = "set" => ~isRunning'
  <2>1. isRunning' = isRunning /\ \A d \in Starters : call'[d] = "set" => call[d] = "set"
    BY <1>3 DEF TypeOK, Rendezvous, Callers
  <2>2. Cardinality(Alive') <= Accounted'
    BY <1>0, <1>3, <2>1, RendezvousCounts, Counts DEF Accounted
  <2> QED BY <1>0, <2>1, <2>2
<1>5. CASE \/ \E c \in Starters : StartCheck(c)
           \/ \E c \in Stoppers : StopCheck(c)
           \/ \E r \in Runners : Tick(r) \/ TickDone(r)
           \/ UNCHANGED vars
  <2>1. Cardinality(Alive') <= Accounted'
    BY <1>0, <1>5, OtherCounts DEF Accounted
  <2>2. \A d \in Starters : call'[d] = "set" => ~isRunning'
    BY <1>0, <1>5 DEF TypeOK, Callers, StartCheck, StopCheck, Tick, TickDone, vars
  <2> QED BY <2>1, <2>2
<1> QED BY <1>1, <1>2, <1>3, <1>5 DEF Next

LEMMA AloneInit == Init => AloneInv
BY DEF Init, AloneInv, Callers

\* With one Start at a time no runner is left over.
THEOREM NoRunnerIsLeftOver == Spec => []NoStrayRunner
<1>1. StrayInv => NoStrayRunner
  BY DEF StrayInv, NoStrayRunner
<1> QED BY <1>1, TypeCorrect, AloneInit, AloneStep, StrayInit, StrayStep, PTL DEF Spec

\* What the handler's comment says of a stop holds as long as two calls of Start
\* have not overlapped: no call in progress and the flag clear means no runner.
THEOREM StoppedUnlessOverlapped ==
  Spec => []("start" \notin overlapped => StoppedMeansNoRunner)
<1>1. NoStrayRunner => ("start" \notin overlapped => StoppedMeansNoRunner)
  <2> SUFFICES ASSUME NoStrayRunner, "start" \notin overlapped, ~isRunning,
                      \A c \in Callers : call[c] = "idle"
               PROVE  Alive = {}
    BY DEF StoppedMeansNoRunner
  <2>1. Cardinality(Sending) = 0
    <3>1. Sending = {}
      BY DEF Sending, Callers
    <3> QED BY <3>1, FS_EmptySet
  <2>2. Cardinality(Alive) = 0
    BY <2>1, Counts DEF NoStrayRunner, Accounted
  <2> QED BY <2>2, Counts, FS_EmptySet
<1> QED BY <1>1, NoRunnerIsLeftOver, PTL

-----------------------------------------------------------------------------
(* A Start finds the flag clear, hence, when no Stop waits, nothing left of the  *)
(* runner before it.                                                             *)

OneInv == overlapped \cap {"start", "cross"} = {} => Cardinality(Alive) <= 1

LEMMA OneInit == Init => OneInv
<1> SUFFICES ASSUME Init PROVE Cardinality(Alive) <= 1
  BY DEF OneInv
<1>1. Alive = {}
  BY DEF Init, Alive
<1> QED BY <1>1, FS_EmptySet

LEMMA OneStep == TypeOK /\ StrayInv /\ OneInv /\ [Next]_vars => OneInv'
<1> SUFFICES ASSUME TypeOK, StrayInv, OneInv, [Next]_vars,
                    overlapped' \cap {"start", "cross"} = {}
             PROVE  Cardinality(Alive') <= 1
  BY DEF OneInv
<1>1. overlapped \cap {"start", "cross"} = {} /\ Cardinality(Alive) <= 1
  BY OverlapsRemembered DEF OneInv
<1>2. ASSUME NEW c \in Starters, StartRun(c)
      PROVE  Cardinality(Alive') <= 1
  <2>1. ~isRunning /\ Cardinality(Alive) <= Accounted
    BY <1>1, <1>2 DEF StrayInv, StartRun
  <2>2. Cardinality(Sending) = 0
    <3>1. Sending = {}
      BY <1>2 DEF StartRun, Cross, Sending
    <3> QED BY <3>1, FS_EmptySet
  <2>3. Cardinality(Alive) = 0
    BY <2>1, <2>2, Counts DEF Accounted
  <2> QED BY <1>2, <2>3, StartCounts
<1>3. ASSUME NEW c \in Stoppers, StopClear(c)
      PROVE  Cardinality(Alive') <= 1
  BY <1>1, <1>3, ClearCounts
<1>4. ASSUME NEW c \in Stoppers, NEW r \in Runners, Rendezvous(c, r)
      PROVE  Cardinality(Alive') <= 1
  BY <1>1, <1>4, RendezvousCounts, Counts
<1>5. CASE \/ \E c \in Starters : StartCheck(c)
           \/ \E c \in Stoppers : StopCheck(c)
           \/ \E r \in Runners : Tick(r) \/ TickDone(r)
           \/ UNCHANGED vars
  BY <1>1, <1>5, OtherCounts
<1> QED BY <1>2, <1>3, <1>4, <1>5 DEF Next

LEMMA OneMeans == OneInv => OneRunner
<1> SUFFICES ASSUME OneInv, overlapped \cap {"start", "cross"} = {},
                    NEW q \in Alive, NEW r \in Alive
             PROVE  q = r
  BY DEF OneRunner, Alive
<1>1. Cardinality(Alive) = 1
  <2>1. Cardinality(Alive) # 0
    BY Counts, FS_EmptySet
  <2> QED BY <2>1, Counts DEF OneInv
<1>2. PICK a : Alive = {a}
  BY <1>1, Counts, FS_Singleton
<1> QED BY <1>2

\* Two goroutines of run publish at the same time only if calls of the API have
\* overlapped: two Starts, or a Start and a Stop that still waits.
THEOREM OneRunnerAtATime == Spec => []OneRunner
BY TypeCorrect, AloneInit, AloneStep, StrayInit, StrayStep, OneInit, OneStep, OneMeans, PTL
   DEF Spec
=============================================================================
