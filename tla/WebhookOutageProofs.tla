------------------------- MODULE WebhookOutageProofs -------------------------
(***************************************************************************)
(* Proofs, for every retry limit, every time limit of a call and as many   *)
(* messages as NoneGetsStale allows, of the types of WebhookOutage, of     *)
(* what an open breaker can cost a message, and of what it takes to open   *)
(* it.                                                                     *)
(***************************************************************************)
EXTENDS WebhookOutage, FiniteSetTheorems, TLAPS

USE BreakerAssumption, OutageAssumption DEF RetryDelay, Interval, OpenTime

LEMMA BreakerTypes ==
  ASSUME NEW b \in Breakers, NEW ok \in BOOLEAN
  PROVE  /\ Current(b) \in Breakers /\ Admitted(b) \in Breakers
         /\ Counted(b, ok) \in Breakers
<1>1. \A s \in {"closed", "open", "halfOpen"} : Fresh(s) \in Breakers
  BY DEF Fresh, Breakers
<1>2. Current(b) \in Breakers
  BY <1>1 DEF Current, Breakers
<1>3. Admitted(b) \in Breakers
  BY DEF Admitted, Breakers
<1>4. [b EXCEPT !.successes = @ + 1] \in Breakers /\ [b EXCEPT !.failures = @ + 1] \in Breakers
  BY DEF Breakers
<1>5. Counted(b, ok) \in Breakers
  BY <1>1, <1>4 DEF Counted, Succeeded, Failed
<1> QED BY <1>2, <1>3, <1>5

LEMMA BreakerIsType ==
  ASSUME TypeOK, NEW b \in Breakers, BreakerIs(b)
  PROVE  breaker' \in Breakers /\ age' \in 0..OpenTime /\ openings' \in Nat
  BY DEF TypeOK, BreakerIs

LEMMA RetryType ==
  ASSUME TypeOK, NEW m \in Messages, Retry(m)
  PROVE  /\ at' \in [Messages -> {"unsent", "queue", "retry", "sent", "failed"}]
         /\ wait' \in [Messages -> 0..RetryDelay] /\ attempts' \in [Messages -> Nat]
  BY DEF TypeOK, Retry

LEMMA TypeStep == TypeOK /\ [Next]_vars => TypeOK'
<1> SUFFICES ASSUME TypeOK, [Next]_vars PROVE TypeOK'
  OBVIOUS
<1>0. Current(breaker) \in Breakers /\ Admitted(Current(breaker)) \in Breakers
  BY BreakerTypes DEF TypeOK
<1>1. ASSUME NEW m \in Messages, Send(m) PROVE TypeOK'
  <2>1. CASE SendRefused(m)
    <3>1. /\ breaker' \in Breakers /\ age' \in 0..OpenTime /\ openings' \in Nat
      BY <1>0, <2>1, BreakerIsType DEF SendRefused
    <3> QED BY <1>1, <2>1, <3>1, RetryType DEF TypeOK, Send, SendRefused, callVars
  <2>2. CASE SendAnswered(m)
    <3>1. Counted(Admitted(Current(breaker)), endpoint = "up") \in Breakers
      BY <1>0, BreakerTypes
    <3>2. /\ breaker' \in Breakers /\ age' \in 0..OpenTime /\ openings' \in Nat
      BY <2>2, <3>1, BreakerIsType DEF SendAnswered
    <3>3. CASE endpoint = "up"
      BY <1>1, <2>2, <3>2, <3>3 DEF TypeOK, Send, SendAnswered, Succeed, callVars
    <3>4. CASE endpoint # "up"
      BY <1>1, <2>2, <3>2, <3>4, RetryType DEF TypeOK, Send, SendAnswered, callVars
    <3> QED BY <3>3, <3>4
  <2>3. CASE SendHangs(m)
    <3>1. /\ breaker' \in Breakers /\ age' \in 0..OpenTime /\ openings' \in Nat
      BY <1>0, <2>3, BreakerIsType DEF SendHangs
    <3> QED BY <1>1, <2>3, <3>1 DEF TypeOK, Send, SendHangs, messageVars
  <2> QED BY <1>1, <2>1, <2>2, <2>3 DEF Send
<1>2. CASE CallEnds
  <2>1. call \in Messages
    BY <1>2 DEF TypeOK, CallEnds
  <2>2. \A ok \in BOOLEAN : Counted(Current(breaker), ok) \in Breakers
    BY <1>0, BreakerTypes
  <2>3. \E b \in Breakers : BreakerIs(b)
    BY <1>0, <1>2, <2>2 DEF CallEnds
  <2>4. /\ breaker' \in Breakers /\ age' \in 0..OpenTime /\ openings' \in Nat
    BY <2>3, BreakerIsType
  <2>5. CASE Succeed(call)
    BY <1>2, <2>1, <2>4, <2>5 DEF TypeOK, CallEnds, Succeed
  <2>6. CASE Retry(call)
    BY <1>2, <2>1, <2>4, <2>6, RetryType DEF TypeOK, CallEnds
  <2> QED BY <1>2, <2>5, <2>6 DEF CallEnds
<1>3. ASSUME NEW m \in Messages, Publish(m) \/ RetryExpires(m) PROVE TypeOK'
  BY <1>3 DEF TypeOK, Publish, RetryExpires, callVars
<1>4. CASE EndpointChanges
  BY <1>4 DEF TypeOK, EndpointChanges, messageVars, callVars
<1>5. CASE Tick
  <2>1. breaker' \in Breakers
    BY <1>5 DEF TypeOK, Tick, Breakers
  <2>2. wait' \in [Messages -> 0..RetryDelay] /\ age' \in 0..OpenTime
    BY <1>5 DEF TypeOK, Tick, Elapse
  <2>3. left' \in 0..CallTime
    BY <1>5 DEF TypeOK, Tick
  <2> QED BY <1>5, <2>1, <2>2, <2>3 DEF TypeOK, Tick
<1>6. CASE UNCHANGED vars
  BY <1>6 DEF TypeOK, vars, messageVars, callVars
<1> QED BY <1>1, <1>2, <1>3, <1>4, <1>5, <1>6 DEF Next, Consumer

LEMMA TypeInit == Init => TypeOK
  BY DEF Init, TypeOK, Fresh, Breakers

\* Every variable stays in its type.
THEOREM TypeCorrect == Spec => []TypeOK
  BY TypeInit, TypeStep, PTL DEF Spec

-----------------------------------------------------------------------------
(* Refusals. While the breaker is open a message that was refused k times since *)
(* it opened has spent 2k ticks in the retry queue, but for what it has still   *)
(* to wait: the third refusal comes after four ticks at least and the fourth    *)
(* would come after six, when the breaker is not open any more. A half-open     *)
(* breaker refuses nobody, for the only caller has one call at a time.          *)

Waits(m) == IF at[m] = "retry" THEN wait[m] ELSE 0

HalfOpenFits ==
  breaker.state = "halfOpen" =>
    /\ ~breaker.expired /\ breaker.successes < MaxRequests
    /\ breaker.requests = breaker.successes + (IF call = None THEN 0 ELSE 1)

OpenFits ==
  breaker.state = "open" =>
    /\ call = None
    /\ ~breaker.expired => age < OpenTime
    /\ \A m \in Messages : at[m] \notin {"sent", "failed"} =>
         2 * (refused[m] + 3) <= 2 * (3 * openings) + age + Waits(m)

RefusalsInv ==
  /\ HalfOpenFits /\ OpenFits
  /\ \A m \in Messages : refused[m] <= 3 * openings

LEMMA RefusalsInit == Init => RefusalsInv
  BY DEF Init, RefusalsInv, HalfOpenFits, OpenFits, Fresh

\* A call that is let through, or a call that ends, keeps the invariant.
LEMMA CallFrame ==
  ASSUME TypeOK, TypeOK', RefusalsInv, NEW b \in Breakers, BreakerIs(b),
         refused' = refused,
         b.state = "open" => call' = None /\ (breaker.expired \/ breaker.state # "open"),
         b.state = "halfOpen" =>
           /\ ~b.expired /\ b.successes < MaxRequests
           /\ b.requests = b.successes + (IF call' = None THEN 0 ELSE 1)
  PROVE  RefusalsInv'
<1>1. HalfOpenFits'
  BY DEF HalfOpenFits, BreakerIs
<1>2. openings' >= openings /\ openings \in Nat /\ openings' \in Nat
  BY DEF TypeOK, BreakerIs
<1>3. \A m \in Messages : refused'[m] <= 3 * openings'
  BY <1>2 DEF TypeOK, RefusalsInv
<1>4. OpenFits'
  <2>1. SUFFICES ASSUME b.state = "open" PROVE OpenFits'
    BY DEF OpenFits, BreakerIs
  <2>2. age' = 0 /\ openings' = openings + 1 /\ call' = None
    BY <2>1 DEF BreakerIs
  <2>3. ASSUME NEW m \in Messages
        PROVE  2 * (refused'[m] + 3) <= 2 * (3 * openings') + age' + Waits(m)'
    <3>1. Waits(m)' \in Nat /\ refused[m] \in Nat /\ refused[m] <= 3 * openings
      BY DEF TypeOK, RefusalsInv, Waits
    <3> QED BY <1>2, <2>2, <3>1
  <2> QED BY <2>2, <2>3 DEF OpenFits
<1> QED BY <1>1, <1>3, <1>4 DEF RefusalsInv

\* What the breaker finds itself in when it does not refuse.
LEMMA LetThrough ==
  ASSUME TypeOK, RefusalsInv, call = None, ~Refuses(Current(breaker))
  PROVE  LET b == Current(breaker) IN
         /\ b \in Breakers
         /\ b.state = "closed" \/ b.state = "halfOpen"
         /\ b.state = "halfOpen" =>
              ~b.expired /\ b.successes < MaxRequests /\ b.requests = b.successes
<1>1. Current(breaker) \in Breakers
  BY BreakerTypes DEF TypeOK
<1>2. CASE breaker.expired
  BY <1>1, <1>2 DEF Current, Refuses, Fresh, Breakers
<1>3. CASE ~breaker.expired
  BY <1>1, <1>3 DEF Current, Refuses, RefusalsInv, HalfOpenFits, Breakers
<1> QED BY <1>2, <1>3

\* What the breaker is after the result of a call.
LEMMA AfterResult ==
  ASSUME NEW b \in Breakers, NEW ok \in BOOLEAN, b.state \in {"closed", "halfOpen"},
         b.state = "halfOpen" =>
           ~b.expired /\ b.successes < MaxRequests /\ b.requests = b.successes + 1
  PROVE  LET c == Counted(b, ok) IN
         /\ c \in Breakers
         /\ c.state = "halfOpen" =>
              ~c.expired /\ c.successes < MaxRequests /\ c.requests = c.successes
<1>1. Counted(b, ok) \in Breakers
  BY BreakerTypes
<1>2. CASE ok
  BY <1>1, <1>2 DEF Counted, Succeeded, Fresh, Breakers
<1>3. CASE ~ok
  BY <1>1, <1>3 DEF Counted, Failed, Fresh, Breakers
<1> QED BY <1>2, <1>3

LEMMA RefusalsSend ==
  ASSUME TypeOK, TypeOK', RefusalsInv, NEW m \in Messages, Send(m)
  PROVE  RefusalsInv'
<1> DEFINE b == Current(breaker)
<1>0. call = None /\ at[m] = "queue" /\ b \in Breakers
  BY BreakerTypes DEF TypeOK, Send
<1>1. CASE SendRefused(m)
  <2>1. breaker.state = "open" /\ ~breaker.expired /\ b = breaker
    BY <1>0, <1>1 DEF SendRefused, Refuses, Current, Fresh, RefusalsInv, HalfOpenFits,
           TypeOK, Breakers
  <2>2. UNCHANGED <<breaker, age, openings, call>> /\ Retry(m)
        /\ refused' = [refused EXCEPT ![m] = @ + 1]
    BY <1>1, <2>1 DEF SendRefused, BreakerIs, callVars
  <2>3. age < OpenTime /\ 2 * (refused[m] + 3) <= 2 * (3 * openings) + age
    BY <1>0, <2>1 DEF RefusalsInv, OpenFits, Waits, TypeOK
  <2>4. refused[m] \in Nat /\ openings \in Nat /\ age \in Nat
    BY DEF TypeOK
  <2>5. refused'[m] = refused[m] + 1
    BY <2>2 DEF TypeOK
  <2>6. refused'[m] <= 3 * openings
    BY <2>3, <2>4, <2>5
  <2>7. ASSUME at'[m] \notin {"sent", "failed"}
        PROVE  2 * (refused'[m] + 3) <= 2 * (3 * openings) + age + Waits(m)'
    <3>1. Waits(m)' = 2
      BY <1>0, <2>2, <2>7 DEF Retry, Waits, TypeOK
    <3> QED BY <2>3, <2>4, <2>5, <3>1
  <2>8. ASSUME NEW n \in Messages, n # m
        PROVE  refused'[n] = refused[n] /\ at'[n] = at[n] /\ Waits(n)' = Waits(n)
    BY <2>2, <2>8 DEF Retry, Waits, TypeOK
  <2>9. \A n \in Messages : refused'[n] <= 3 * openings'
    BY <2>2, <2>6, <2>8 DEF RefusalsInv
  <2>10. OpenFits'
    BY <2>1, <2>2, <2>3, <2>7, <2>8, <1>0 DEF RefusalsInv, OpenFits
  <2> QED BY <2>1, <2>2, <2>9, <2>10 DEF RefusalsInv, HalfOpenFits
<1>2. CASE SendAnswered(m)
  <2>1. /\ b.state = "closed" \/ b.state = "halfOpen"
        /\ b.state = "halfOpen" =>
             ~b.expired /\ b.successes < MaxRequests /\ b.requests = b.successes
    BY <1>0, <1>2, LetThrough DEF SendAnswered
  <2>2. /\ Admitted(b) \in Breakers /\ Admitted(b).state = b.state
        /\ Admitted(b).expired = b.expired /\ Admitted(b).successes = b.successes
        /\ Admitted(b).requests = b.requests + 1
    BY <1>0 DEF Admitted, Breakers
  <2> DEFINE c == Counted(Admitted(b), endpoint = "up")
  <2>3. /\ c \in Breakers
        /\ c.state = "halfOpen" =>
             ~c.expired /\ c.successes < MaxRequests /\ c.requests = c.successes
    <3>1. (endpoint = "up") \in BOOLEAN /\ Admitted(b) \in Breakers
      BY <2>2
    <3>2. /\ Admitted(b).state \in {"closed", "halfOpen"}
          /\ Admitted(b).state = "halfOpen" =>
               /\ ~Admitted(b).expired /\ Admitted(b).successes < MaxRequests
               /\ Admitted(b).requests = Admitted(b).successes + 1
      BY <2>1, <2>2
    <3> QED BY <3>1, <3>2, AfterResult
  <2>4. breaker.expired \/ breaker.state # "open"
    BY <2>1 DEF Current, TypeOK, Breakers
  <2>5. BreakerIs(c) /\ refused' = refused /\ call' = None
    BY <1>0, <1>2 DEF SendAnswered, callVars
  <2>6. c.requests = c.successes + 0 <=> c.requests = c.successes
    BY <2>3 DEF Breakers
  <2> HIDE DEF b, c
  <2> QED BY <2>3, <2>4, <2>5, <2>6, CallFrame
<1>3. CASE SendHangs(m)
  <2>1. /\ b.state = "closed" \/ b.state = "halfOpen"
        /\ b.state = "halfOpen" =>
             ~b.expired /\ b.successes < MaxRequests /\ b.requests = b.successes
    BY <1>0, <1>3, LetThrough DEF SendHangs
  <2>2. /\ Admitted(b) \in Breakers /\ Admitted(b).state = b.state
        /\ Admitted(b).expired = b.expired /\ Admitted(b).successes = b.successes
        /\ Admitted(b).requests = b.requests + 1
    BY <1>0 DEF Admitted, Breakers
  <2>3. BreakerIs(Admitted(b)) /\ refused' = refused /\ call' # None
    BY <1>3 DEF SendHangs
  <2> HIDE DEF b
  <2> QED BY <2>1, <2>2, <2>3, CallFrame
<1> QED BY <1>1, <1>2, <1>3 DEF Send

LEMMA RefusalsCallEnds ==
  ASSUME TypeOK, TypeOK', RefusalsInv, CallEnds
  PROVE  RefusalsInv'
<1> DEFINE b == Current(breaker)
           after(ok) == IF breaker.expired THEN b ELSE Counted(b, ok)
<1>1. call # None /\ call' = None /\ refused' = refused /\ b \in Breakers
  BY BreakerTypes DEF TypeOK, CallEnds
<1>2. PICK ok \in BOOLEAN : BreakerIs(after(ok))
  BY DEF CallEnds
<1>3. breaker.state \in {"closed", "halfOpen"}
  BY <1>1 DEF RefusalsInv, OpenFits, TypeOK, Breakers
<1>4. CASE breaker.expired
  <2>1. b.state = "closed" /\ after(ok) = b
    BY <1>3, <1>4 DEF RefusalsInv, HalfOpenFits, Current, Fresh
  <2> HIDE DEF b
  <2> QED BY <1>1, <1>2, <2>1, CallFrame
<1>5. CASE ~breaker.expired
  <2>1. b = breaker
    BY <1>5 DEF Current
  <2>2. /\ b.state \in {"closed", "halfOpen"}
        /\ b.state = "halfOpen" =>
             ~b.expired /\ b.successes < MaxRequests /\ b.requests = b.successes + 1
    BY <1>1, <1>3, <2>1 DEF RefusalsInv, HalfOpenFits
  <2> DEFINE c == Counted(b, ok)
  <2>3. /\ c \in Breakers
        /\ c.state = "halfOpen" =>
             ~c.expired /\ c.successes < MaxRequests /\ c.requests = c.successes
    BY <1>1, <2>2, AfterResult
  <2>4. BreakerIs(c)
    BY <1>2, <1>5
  <2>5. c.requests = c.successes + 0 <=> c.requests = c.successes
    BY <2>3 DEF Breakers
  <2> HIDE DEF b, c
  <2> QED BY <1>1, <1>3, <2>3, <2>4, <2>5, CallFrame
<1> QED BY <1>4, <1>5

LEMMA RefusalsTick ==
  ASSUME TypeOK, TypeOK', RefusalsInv, Tick
  PROVE  RefusalsInv'
<1>1. /\ breaker' = [breaker EXCEPT !.expired =
                       breaker.state # "halfOpen" /\ age + 1 >= Limit(breaker)]
      /\ UNCHANGED <<at, call, refused, openings>>
      /\ age' = IF age < OpenTime THEN age + 1 ELSE age
  BY DEF Tick
<1>2. /\ breaker'.state = breaker.state /\ breaker'.successes = breaker.successes
      /\ breaker'.requests = breaker.requests
      /\ breaker'.expired = (breaker.state # "halfOpen" /\ age + 1 >= Limit(breaker))
  BY <1>1 DEF TypeOK, Breakers
<1>3. HalfOpenFits'
  BY <1>1, <1>2 DEF RefusalsInv, HalfOpenFits
<1>4. OpenFits'
  <2>1. SUFFICES ASSUME breaker.state = "open" PROVE OpenFits'
    BY <1>2 DEF OpenFits
  <2>2. ~breaker'.expired => age' < OpenTime
    <3>1. Limit(breaker) = 6
      BY <2>1 DEF Limit
    <3>2. age + 1 >= 6 => breaker'.expired
      BY <1>2, <2>1, <3>1, Zenon
    <3> QED BY <1>1, <3>2 DEF TypeOK
  <2>3. ASSUME NEW m \in Messages, at[m] \notin {"sent", "failed"}
        PROVE  2 * (refused[m] + 3) <= 2 * (3 * openings) + age' + Waits(m)'
    <3>1. /\ refused[m] \in Nat /\ openings \in Nat /\ age \in 0..6 /\ wait[m] \in 0..2
          /\ refused[m] <= 3 * openings
          /\ 2 * (refused[m] + 3) <= 2 * (3 * openings) + age + Waits(m)
      BY <2>1, <2>3 DEF TypeOK, RefusalsInv, OpenFits
    <3>2. wait'[m] = IF wait[m] > 0 THEN wait[m] - 1 ELSE 0
      BY DEF Tick, Elapse
    <3>3. Waits(m)' = IF Waits(m) > 0 THEN Waits(m) - 1 ELSE 0
      BY <1>1, <3>1, <3>2 DEF Waits
    <3>4. Waits(m) \in 0..2
      BY <3>1 DEF Waits
    <3> QED BY <1>1, <3>1, <3>3, <3>4
  <2> QED BY <1>1, <1>2, <2>1, <2>2, <2>3 DEF RefusalsInv, OpenFits
<1> QED BY <1>1, <1>3, <1>4 DEF RefusalsInv

LEMMA RefusalsStep == TypeOK /\ TypeOK' /\ RefusalsInv /\ [Next]_vars => RefusalsInv'
<1> SUFFICES ASSUME TypeOK, TypeOK', RefusalsInv, [Next]_vars PROVE RefusalsInv'
  OBVIOUS
<1>1. ASSUME NEW m \in Messages, Publish(m) \/ RetryExpires(m) PROVE RefusalsInv'
  <2>1. UNCHANGED <<breaker, age, call, refused, openings>>
    BY <1>1 DEF Publish, RetryExpires, callVars
  <2>2. \A n \in Messages : at'[n] \notin {"sent", "failed"} =>
          at[n] \notin {"sent", "failed"} /\ Waits(n)' = Waits(n)
    BY <1>1 DEF TypeOK, Publish, RetryExpires, Waits
  <2> QED BY <2>1, <2>2 DEF RefusalsInv, HalfOpenFits, OpenFits
<1>2. CASE EndpointChanges \/ UNCHANGED vars
  <2>1. UNCHANGED <<breaker, age, call, refused, openings, at, wait>>
    BY <1>2 DEF EndpointChanges, vars, messageVars, callVars
  <2> QED BY <2>1 DEF RefusalsInv, HalfOpenFits, OpenFits, Waits
<1> QED
  BY <1>1, <1>2, RefusalsSend, RefusalsCallEnds, RefusalsTick DEF Next, Consumer

\* One opening of the breaker costs a message three attempts at most, whatever the
\* endpoint does and whoever else waits.
THEOREM OpeningCostsThree == Spec => []RefusalsPerOpening
<1>1. TypeOK /\ RefusalsInv => RefusalsPerOpening
  <2>1. OpenTime \div RetryDelay = 3
    OBVIOUS
  <2> QED BY <2>1 DEF RefusalsInv, RefusalsPerOpening
<1> QED
  BY TypeCorrect, RefusalsInit, RefusalsStep, <1>1, PTL DEF Spec

-----------------------------------------------------------------------------
(* Windows of the closed breaker. A message that was called in the present one *)
(* is done with, under way, or has so much to wait for that it comes back only  *)
(* when the window is over.                                                     *)

ClosedNow == breaker.state = "closed" /\ ~breaker.expired

Called == {m \in Messages :
             \/ at[m] \in {"sent", "failed"} \/ call = m
             \/ at[m] = "retry" /\ wait[m] + age >= Interval}

WindowInv ==
  /\ breaker.state = "closed" =>
       (breaker.expired => age >= Interval) /\ (~breaker.expired => age < Interval)
  /\ ClosedNow => breaker.requests <= Cardinality(Called)

LEMMA CalledCounts ==
  /\ IsFiniteSet(Messages) /\ Cardinality(Messages) \in Nat
  /\ IsFiniteSet(Called) /\ Cardinality(Called) \in Nat
  /\ Cardinality(Called) <= Cardinality(Messages)
<1>1. Called \subseteq Messages /\ IsFiniteSet(Messages)
  BY DEF Called
<1> QED BY <1>1, FS_Subset, FS_CardinalityType

LEMMA WindowInit == Init => WindowInv
<1>1. Init => ClosedNow /\ age = 0 /\ call = None /\ breaker.requests = 0
  BY DEF Init, Fresh, ClosedNow
<1>2. Init => WindowInv
  <2> SUFFICES ASSUME Init PROVE WindowInv
    OBVIOUS
  <2>1. ~breaker.expired /\ age < Interval /\ breaker.requests <= Cardinality(Called)
    BY <1>1, CalledCounts DEF ClosedNow
  <2> QED BY <1>1, <2>1 DEF WindowInv
<1> QED BY <1>2

\* What a call, and what a result, make of a breaker.
LEMMA AfterCall ==
  ASSUME NEW b \in Breakers, NEW ok \in BOOLEAN
  PROVE  /\ ~Current(b).expired
         /\ Admitted(b).requests = b.requests + 1 /\ Admitted(b).state = b.state
         /\ ~b.expired => ~Admitted(b).expired /\ ~Counted(b, ok).expired
         /\ Counted(b, ok).state = "closed" =>
              \/ Counted(b, ok).requests = 0
              \/ Counted(b, ok).requests = b.requests /\ b.state = "closed"
<1>1. ~Current(b).expired
  BY DEF Current, Fresh
<1>2. Admitted(b).requests = b.requests + 1 /\ Admitted(b).state = b.state
      /\ Admitted(b).expired = b.expired
  BY DEF Admitted, Breakers
<1>3. ASSUME NEW c \in Breakers, c = [b EXCEPT !.successes = @ + 1]
                                 \/ c = [b EXCEPT !.failures = @ + 1]
      PROVE  c.expired = b.expired /\ c.requests = b.requests /\ c.state = b.state
  BY <1>3 DEF Breakers
<1>4. \/ Counted(b, ok) = Fresh("open")
      \/ Counted(b, ok) = Fresh("closed")
      \/ Counted(b, ok) = [b EXCEPT !.successes = @ + 1] /\ (b.state # "halfOpen" \/ ok)
      \/ Counted(b, ok) = [b EXCEPT !.failures = @ + 1] /\ b.state # "halfOpen"
  BY DEF Counted, Succeeded, Failed
<1>5. Fresh("open").state = "open" /\ Fresh("closed").requests = 0
      /\ ~Fresh("open").expired /\ ~Fresh("closed").expired
  BY DEF Fresh
<1>6. Counted(b, ok) \in Breakers
  BY BreakerTypes
<1> QED BY <1>1, <1>2, <1>3, <1>4, <1>5, <1>6 DEF Breakers

\* What is called stays called, and one message more may be.
LEMMA MoreCalled ==
  ASSUME Called \subseteq Called'
  PROVE  /\ Cardinality(Called) <= Cardinality(Called)' /\ Cardinality(Called)' \in Nat
         /\ \A m \in Messages : m \in Called' =>
              /\ Cardinality(Called)' >= 1
              /\ m \notin Called => Cardinality(Called)' >= Cardinality(Called) + 1
<1> DEFINE C == Called
           D == Called'
<1>0. D \subseteq Messages /\ C \subseteq D
  BY DEF Called
<1> HIDE DEF C, D
<1>1. IsFiniteSet(D) /\ IsFiniteSet(C) /\ Cardinality(D) \in Nat /\ Cardinality(C) \in Nat
      /\ Cardinality(C) <= Cardinality(D)
  BY <1>0, FS_Subset, FS_CardinalityType
<1>2. ASSUME NEW m \in Messages, m \in D, m \notin C
      PROVE  Cardinality(D) >= Cardinality(C) + 1
  <2>1. C \cup {m} \subseteq D /\ Cardinality(C \cup {m}) = Cardinality(C) + 1
    BY <1>0, <1>1, <1>2, FS_AddElement
  <2>2. Cardinality(C \cup {m}) <= Cardinality(D)
    BY <1>1, <2>1, FS_Subset
  <2> QED BY <1>1, <2>1, <2>2
<1>3. ASSUME NEW m \in Messages, m \in D
      PROVE  Cardinality(D) >= 1
  <2>1. Cardinality(D) # 0
    BY <1>1, <1>3, FS_EmptySet
  <2> QED BY <1>1, <2>1
<1> QED BY <1>1, <1>2, <1>3 DEF C, D

\* A message that is called leaves the queue for a place where it counts as called.
LEMMA SendCalls ==
  ASSUME TypeOK, NEW m \in Messages, Send(m), ~SendRefused(m)
  PROVE  /\ m \in Called' /\ m \notin Called
         /\ age' = age => Called \subseteq Called'
<1>1. at[m] = "queue" /\ call = None
  BY DEF Send
<1>2. \/ call' = None /\ (Succeed(m) \/ Retry(m))
      \/ call' = m /\ UNCHANGED <<at, wait>>
  BY <1>1 DEF Send, SendAnswered, SendHangs, callVars, messageVars
<1>3. age' \in Nat
  BY BreakerTypes DEF TypeOK, Send, SendAnswered, SendHangs, BreakerIs
<1> QED
  BY <1>1, <1>2, <1>3 DEF Called, Succeed, Retry, TypeOK

LEMMA WindowSend ==
  ASSUME TypeOK, TypeOK', WindowInv, NEW m \in Messages, Send(m)
  PROVE  WindowInv'
<1> DEFINE b == Current(breaker)
<1>0. b \in Breakers
  BY BreakerTypes DEF TypeOK
<1>1. CASE SendRefused(m)
  <2>1. breaker' = b /\ Refuses(b)
    BY <1>1 DEF SendRefused, BreakerIs
  <2>2. b.state # "closed"
    BY <1>0, <2>1 DEF Refuses
  <2> QED BY <2>1, <2>2 DEF WindowInv, ClosedNow
<1>2. CASE ~SendRefused(m)
  <2>1. /\ \/ breaker' = Counted(Admitted(b), endpoint = "up") /\ call' = None
           \/ breaker' = Admitted(b) /\ call' = m
        /\ age' = IF breaker.expired \/ breaker'.state # breaker.state THEN 0 ELSE age
    BY <1>2 DEF Send, SendAnswered, SendHangs, BreakerIs, callVars
  <2>2. /\ m \in Called' /\ m \notin Called
        /\ age' = age => Called \subseteq Called'
    BY <1>2, SendCalls
  <2>0. ~breaker'.expired
    <3>1. ~b.expired /\ ~Admitted(b).expired /\ Admitted(b) \in Breakers
      BY <1>0, AfterCall, BreakerTypes DEF TypeOK
    <3>2. ~Counted(Admitted(b), endpoint = "up").expired
      BY <3>1, AfterCall
    <3> QED BY <2>1, <3>1, <3>2
  <2> SUFFICES ASSUME ClosedNow' PROVE WindowInv'
    BY <2>0 DEF WindowInv, ClosedNow
  <2>3. \/ breaker'.requests = 0
        \/ breaker'.requests = b.requests + 1 /\ b.state = "closed"
    <3>1. /\ Admitted(b) \in Breakers /\ Admitted(b).state = b.state
          /\ Admitted(b).requests = b.requests + 1
      BY <1>0, AfterCall, BreakerTypes
    <3> HIDE DEF b
    <3>2. CASE breaker' = Counted(Admitted(b), endpoint = "up")
      BY <3>1, <3>2, AfterCall DEF ClosedNow
    <3>3. CASE breaker' = Admitted(b)
      BY <3>1, <3>3 DEF ClosedNow
    <3> QED BY <2>1, <3>2, <3>3
  <2>4. CASE breaker.expired \/ breaker.state # "closed"
    <3>1. breaker'.requests <= 1 /\ age' = 0
      BY <2>1, <2>3, <2>4 DEF ClosedNow, Current, Fresh
    <3>2. IsFiniteSet(Called') /\ Cardinality(Called)' \in Nat
      <4>1. Called' \subseteq Messages
        BY DEF Called
      <4> QED BY <4>1, FS_Subset, FS_CardinalityType
    <3>3. Cardinality(Called)' # 0
      BY <2>2, <3>2, FS_EmptySet
    <3>4. breaker'.requests <= Cardinality(Called)'
      BY <3>1, <3>2, <3>3 DEF TypeOK, Breakers
    <3> QED BY <3>1, <3>4 DEF WindowInv, ClosedNow
  <2>5. CASE ClosedNow
    <3>1. b = breaker /\ age' = age /\ age < Interval
      BY <2>1, <2>5 DEF ClosedNow, Current, WindowInv
    <3>2. breaker'.requests <= breaker.requests + 1
      BY <1>0, <2>3, <3>1 DEF Breakers
    <3>3. breaker.requests <= Cardinality(Called)
      BY <2>5 DEF WindowInv
    <3>4. Cardinality(Called)' >= Cardinality(Called) + 1 /\ Cardinality(Called)' \in Nat
      BY <2>2, <3>1, MoreCalled
    <3>5. breaker'.requests <= Cardinality(Called)'
      BY <3>2, <3>3, <3>4, CalledCounts DEF TypeOK, Breakers
    <3> QED BY <3>1, <3>5 DEF WindowInv, ClosedNow
  <2> QED BY <2>4, <2>5 DEF ClosedNow
<1> QED BY <1>1, <1>2

LEMMA WindowCallEnds ==
  ASSUME TypeOK, TypeOK', WindowInv, CallEnds
  PROVE  WindowInv'
<1> DEFINE b == Current(breaker)
           after(ok) == IF breaker.expired THEN b ELSE Counted(b, ok)
<1>0. b \in Breakers /\ call \in Messages /\ call' = None
  BY BreakerTypes DEF TypeOK, CallEnds
<1>1. PICK ok \in BOOLEAN : BreakerIs(after(ok)) /\ (Succeed(call) \/ Retry(call))
  BY DEF CallEnds
<1>2. /\ breaker' = after(ok)
      /\ age' = IF breaker.expired \/ breaker'.state # breaker.state THEN 0 ELSE age
  BY <1>1 DEF BreakerIs
<1>5. ~breaker'.expired
  <2>1. ~b.expired /\ ~Counted(b, ok).expired
    BY <1>0, AfterCall DEF TypeOK
  <2> QED BY <1>2, <2>1
<1> SUFFICES ASSUME ClosedNow' PROVE WindowInv'
  BY <1>5 DEF WindowInv, ClosedNow
<1>3. CASE breaker.expired \/ breaker.state # "closed"
  <2>1. breaker'.requests = 0 /\ age' = 0
    BY <1>0, <1>2, <1>3 DEF ClosedNow, Current, Counted, Succeeded, Failed, Fresh, Breakers
  <2>2. Cardinality(Called)' \in Nat
    <3>1. Called' \subseteq Messages
      BY DEF Called
    <3> QED BY <3>1, FS_Subset, FS_CardinalityType
  <2> QED BY <1>0, <2>1, <2>2 DEF WindowInv, ClosedNow
<1>4. CASE ClosedNow
  <2>1. age' = age /\ age < Interval /\ breaker.requests <= Cardinality(Called)
    BY <1>2, <1>4 DEF ClosedNow, WindowInv
  <2>2. breaker'.requests = breaker.requests
    BY <1>2, <1>4 DEF TypeOK, ClosedNow, Current, Counted, Succeeded, Failed, Fresh,
           ReadyToTrip, Breakers
  <2>3. Called \subseteq Called'
    BY <1>0, <1>1, <2>1 DEF TypeOK, Called, Succeed, Retry
  <2>4. Cardinality(Called) <= Cardinality(Called)' /\ Cardinality(Called)' \in Nat
    BY <2>3, MoreCalled
  <2> QED BY <1>0, <2>1, <2>2, <2>4, CalledCounts DEF WindowInv, ClosedNow, TypeOK, Breakers
<1> QED BY <1>3, <1>4 DEF ClosedNow

LEMMA WindowTick ==
  ASSUME TypeOK, TypeOK', WindowInv, Tick
  PROVE  WindowInv'
<1>1. /\ breaker'.state = breaker.state /\ breaker'.requests = breaker.requests
      /\ breaker'.expired = (breaker.state # "halfOpen" /\ age + 1 >= Limit(breaker))
  BY DEF Tick, TypeOK, Breakers
<1>2. age \in 0..6 /\ age' = IF age < 6 THEN age + 1 ELSE age
  BY DEF Tick, TypeOK
<1>3. ASSUME breaker.state = "closed"
      PROVE  /\ breaker'.expired => age' >= Interval
             /\ ~breaker'.expired => age' < Interval
  <2>1. Limit(breaker) = Interval
    BY <1>3 DEF Limit
  <2>2. /\ breaker'.expired => age + 1 >= Interval
        /\ ~breaker'.expired => ~(age + 1 >= Interval)
    BY <1>1, <1>3, <2>1, Zenon
  <2> QED BY <1>2, <2>2
<1>4. ASSUME ClosedNow'
      PROVE  breaker'.requests <= Cardinality(Called)'
  <2>1. ClosedNow /\ age' = age + 1 /\ age' < Interval
    BY <1>1, <1>2, <1>3, <1>4 DEF ClosedNow, WindowInv
  <2>2. breaker.requests <= Cardinality(Called)
    BY <2>1 DEF WindowInv
  <2>4. Called \subseteq Called'
    <3>1. \A m \in Messages : at[m] = "retry" => wait'[m] = wait[m] - 1
      BY DEF Tick, Elapse, TypeOK
    <3> QED BY <1>2, <2>1, <3>1 DEF Tick, TypeOK, Called
  <2>5. Cardinality(Called) <= Cardinality(Called)' /\ Cardinality(Called)' \in Nat
    BY <2>4, MoreCalled
  <2>6. breaker.requests \in Nat
    BY DEF TypeOK, Breakers
  <2> QED BY <1>1, <2>2, <2>5, <2>6, CalledCounts
<1> QED BY <1>1, <1>3, <1>4 DEF WindowInv

LEMMA WindowStep == TypeOK /\ TypeOK' /\ WindowInv /\ [Next]_vars => WindowInv'
<1> SUFFICES ASSUME TypeOK, TypeOK', WindowInv, [Next]_vars PROVE WindowInv'
  OBVIOUS
<1>1. ASSUME NEW m \in Messages, Publish(m) \/ RetryExpires(m) PROVE WindowInv'
  <2>1. UNCHANGED <<breaker, age, call, wait>>
    BY <1>1 DEF Publish, RetryExpires, callVars
  <2>2. SUFFICES ASSUME ClosedNow PROVE WindowInv'
    BY <2>1 DEF WindowInv, ClosedNow
  <2>3. Called \subseteq Called'
    BY <1>1, <2>1, <2>2 DEF TypeOK, Called, Publish, RetryExpires, WindowInv, ClosedNow
  <2>4. Cardinality(Called) <= Cardinality(Called)' /\ Cardinality(Called)' \in Nat
    BY <2>3, MoreCalled
  <2> QED BY <2>1, <2>2, <2>4, CalledCounts DEF WindowInv, ClosedNow, TypeOK, Breakers
<1>2. CASE EndpointChanges \/ UNCHANGED vars
  <2>1. UNCHANGED <<breaker, age, call, at, wait>>
    BY <1>2 DEF EndpointChanges, vars, messageVars, callVars
  <2> QED BY <2>1 DEF WindowInv, ClosedNow, Called
<1> QED BY <1>1, <1>2, WindowSend, WindowCallEnds, WindowTick DEF Next, Consumer

\* In one interval of the closed breaker each message is called once at most, whatever
\* the endpoint does and however soon a call that hangs is given up.
THEOREM EachMessageOncePerWindow == Spec => []OneCallPerWindow
<1>1. TypeOK /\ WindowInv => OneCallPerWindow
  BY CalledCounts DEF TypeOK, Breakers, WindowInv, ClosedNow, OneCallPerWindow
<1> QED
  BY TypeCorrect, WindowInit, WindowStep, <1>1, PTL DEF Spec

-----------------------------------------------------------------------------
(* When the breaker does not open at all.                                       *)

Untouched == breaker.state = "closed" /\ openings = 0

\* Two messages alone cannot open it, were every call refused: no window ever has the
\* three requests it takes.
THEOREM TwoMessagesNeverOpen ==
  ASSUME Cardinality(Messages) < 3
  PROVE  Spec => [](openings = 0)
<1>1. Init => Untouched
  BY DEF Init, Fresh, Untouched
<1>2. TypeOK /\ WindowInv /\ Untouched /\ [Next]_vars => Untouched'
  <2> SUFFICES ASSUME TypeOK, WindowInv, Untouched, [Next]_vars PROVE Untouched'
    OBVIOUS
  <2> DEFINE b == Current(breaker)
  <2>0. /\ b \in Breakers /\ b.state = "closed" /\ ~Refuses(b)
        /\ b.requests = 0 \/ (ClosedNow /\ b = breaker)
    BY BreakerTypes DEF TypeOK, Untouched, ClosedNow, Current, Refuses, Fresh
  <2>1. ASSUME NEW m \in Messages, Send(m) PROVE Untouched'
    <3>1. ~SendRefused(m) /\ at[m] = "queue" /\ call = None
      BY <2>0, <2>1 DEF SendRefused, Send
    <3>2. b.requests + 1 < 3
      <4>1. CASE b.requests = 0
        BY <4>1
      <4>2. CASE ClosedNow /\ b = breaker
        <5>1. m \notin Called /\ Called \cup {m} \subseteq Messages
          BY <3>1 DEF Called
        <5>2. Cardinality(Called \cup {m}) = Cardinality(Called) + 1
          BY <5>1, CalledCounts, FS_AddElement
        <5>3. Cardinality(Called \cup {m}) <= Cardinality(Messages)
          BY <5>1, CalledCounts, FS_Subset
        <5>4. b.requests <= Cardinality(Called)
          BY <4>2 DEF WindowInv
        <5> QED BY <2>0, <5>2, <5>3, <5>4, CalledCounts DEF Breakers
      <4> QED BY <2>0, <4>1, <4>2
    <3>3. /\ Admitted(b).state = "closed"
          /\ Counted(Admitted(b), TRUE).state = "closed"
          /\ Counted(Admitted(b), FALSE).state = "closed"
      BY <2>0, <3>2 DEF Admitted, Counted, Succeeded, Failed, ReadyToTrip, Breakers
    <3>4. breaker'.state = "closed"
      BY <2>1, <3>1, <3>3 DEF Send, SendAnswered, SendHangs, BreakerIs
    <3> QED BY <2>1, <3>1, <3>4 DEF Untouched, Send, SendAnswered, SendHangs, BreakerIs
  <2>2. CASE CallEnds
    <3>1. b.requests < 3
      BY <2>0, CalledCounts DEF WindowInv, Breakers
    <3>2. Counted(b, TRUE).state = "closed" /\ Counted(b, FALSE).state = "closed"
      BY <2>0, <3>1 DEF Counted, Succeeded, Failed, ReadyToTrip, Breakers
    <3>3. breaker'.state = "closed"
      BY <2>0, <2>2, <3>2 DEF CallEnds, BreakerIs
    <3> QED BY <2>2, <3>3 DEF Untouched, CallEnds, BreakerIs
  <2>3. CASE Tick
    BY <2>3 DEF Untouched, Tick, TypeOK, Breakers
  <2>4. ASSUME NEW m \in Messages, Publish(m) \/ RetryExpires(m) PROVE Untouched'
    BY <2>4 DEF Untouched, Publish, RetryExpires
  <2>5. CASE EndpointChanges \/ UNCHANGED vars
    BY <2>5 DEF Untouched, EndpointChanges, vars
  <2> QED BY <2>1, <2>2, <2>3, <2>4, <2>5 DEF Next, Consumer
<1>3. Untouched => openings = 0
  BY DEF Untouched
<1> QED
  BY TypeCorrect, WindowInit, WindowStep, <1>1, <1>2, <1>3, PTL DEF Spec

\* An endpoint that neither refuses nor breaks a connection can fail calls only by
\* letting them hang until they are given up, each after five seconds or more. Two such
\* failures never fall into one window: at the first the window is one tick old at
\* least, and at the second it would be two, which is when it ends.
HangInv ==
  /\ Untouched
  /\ ClosedNow =>
       /\ breaker.failures <= 1
       /\ call # None => age + left >= 1 + breaker.failures
       /\ age >= breaker.failures

\* So what one window counts is never enough to open the breaker.
LEMMA HangCounted ==
  ASSUME NEW b \in Breakers, NEW ok \in BOOLEAN, b.state = "closed", ~b.expired,
         ok \/ b.failures = 0
  PROVE  LET c == Counted(b, ok) IN
         /\ c.state = "closed" /\ ~c.expired
         /\ c.failures = IF ok THEN b.failures ELSE 1
<1>1. CASE ok
  BY <1>1 DEF Counted, Succeeded, Breakers
<1>2. CASE ~ok
  <2> DEFINE c == [b EXCEPT !.failures = @ + 1]
  <2>1. c.failures = 1 /\ c.requests \in Nat /\ c.state = "closed" /\ ~c.expired
    BY <1>2 DEF Breakers
  <2>2. ~ReadyToTrip(c)
    BY <2>1 DEF ReadyToTrip
  <2>3. Counted(b, ok) = c
    BY <1>2, <2>2 DEF Counted, Failed
  <2> QED BY <1>2, <2>1, <2>3
<1> QED BY <1>1, <1>2

LEMMA HangSend ==
  ASSUME TypeOK, TypeOK', "refuses" \notin Modes, HangInv, NEW m \in Messages, Send(m)
  PROVE  HangInv'
<1> DEFINE b == Current(breaker)
           a == Admitted(b)
<1>0. /\ b \in Breakers /\ b.state = "closed" /\ ~Refuses(b) /\ ~b.expired
      /\ breaker.expired => b.failures = 0
      /\ ~breaker.expired => b = breaker
      /\ breaker.state = "closed" /\ openings = 0 /\ age \in Nat
  <2>1. /\ breaker \in Breakers /\ breaker.state = "closed" /\ openings = 0 /\ age \in Nat
    BY DEF TypeOK, HangInv, Untouched
  <2>2. b \in Breakers
    BY <2>1, BreakerTypes
  <2>3. CASE breaker.expired
    BY <2>1, <2>2, <2>3 DEF Current, Refuses, Fresh
  <2>4. CASE ~breaker.expired
    BY <2>1, <2>2, <2>4 DEF Current, Refuses
  <2> QED BY <2>1, <2>2, <2>3, <2>4
<1>1. /\ a \in Breakers /\ a.state = "closed" /\ ~a.expired /\ a.failures = b.failures
  BY <1>0 DEF Admitted, Breakers
<1>2. \E c \in {a, Counted(a, TRUE)} :
        /\ BreakerIs(c)
        /\ call' = None \/ (call' # None /\ left' = CallTime)
  <2>1. CASE SendAnswered(m)
    <3>1. endpoint = "up" /\ call' = None
      BY <2>1 DEF SendAnswered, Send, TypeOK, callVars
    <3> QED BY <2>1, <3>1 DEF SendAnswered
  <2>2. CASE SendHangs(m)
    BY <2>2 DEF SendHangs
  <2> QED BY <1>0, <2>1, <2>2 DEF Send, SendRefused
<1>3. /\ Counted(a, TRUE).state = "closed" /\ ~Counted(a, TRUE).expired
      /\ Counted(a, TRUE).failures = b.failures
  BY <1>1, HangCounted
<1> HIDE DEF b, a
<1>4. /\ breaker'.state = "closed" /\ ~breaker'.expired
      /\ breaker'.failures = b.failures /\ openings' = 0
      /\ age' = IF breaker.expired THEN 0 ELSE age
  BY <1>0, <1>1, <1>2, <1>3 DEF BreakerIs
<1>5. call' # None => left' >= 1
  BY <1>2
<1>6. left' \in Nat
  BY DEF TypeOK
<1>7. CASE breaker.expired
  BY <1>0, <1>4, <1>5, <1>6, <1>7 DEF HangInv, Untouched, ClosedNow
<1>8. CASE ~breaker.expired
  <2>1. breaker.failures \in Nat /\ breaker.failures <= 1 /\ age >= breaker.failures
    BY <1>0, <1>8 DEF HangInv, ClosedNow, TypeOK, Breakers
  <2> QED BY <1>0, <1>4, <1>5, <1>6, <1>8, <2>1 DEF HangInv, Untouched, ClosedNow
<1> QED BY <1>7, <1>8

LEMMA HangCallEnds ==
  ASSUME TypeOK, TypeOK', "refuses" \notin Modes, WindowInv, HangInv, CallEnds
  PROVE  HangInv'
<1> DEFINE b == Current(breaker)
<1>0. /\ breaker \in Breakers /\ breaker.state = "closed" /\ openings = 0
      /\ call # None /\ call' = None
  BY DEF TypeOK, HangInv, Untouched, CallEnds
<1>1. CASE breaker.expired
  <2>1. BreakerIs(b) /\ b.state = "closed" /\ b.failures = 0
    BY <1>0, <1>1 DEF CallEnds, Current, Fresh
  <2> HIDE DEF b
  <2>2. /\ breaker' = b /\ age' = 0 /\ openings' = 0
    BY <1>0, <1>1, <2>1 DEF BreakerIs
  <2> QED BY <1>0, <2>1, <2>2 DEF HangInv, Untouched, ClosedNow
<1>2. CASE ~breaker.expired
  <2>1. b = breaker
    BY <1>2 DEF Current
  <2>2. /\ age \in Nat /\ age < 2 /\ left \in Nat
        /\ breaker.failures \in Nat /\ breaker.failures <= 1 /\ age >= breaker.failures
        /\ age + left >= 1 + breaker.failures
    BY <1>0, <1>2 DEF TypeOK, Breakers, WindowInv, HangInv, ClosedNow
  <2>3. PICK ok \in BOOLEAN : BreakerIs(Counted(breaker, ok)) /\ (ok \/ left = 0)
    BY <1>2, <2>1 DEF CallEnds, Breaks
  <2>4. ~ok => breaker.failures = 0 /\ age >= 1
    BY <2>2, <2>3
  <2>5. /\ Counted(breaker, ok).state = "closed" /\ ~Counted(breaker, ok).expired
        /\ Counted(breaker, ok).failures = IF ok THEN breaker.failures ELSE 1
    BY <1>0, <1>2, <2>4, HangCounted
  <2>6. /\ breaker'.state = "closed" /\ openings' = 0 /\ age' = age
        /\ breaker'.failures = IF ok THEN breaker.failures ELSE 1
    BY <1>0, <1>2, <2>3, <2>5 DEF BreakerIs
  <2> QED BY <1>0, <2>2, <2>4, <2>6 DEF HangInv, Untouched, ClosedNow
<1> QED BY <1>1, <1>2

LEMMA HangTick ==
  ASSUME TypeOK, TypeOK', WindowInv, HangInv, Tick
  PROVE  HangInv'
<1>1. /\ breaker'.state = "closed" /\ breaker'.failures = breaker.failures
      /\ openings' = 0 /\ call' = call
      /\ breaker.state = "closed"
  BY DEF Tick, TypeOK, Breakers, HangInv, Untouched
<1>2. SUFFICES ASSUME ClosedNow' PROVE HangInv'
  BY <1>1 DEF HangInv, Untouched
<1>3. /\ breaker'.expired = (age + 1 >= Limit(breaker)) /\ Limit(breaker) = 2
  BY <1>1 DEF Tick, TypeOK, Breakers, Limit
<1>4. age < 1 /\ age \in Nat /\ ~breaker.expired
  <2>1. ~(age + 1 >= 2)
    BY <1>2, <1>3, Zenon DEF ClosedNow
  <2>2. age \in Nat
    BY DEF TypeOK
  <2> QED BY <1>1, <2>1, <2>2 DEF WindowInv
<1>5. /\ breaker.failures \in Nat /\ breaker.failures <= 1 /\ age >= breaker.failures
      /\ call # None => age + left >= 1 + breaker.failures
  BY <1>1, <1>4 DEF TypeOK, Breakers, HangInv, ClosedNow
<1>6. age' = age + 1 /\ (call # None => left \in Nat /\ left' = left - 1)
  BY <1>4 DEF Tick, TypeOK
<1> QED BY <1>1, <1>4, <1>5, <1>6 DEF HangInv, Untouched, ClosedNow

\* An endpoint that lets calls hang as it likes, but neither refuses one nor breaks a
\* connection, never opens the breaker: not with the time limit of 30 s, where no failure
\* is counted at all, and not with the 5 s of README.md:152 either.
THEOREM HangingNeverOpens ==
  ASSUME "refuses" \notin Modes
  PROVE  Spec => [](openings = 0)
<1>1. Init => HangInv
  BY DEF Init, Fresh, HangInv, Untouched, ClosedNow
<1>2. TypeOK /\ TypeOK' /\ WindowInv /\ HangInv /\ [Next]_vars => HangInv'
  <2> SUFFICES ASSUME TypeOK, TypeOK', WindowInv, HangInv, [Next]_vars PROVE HangInv'
    OBVIOUS
  <2>1. ASSUME UNCHANGED <<breaker, age, call, left, openings>> PROVE HangInv'
    BY <2>1 DEF HangInv, Untouched, ClosedNow
  <2>2. ASSUME NEW m \in Messages, Publish(m) \/ RetryExpires(m) PROVE HangInv'
    BY <2>1, <2>2 DEF Publish, RetryExpires, callVars
  <2>3. CASE EndpointChanges \/ UNCHANGED vars
    BY <2>1, <2>3 DEF EndpointChanges, vars, callVars
  <2> QED BY <2>2, <2>3, HangSend, HangCallEnds, HangTick DEF Next, Consumer
<1>3. HangInv => openings = 0
  BY DEF HangInv, Untouched
<1> QED
  BY TypeCorrect, WindowInit, WindowStep, <1>1, <1>2, <1>3, PTL DEF Spec

-----------------------------------------------------------------------------
(* What a message has left while the endpoint is well. Only a call that already *)
(* hangs can still fail. An open breaker refuses a message once for every two   *)
(* of the ticks that are left of its timeout and of the wait of the message;    *)
(* after that nothing uses up an attempt any more.                              *)

PlaceInv ==
  /\ call # None => at[call] = "queue"
  /\ \A m \in Messages : at[m] = "failed" => attempts[m] >= MaxRetries

Spared(m) ==
  \/ at[m] = "sent"
  \/ /\ at[m] # "failed"
     /\ attempts[m] + 1 <= MaxRetries
     /\ call # None => attempts[m] + 4 <= MaxRetries
     /\ breaker.state = "open" =>
          2 * (attempts[m] + 1) + OpenTime <= 2 * MaxRetries + age + Waits(m)

LEMMA PlaceStep == TypeOK /\ PlaceInv /\ [Next]_vars => PlaceInv'
<1> SUFFICES ASSUME TypeOK, PlaceInv, [Next]_vars PROVE PlaceInv'
  OBVIOUS
<1>1. ASSUME NEW m \in Messages, Retry(m) \/ Succeed(m), call' = None PROVE PlaceInv'
  BY <1>1, OutageAssumption DEF PlaceInv, TypeOK, Retry, Succeed
<1>2. ASSUME NEW m \in Messages, Send(m) PROVE PlaceInv'
  <2>1. /\ call = None /\ at[m] = "queue"
        /\ \/ call' = None /\ (Retry(m) \/ Succeed(m))
           \/ call' = m /\ UNCHANGED <<at, attempts>>
    BY <1>2 DEF Send, SendRefused, SendAnswered, SendHangs, callVars, messageVars
  <2> QED BY <1>1, <2>1 DEF PlaceInv
<1>3. CASE CallEnds
  <2>1. call \in Messages /\ call' = None /\ (Retry(call) \/ Succeed(call))
    BY <1>3 DEF CallEnds, TypeOK
  <2> QED BY <1>1, <2>1
<1>4. ASSUME NEW m \in Messages, Publish(m) \/ RetryExpires(m) PROVE PlaceInv'
  <2>1. /\ call' = call /\ attempts' = attempts /\ at[m] # "queue"
        /\ at' = [at EXCEPT ![m] = "queue"]
    BY <1>4 DEF Publish, RetryExpires, callVars
  <2> QED BY <2>1 DEF PlaceInv, TypeOK
<1>5. CASE EndpointChanges \/ Tick \/ UNCHANGED vars
  BY <1>5 DEF PlaceInv, EndpointChanges, Tick, vars, messageVars, callVars
<1> QED BY <1>2, <1>3, <1>4, <1>5 DEF Next, Consumer

\* A message with enough attempts left is spared from now on.
LEMMA SparedFrom ==
  ASSUME TypeOK, PlaceInv, NEW m \in Messages, attempts[m] + CallsNeeded <= MaxRetries
  PROVE  Spared(m)
<1>1. /\ attempts[m] \in Nat /\ age \in Nat /\ Waits(m) \in Nat /\ MaxRetries \in Nat
  BY OutageAssumption DEF TypeOK, Waits
<1>2. attempts[m] + 4 <= MaxRetries
  <2>1. CallsNeeded = 4
    BY DEF CallsNeeded
  <2> QED BY <2>1
<1>3. at[m] # "failed"
  BY <1>1, <1>2 DEF PlaceInv
<1>4. 2 * (attempts[m] + 1) + 6 <= 2 * MaxRetries + age + Waits(m)
  BY <1>1, <1>2
<1> QED BY <1>1, <1>2, <1>3, <1>4 DEF Spared

\* The breaker while the endpoint is well: a call is refused by an open breaker only,
\* and a call that is answered does not open it.
LEMMA SparedSend ==
  ASSUME TypeOK, TypeOK', RefusalsInv, endpoint = "up",
         NEW n \in Messages, Send(n), NEW m \in Messages, Spared(m)
  PROVE  Spared(m)'
<1> DEFINE b == Current(breaker)
<1>0. /\ call = None /\ call' = None /\ at[n] = "queue" /\ b \in Breakers
      /\ SendRefused(n) \/ (SendAnswered(n) /\ Succeed(n))
      /\ m # None
  BY BreakerTypes, OutageAssumption
     DEF TypeOK, Send, SendRefused, SendAnswered, SendHangs, callVars
<1>1. CASE SendRefused(n)
  <2>1. breaker.state = "open" /\ ~breaker.expired /\ b = breaker
    BY <1>0, <1>1 DEF SendRefused, Refuses, Current, Fresh, RefusalsInv, HalfOpenFits,
           TypeOK, Breakers
  <2>2. UNCHANGED <<breaker, age>> /\ Retry(n)
    BY <1>1, <2>1 DEF SendRefused, BreakerIs
  <2>3. CASE n # m
    <3>1. attempts'[m] = attempts[m] /\ at'[m] = at[m] /\ Waits(m)' = Waits(m)
      BY <2>2, <2>3 DEF Retry, Waits, TypeOK
    <3> QED BY <1>0, <2>2, <3>1 DEF Spared
  <2>4. CASE n = m
    <3>1. /\ attempts[m] \in Nat /\ age \in Nat /\ age < 6 /\ MaxRetries \in Nat
      BY <2>1, OutageAssumption DEF TypeOK, RefusalsInv, OpenFits
    <3>2. 2 * (attempts[m] + 1) + 6 <= 2 * MaxRetries + age
      BY <1>0, <2>1, <2>4, <3>1 DEF Spared, Waits
    <3>3. attempts[m] + 2 <= MaxRetries
      BY <3>1, <3>2
    <3>4. ~(attempts[m] + 1 >= MaxRetries) /\ (attempts[m] + 1) + 1 <= MaxRetries
      BY <3>1, <3>3
    <3>5. attempts'[m] = attempts[m] + 1 /\ at'[m] = "retry" /\ wait'[m] = 2
      BY <2>2, <2>4, <3>4 DEF Retry, TypeOK
    <3>6. 2 * (attempts'[m] + 1) + 6 <= 2 * MaxRetries + age' + Waits(m)'
      BY <2>2, <3>1, <3>2, <3>5 DEF Waits
    <3> QED BY <1>0, <3>4, <3>5, <3>6 DEF Spared
  <2> QED BY <2>3, <2>4
<1>2. CASE SendAnswered(n) /\ Succeed(n)
  <2>1. breaker' = Succeeded(Admitted(b)) /\ b.state # "open"
    BY <1>2 DEF SendAnswered, BreakerIs, Counted, Refuses
  <2>2. breaker'.state # "open"
    BY <1>0, <2>1 DEF Succeeded, Admitted, Fresh, Breakers
  <2>3. CASE n = m
    BY <1>2, <2>3 DEF Spared, Succeed, TypeOK
  <2>4. CASE n # m
    <3>1. attempts'[m] = attempts[m] /\ at'[m] = at[m]
      BY <1>2, <2>4 DEF Succeed, TypeOK
    <3> QED BY <1>0, <2>2, <3>1 DEF Spared
  <2> QED BY <2>3, <2>4
<1> QED BY <1>0, <1>1, <1>2

LEMMA SparedCallEnds ==
  ASSUME TypeOK, TypeOK', PlaceInv, CallEnds, NEW m \in Messages, Spared(m)
  PROVE  Spared(m)'
<1>0. /\ call \in Messages /\ call # None /\ call' = None /\ m # None
      /\ Succeed(call) \/ Retry(call)
      /\ attempts[m] \in Nat /\ MaxRetries \in Nat /\ age' \in Nat /\ Waits(m)' \in Nat
  <2>1. /\ call \in Messages /\ call # None /\ call' = None
        /\ Succeed(call) \/ Retry(call)
    BY DEF TypeOK, CallEnds
  <2>2. m # None /\ MaxRetries \in Nat
    BY OutageAssumption
  <2>3. attempts[m] \in Nat /\ age' \in Nat /\ Waits(m)' \in Nat
    BY DEF TypeOK, Waits
  <2> QED BY <2>1, <2>2, <2>3
<1>1. CASE m = call /\ Succeed(call)
  BY <1>0, <1>1 DEF Spared, Succeed, TypeOK
<1>2. CASE m = call /\ Retry(call)
  <2>1. at[m] = "queue"
    BY <1>0, <1>2 DEF PlaceInv
  <2>2. attempts[m] + 4 <= MaxRetries
    BY <1>0, <2>1 DEF Spared
  <2>3. ~(attempts[m] + 1 >= MaxRetries)
    BY <1>0, <2>2
  <2>4. attempts'[m] = attempts[m] + 1 /\ at'[m] = "retry" /\ wait'[m] = 2
    BY <1>2, <2>3 DEF Retry, TypeOK
  <2>5. Waits(m)' = 2
    BY <2>4 DEF Waits
  <2>6. /\ attempts'[m] + 1 <= MaxRetries
        /\ 2 * (attempts'[m] + 1) + 6 <= 2 * MaxRetries + age' + Waits(m)'
    BY <1>0, <2>2, <2>4, <2>5
  <2> QED BY <1>0, <2>4, <2>6 DEF Spared
<1>3. CASE m # call
  <2>1. attempts'[m] = attempts[m] /\ at'[m] = at[m]
    BY <1>0, <1>3 DEF Succeed, Retry, TypeOK
  <2>2. SUFFICES ASSUME at[m] # "sent" PROVE Spared(m)'
    BY <2>1 DEF Spared
  <2>3. attempts[m] + 4 <= MaxRetries /\ at[m] # "failed"
    BY <1>0, <2>2 DEF Spared
  <2>4. /\ attempts'[m] + 1 <= MaxRetries
        /\ 2 * (attempts'[m] + 1) + 6 <= 2 * MaxRetries + age' + Waits(m)'
    BY <1>0, <2>1, <2>3
  <2> QED BY <1>0, <2>1, <2>3, <2>4 DEF Spared
<1> QED BY <1>0, <1>1, <1>2, <1>3

LEMMA SparedTick ==
  ASSUME TypeOK, TypeOK', Tick, NEW m \in Messages, Spared(m)
  PROVE  Spared(m)'
<1>1. /\ UNCHANGED <<at, attempts, call>>
      /\ age' = IF age < OpenTime THEN age + 1 ELSE age
  BY DEF Tick
<1>2. breaker'.state = breaker.state
  BY DEF Tick, TypeOK, Breakers
<1>3. /\ attempts[m] \in Nat /\ MaxRetries \in Nat /\ age \in 0..6
      /\ Waits(m) \in 0..2 /\ Waits(m)' \in 0..2 /\ Waits(m)' >= Waits(m) - 1
  BY <1>1, OutageAssumption DEF TypeOK, Waits, Tick, Elapse
<1>4. ASSUME attempts[m] + 1 <= MaxRetries,
             2 * (attempts[m] + 1) + 6 <= 2 * MaxRetries + age + Waits(m)
      PROVE  2 * (attempts[m] + 1) + 6 <= 2 * MaxRetries + age' + Waits(m)'
  <2>1. CASE age < 6
    BY <1>1, <1>3, <1>4, <2>1
  <2>2. CASE age = 6
    BY <1>1, <1>3, <1>4, <2>2
  <2> QED BY <1>3, <2>1, <2>2
<1> QED BY <1>1, <1>2, <1>4 DEF Spared

\* As long as the endpoint is well, nothing takes from a message what it needs.
LEMMA SparedStep ==
  ASSUME TypeOK, TypeOK', RefusalsInv, PlaceInv, endpoint = "up", endpoint' = "up", [Next]_vars,
         NEW m \in Messages, Spared(m)
  PROVE  Spared(m)'
<1>1. ASSUME NEW n \in Messages, Publish(n) \/ RetryExpires(n) PROVE Spared(m)'
  <2>1. UNCHANGED <<breaker, age, attempts, call>>
    BY <1>1 DEF Publish, RetryExpires, callVars
  <2>2. /\ Waits(m)' = Waits(m)
        /\ at'[m] = at[m] \/ (at[m] # "sent" /\ at'[m] # "failed")
    BY <1>1 DEF TypeOK, Publish, RetryExpires, Waits
  <2> QED BY <2>1, <2>2 DEF Spared
<1>2. CASE UNCHANGED vars
  BY <1>2 DEF Spared, Waits, vars, messageVars, callVars
<1>3. ~EndpointChanges
  BY DEF EndpointChanges
<1> QED
  BY <1>1, <1>2, <1>3, SparedSend, SparedCallEnds, SparedTick DEF Next, Consumer

\* While the endpoint is well no message that has the attempts it can still need is
\* given up, whoever else is called and for any limits of attempts, requests and time.
THEOREM EnoughAttemptsSuffice == Spec => OutageSpares
<1> SUFFICES ASSUME NEW m \in Messages
             PROVE  Spec => [](attempts[m] + CallsNeeded <= MaxRetries /\ [](endpoint = "up")
                                 => [](at[m] # "failed"))
  BY DEF OutageSpares
<1>1. Init => PlaceInv
  BY DEF Init, PlaceInv
<1>2. TypeOK /\ PlaceInv /\ attempts[m] + CallsNeeded <= MaxRetries => Spared(m)
  BY SparedFrom
<1>3. TypeOK /\ TypeOK' /\ RefusalsInv /\ PlaceInv /\ endpoint = "up" /\ (endpoint = "up")'
        /\ [Next]_vars /\ Spared(m) => Spared(m)'
  BY SparedStep
<1>4. Spared(m) => at[m] # "failed"
  BY DEF Spared
<1> QED
  BY TypeCorrect, RefusalsInit, RefusalsStep, PlaceStep, <1>1, <1>2, <1>3, <1>4, PTL DEF Spec
=============================================================================
