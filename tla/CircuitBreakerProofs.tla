------------------------ MODULE CircuitBreakerProofs ------------------------
(***************************************************************************)
(* Proofs, for any number of callers and any MaxRequests, that a shared    *)
(* breaker counts every call once and cannot get stuck half-open.          *)
(***************************************************************************)
EXTENDS CircuitBreaker, FiniteSetTheorems, TLAPS

USE BreakerAssumption, CallersAssumption

-----------------------------------------------------------------------------
(* The operations on a breaker stay in its type, and what they do to the counts. *)

LEMMA FreshType ==
  ASSUME NEW s \in {"closed", "open", "halfOpen"} PROVE Fresh(s) \in Breakers
  BY DEF Fresh, Breakers

LEMMA CurrentType ==
  ASSUME NEW b \in Breakers
  PROVE  /\ Current(b) \in Breakers
         /\ ~b.expired => Current(b) = b
         /\ b.expired => Current(b) \in {Fresh("closed"), Fresh("halfOpen")}
  BY FreshType DEF Current

LEMMA AdmittedType ==
  ASSUME NEW b \in Breakers
  PROVE  /\ Admitted(b) \in Breakers
         /\ Admitted(b) = [b EXCEPT !.requests = b.requests + 1]
  BY DEF Admitted, Breakers

LEMMA CountedType ==
  ASSUME NEW b \in Breakers, NEW ok \in BOOLEAN
  PROVE  /\ Counted(b, ok) \in Breakers
         /\ \/ Counted(b, ok) = [b EXCEPT !.successes = b.successes + 1]
            \/ Counted(b, ok) = [b EXCEPT !.failures = b.failures + 1]
            \/ Counted(b, ok) \in {Fresh("open"), Fresh("closed")}
  BY FreshType DEF Counted, Succeeded, Failed, Breakers

\* In the half-open state a result ends the state, or it is a success that was not
\* the last one needed.
LEMMA CountedHalfOpen ==
  ASSUME NEW b \in Breakers, NEW ok \in BOOLEAN, b.state = "halfOpen"
  PROVE  \/ Counted(b, ok) \in {Fresh("open"), Fresh("closed")}
         \/ /\ Counted(b, ok) = [b EXCEPT !.successes = b.successes + 1]
            /\ b.successes + 1 < MaxRequests
  BY DEF Counted, Succeeded, Failed, Breakers

\* A result that does not change the state is added to the counts.
LEMMA CountedSameState ==
  ASSUME NEW b \in Breakers, NEW ok \in BOOLEAN, b.state # "open",
         Counted(b, ok).state = b.state
  PROVE  \/ Counted(b, ok) = [b EXCEPT !.successes = b.successes + 1]
         \/ Counted(b, ok) = [b EXCEPT !.failures = b.failures + 1]
  BY DEF Counted, Succeeded, Failed, Fresh, Breakers

-----------------------------------------------------------------------------
\* The variables stay in their types.
THEOREM TypeCorrect == Spec => []TypeOK
<1>1. Init => TypeOK
  BY FreshType DEF Init, TypeOK
<1>2. TypeOK /\ [Next]_vars => TypeOK'
  <2> SUFFICES ASSUME TypeOK, [Next]_vars PROVE TypeOK'
    OBVIOUS
  <2>0. breaker \in Breakers /\ Current(breaker) \in Breakers
        /\ Outdated \in [Callers -> {"none", "current", "old"}]
    BY CurrentType DEF TypeOK, Outdated
  <2>1. ASSUME NEW c \in Callers, Call(c) PROVE TypeOK'
    BY <2>0, <2>1, AdmittedType DEF TypeOK, Call
  <2>2. ASSUME NEW c \in Callers, NEW ok \in BOOLEAN, Result(c, ok) PROVE TypeOK'
    BY <2>0, <2>2, CountedType DEF TypeOK, Result
  <2>3. CASE Expire
    BY <2>0, <2>3 DEF TypeOK, Expire, Breakers, storeVars
  <2>4. CASE StoreChanges \/ UNCHANGED vars
    BY <2>4 DEF TypeOK, StoreChanges, vars, storeVars
  <2> QED BY <2>1, <2>2, <2>3, <2>4 DEF Next, Success, Failure
<1> QED BY <1>1, <1>2, PTL DEF Spec

-----------------------------------------------------------------------------
(* The counts. A new generation starts with all counts zero and no call of its *)
(* own in flight; within a generation a call moves from one count to another.  *)

LEMMA InFlightCounts == IsFiniteSet(InFlight) /\ Cardinality(InFlight) \in Nat
<1>1. InFlight \subseteq Callers
  BY DEF InFlight
<1> QED BY <1>1, FS_Subset, FS_CardinalityType

LEMMA NothingInFlight == Cardinality({}) = 0
  BY FS_EmptySet

CountInv ==
  /\ CountsAgree
  /\ breaker.state = "open" => breaker.requests = 0
  /\ breaker.state = "halfOpen" =>
       breaker.failures = 0 /\ breaker.successes < MaxRequests /\ ~breaker.expired

LEMMA FreshCounts ==
  ASSUME NEW s \in {"closed", "open", "halfOpen"}, breaker' = Fresh(s), InFlight' = {}
  PROVE  CountInv'
  BY NothingInFlight DEF CountInv, CountsAgree, Fresh

LEMMA CallCounts ==
  ASSUME TypeOK, CountInv, NEW c \in Callers, Call(c)
  PROVE  CountInv'
<1> DEFINE b == Current(breaker)
           others == IF breaker.expired THEN Outdated ELSE calls
<1>0. /\ breaker \in Breakers /\ b \in Breakers
      /\ ~breaker.expired => b = breaker
      /\ breaker.expired => b \in {Fresh("closed"), Fresh("halfOpen")}
  BY CurrentType DEF TypeOK
<1>1. others \in [Callers -> {"none", "current", "old"}] /\ others[c] = "none"
  BY DEF TypeOK, Call, Outdated
<1> DEFINE S == {d \in Callers : others[d] = "current"}
<1>2. IsFiniteSet(S) /\ Cardinality(S) \in Nat /\ c \notin S
  <2>1. S \subseteq Callers OBVIOUS
  <2> QED BY <1>1, <2>1, FS_Subset, FS_CardinalityType
<1>3. b.requests = b.successes + b.failures + Cardinality(S)
  <2>1. CASE breaker.expired
    <3>1. S = {} BY <2>1 DEF Outdated
    <3> QED BY <1>0, <2>1, <3>1, NothingInFlight DEF Fresh
  <2>2. CASE ~breaker.expired
    <3>1. S = InFlight BY <2>2 DEF InFlight
    <3> QED BY <1>0, <2>2, <3>1 DEF CountInv, CountsAgree
  <2> QED BY <2>1, <2>2
<1>4. /\ b.state = "open" => b.requests = 0
      /\ b.state = "halfOpen" => b.failures = 0 /\ b.successes < MaxRequests /\ ~b.expired
  BY <1>0 DEF CountInv, Fresh
<1>5. CASE Refuses(b) /\ breaker' = b /\ calls' = others
  <2>1. InFlight' = S BY <1>5 DEF InFlight
  <2> QED BY <1>3, <1>4, <1>5, <2>1 DEF CountInv, CountsAgree
<1>6. CASE ~Refuses(b) /\ breaker' = Admitted(b) /\ calls' = [others EXCEPT ![c] = "current"]
  <2>1. InFlight' = S \cup {c}
    BY <1>1, <1>6 DEF InFlight
  <2>2. Cardinality(InFlight') = Cardinality(S) + 1
    BY <1>2, <2>1, FS_AddElement
  <2>3. /\ breaker'.requests = b.requests + 1 /\ breaker'.successes = b.successes
        /\ breaker'.failures = b.failures /\ breaker'.state = b.state
        /\ breaker'.expired = b.expired
    BY <1>0, <1>6, AdmittedType DEF Breakers
  <2>4. b.state # "open"
    BY <1>6 DEF Refuses
  <2>5. breaker'.requests = breaker'.successes + breaker'.failures + Cardinality(InFlight')
    BY <1>0, <1>2, <1>3, <2>2, <2>3 DEF Breakers
  <2> QED BY <1>4, <2>3, <2>4, <2>5 DEF CountInv, CountsAgree
<1> QED BY <1>5, <1>6 DEF Call

LEMMA ResultCounts ==
  ASSUME TypeOK, CountInv, NEW c \in Callers, NEW ok \in BOOLEAN, Result(c, ok)
  PROVE  CountInv'
<1>0. breaker \in Breakers
  BY DEF TypeOK
<1>1. CASE breaker.expired
  <2>1. breaker' = Current(breaker) /\ calls' = [Outdated EXCEPT ![c] = "none"]
    BY <1>1 DEF Result
  <2>2. InFlight' = {}
    BY <2>1 DEF InFlight, Outdated
  <2> QED BY <1>0, <1>1, <2>1, <2>2, CurrentType, FreshCounts
<1>2. CASE ~breaker.expired /\ calls[c] # "current"
  <2>1. breaker' = breaker /\ calls' = [calls EXCEPT ![c] = "none"]
    BY <1>0, <1>2, CurrentType DEF Result
  <2>2. InFlight' = InFlight
    BY <1>2, <2>1 DEF TypeOK, InFlight
  <2> QED BY <2>1, <2>2 DEF CountInv, CountsAgree
<1>3. CASE ~breaker.expired /\ calls[c] = "current"
  <2> DEFINE next == Counted(breaker, ok)
  <2>1. /\ breaker' = next
        /\ calls' = [IF next.state # breaker.state THEN Outdated ELSE calls EXCEPT ![c] = "none"]
    BY <1>0, <1>3, CurrentType DEF Result
  <2>2. c \in InFlight /\ breaker.state # "open"
    <3>1. c \in InFlight BY <1>3 DEF InFlight
    <3>2. Cardinality(InFlight) # 0 BY <3>1, InFlightCounts, FS_EmptySet
    <3>3. breaker.requests # 0
      BY <1>0, <3>2, InFlightCounts DEF CountInv, CountsAgree, Breakers
    <3> QED BY <3>1, <3>3 DEF CountInv
  <2>3. CASE next.state # breaker.state
    <3>1. InFlight' = {}
      BY <2>1, <2>3 DEF InFlight, Outdated
    <3>2. next \in {Fresh("open"), Fresh("closed")}
      BY <1>0, <2>3, CountedType DEF Breakers
    <3> QED BY <2>1, <3>1, <3>2, FreshCounts
  <2>4. CASE next.state = breaker.state
    <3>1. InFlight' = InFlight \ {c}
      BY <2>1, <2>4 DEF TypeOK, InFlight
    <3>2. Cardinality(InFlight') = Cardinality(InFlight) - 1
      BY <2>2, <3>1, InFlightCounts, FS_RemoveElement
    <3>3. \/ next = [breaker EXCEPT !.successes = breaker.successes + 1]
          \/ next = [breaker EXCEPT !.failures = breaker.failures + 1]
      BY <1>0, <2>2, <2>4, CountedSameState
    <3>4. breaker'.requests = breaker'.successes + breaker'.failures + Cardinality(InFlight')
      BY <1>0, <2>1, <3>2, <3>3, InFlightCounts DEF CountInv, CountsAgree, Breakers
    <3>5. breaker.state = "halfOpen" =>
            /\ next = [breaker EXCEPT !.successes = breaker.successes + 1]
            /\ breaker.successes + 1 < MaxRequests
      BY <1>0, <2>4, CountedHalfOpen DEF Fresh
    <3>6. breaker'.state = "halfOpen" =>
            breaker'.failures = 0 /\ breaker'.successes < MaxRequests /\ ~breaker'.expired
      BY <1>0, <2>1, <2>4, <3>5 DEF CountInv, Breakers
    <3> QED BY <2>1, <2>2, <2>4, <3>4, <3>6 DEF CountInv, CountsAgree
  <2> QED BY <2>3, <2>4
<1> QED BY <1>1, <1>2, <1>3

LEMMA CountStep == TypeOK /\ CountInv /\ [Next]_vars => CountInv'
<1> SUFFICES ASSUME TypeOK, CountInv, [Next]_vars PROVE CountInv'
  OBVIOUS
<1>1. CASE Expire
  BY <1>1 DEF Expire, TypeOK, Breakers, CountInv, CountsAgree, InFlight
<1>2. CASE StoreChanges \/ UNCHANGED vars
  BY <1>2 DEF StoreChanges, vars, CountInv, CountsAgree, InFlight
<1> QED BY <1>1, <1>2, CallCounts, ResultCounts DEF Next, Success, Failure

LEMMA CountInit == Init => CountInv
<1>1. Init => InFlight = {}
  BY DEF Init, InFlight
<1> QED BY <1>1, NothingInFlight DEF Init, CountInv, CountsAgree, Fresh

\* Every admitted call of a generation is counted exactly once.
THEOREM EveryCallIsCounted == Spec => []CountsAgree
<1>1. CountInv => CountsAgree
  BY DEF CountInv
<1> QED BY <1>1, CountInit, CountStep, TypeCorrect, PTL DEF Spec

\* A half-open breaker that refuses calls has one of its own in flight.
THEOREM HalfOpenGoesOn == Spec => []HalfOpenNotWedged
<1>1. TypeOK /\ CountInv => HalfOpenNotWedged
  <2> SUFFICES ASSUME TypeOK, CountInv, InFlight = {}, breaker.state = "halfOpen",
                      breaker.requests >= MaxRequests
               PROVE  FALSE
    BY DEF HalfOpenNotWedged
  <2>1. breaker.requests = breaker.successes + breaker.failures + 0
    BY NothingInFlight DEF CountInv, CountsAgree
  <2> QED BY <2>1 DEF TypeOK, Breakers, CountInv
<1> QED BY <1>1, CountInit, CountStep, TypeCorrect, PTL DEF Spec
=============================================================================
