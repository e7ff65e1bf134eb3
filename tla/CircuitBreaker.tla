---------------------------- MODULE CircuitBreaker ----------------------------
(***************************************************************************)
(* The goroutines that share a breaker: consumer and monitor in front of   *)
(* MongoDB, consumer and health probes in front of Redis. A call takes two *)
(* steps, each under the breaker's mutex: it is admitted or refused, and   *)
(* later its result is counted. Of the number of a generation only this    *)
(* matters: does a call in flight belong to the present one?               *)
(***************************************************************************)
EXTENDS Breaker, FiniteSets

CONSTANTS
  Callers,   \* the goroutines that call the store through the breaker
  MaxWindow  \* bound: calls let through in one interval of the closed state

ASSUME CallersAssumption == IsFiniteSet(Callers) /\ MaxWindow \in Nat

-----------------------------------------------------------------------------
VARIABLES
  breaker,
  calls,   \* per caller: "none", or its call in flight is "current" or "old"
  healthy, \* whether the store answers
  spoiled  \* the callers whose call was in flight while it did not

storeVars == <<healthy, spoiled>>
vars == <<breaker, calls, storeVars>>

TypeOK ==
  /\ breaker \in Breakers
  /\ calls \in [Callers -> {"none", "current", "old"}]
  /\ healthy \in BOOLEAN /\ spoiled \subseteq Callers

Init ==
  /\ breaker = Fresh("closed")
  /\ calls = [c \in Callers |-> "none"]
  /\ healthy = TRUE /\ spoiled = {}

\* A new generation makes every call in flight one of an old generation.
Outdated == [c \in Callers |-> IF calls[c] = "current" THEN "old" ELSE calls[c]]

\* Execute begins: the call is refused at once, or goes to the store.
Call(c) ==
  /\ calls[c] = "none"
  /\ LET b == Current(breaker)
         others == IF breaker.expired THEN Outdated ELSE calls
     IN  \/ /\ Refuses(b)
            /\ breaker' = b /\ calls' = others /\ UNCHANGED spoiled
         \/ /\ ~Refuses(b) /\ (b.state = "closed" => b.requests < MaxWindow)
            /\ breaker' = Admitted(b) /\ calls' = [others EXCEPT ![c] = "current"]
            /\ spoiled' = IF healthy THEN spoiled ELSE spoiled \cup {c}
  /\ UNCHANGED healthy

\* Execute ends: the result counts if it belongs to the generation there is now. A
\* change of state begins a new one.
Result_CountsAlways(c, ok) ==  \* faulty
  LET b == Current(breaker)
      next == Counted(b, ok)
      others == IF breaker.expired \/ next.state # b.state THEN Outdated ELSE calls
  IN  /\ calls[c] # "none"
      /\ breaker' = next /\ calls' = [others EXCEPT ![c] = "none"]
      /\ spoiled' = spoiled \ {c} /\ UNCHANGED healthy
Result(c, ok) ==
  LET b == Current(breaker)
      next == IF calls[c] = "current" /\ ~breaker.expired THEN Counted(b, ok) ELSE b
      others == IF breaker.expired \/ next.state # b.state THEN Outdated ELSE calls
  IN  /\ calls[c] # "none"
      /\ breaker' = next /\ calls' = [others EXCEPT ![c] = "none"]
      /\ spoiled' = spoiled \ {c} /\ UNCHANGED healthy

\* A store that is not well answers some calls and fails others, and it can have failed
\* a call that ends when it is well again.
Success(c) == Result(c, TRUE)
Failure(c) == c \in spoiled /\ Result(c, FALSE)

\* Interval or Timeout have passed. The half-open state has no expiry.
Expire ==
  /\ breaker.state # "halfOpen" /\ ~breaker.expired
  /\ breaker' = [breaker EXCEPT !.expired = TRUE]
  /\ UNCHANGED <<calls, storeVars>>

StoreChanges ==
  /\ healthy' = ~healthy
  /\ spoiled' = IF healthy THEN {c \in Callers : calls[c] # "none"} ELSE spoiled
  /\ UNCHANGED <<breaker, calls>>

Next ==
  \/ \E c \in Callers : Call(c) \/ Success(c) \/ Failure(c)
  \/ Expire \/ StoreChanges

Spec == Init /\ [][Next]_vars

\* Time passes, and a call that is in flight ends some time: every store has a time
\* limit. Nobody has to make a call.
FairSpec ==
  /\ Spec
  /\ WF_vars(Expire)
  /\ \A c \in Callers : WF_vars(Success(c) \/ Failure(c))

-----------------------------------------------------------------------------
InFlight == {c \in Callers : calls[c] = "current"}

\* Every call the breaker has let through in this generation is counted once: its
\* result, or its being in flight. No result of an older generation slips in, and
\* none is lost.
CountsAgree ==
  breaker.requests = breaker.successes + breaker.failures + Cardinality(InFlight)

\* A half-open breaker that refuses calls waits for one of those it let through,
\* whose result will open or close it: it is never stuck.
HalfOpenNotWedged ==
  breaker.state = "halfOpen" /\ breaker.requests >= MaxRequests => InFlight # {}

\* When the store is well again for good and somebody goes on calling, the breaker
\* closes for good, however many calls were in flight when the store recovered and
\* whatever becomes of these.
Recovers ==
  <>[]healthy /\ (\E c \in Callers : []<><<Call(c)>>_vars)
    => <>[](breaker.state = "closed")
=============================================================================
