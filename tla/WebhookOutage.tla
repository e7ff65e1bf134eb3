---------------------------- MODULE WebhookOutage ----------------------------
(***************************************************************************)
(* The processor during an outage of the webhook endpoint: the consumer,   *)
(* the breaker in front of the endpoint and the retry queue, against the   *)
(* clock. Everything else works. One tick is five seconds; only a call to  *)
(* an endpoint that does not answer takes any of them, and the consumer    *)
(* does nothing else meanwhile.                                            *)
(***************************************************************************)
EXTENDS Breaker, Integers, FiniteSets

CONSTANTS
  Messages, None,
  MaxRetries,  \* MAX_RETRIES of the processor
  CallTime,    \* WEBHOOK_TIMEOUT_SECONDS: 6 ticks unless it is configured
  Modes        \* how the endpoint may behave: "up", "refuses", "hangs"

RetryDelay == 2  \* x-message-ttl of the retry queue: 10 s
Interval == 2    \* of the breaker: 10 s
OpenTime == 6    \* Timeout of the breaker: 30 s
StaleTime == 48  \* staleDuration: 4 min

\* Every call has a time limit, of one tick at least.
ASSUME OutageAssumption ==
  /\ MaxRetries \in Nat \ {0} /\ CallTime \in Nat \ {0}
  /\ Modes # {} /\ Modes \subseteq {"up", "refuses", "hangs"}
  /\ None \notin Messages /\ IsFiniteSet(Messages)

\* With so few messages none waits four minutes behind those in front of it: the
\* age of a message is left out here.
ASSUME NoneGetsStale == RetryDelay + CallTime * Cardinality(Messages) < StaleTime

VARIABLES
  endpoint,        \* its present mode
  breaker, age,    \* the webhook client's breaker, the ticks of its generation
  at, wait,        \* per message: where it is, the ticks left in the retry queue
  attempts,        \* per message: retry_count
  call, left,      \* the message whose call hangs, the ticks until it is given up
  refused,         \* per message: attempts the breaker refused (history)
  openings         \* how often the breaker has opened (history)

messageVars == <<at, wait, attempts>>
callVars == <<call, left>>
vars == <<endpoint, breaker, age, messageVars, callVars, refused, openings>>

Limit_LongWindow(b) == 2 * OpenTime  \* faulty
Limit(b) == IF b.state = "closed" THEN Interval ELSE OpenTime

TypeOK ==
  /\ endpoint \in Modes
  /\ breaker \in Breakers /\ age \in 0..OpenTime
  /\ at \in [Messages -> {"unsent", "queue", "retry", "sent", "failed"}]
  /\ wait \in [Messages -> 0..RetryDelay]
  /\ attempts \in [Messages -> Nat] /\ refused \in [Messages -> Nat]
  /\ call \in Messages \cup {None} /\ left \in 0..CallTime
  /\ openings \in Nat

Init ==
  /\ endpoint \in Modes
  /\ breaker = Fresh("closed") /\ age = 0
  /\ at = [m \in Messages |-> "unsent"] /\ wait = [m \in Messages |-> 0]
  /\ attempts = [m \in Messages |-> 0] /\ refused = [m \in Messages |-> 0]
  /\ call = None /\ left = 0 /\ openings = 0

-----------------------------------------------------------------------------
\* The breaker becomes b. A generation begins with every change of state and with
\* every call that finds the former one expired.
BreakerIs(b) ==
  /\ breaker' = b
  /\ age' = IF breaker.expired \/ b.state # breaker.state THEN 0 ELSE age
  /\ openings' = IF b.state = "open" /\ (breaker.expired \/ breaker.state # "open")
                 THEN openings + 1 ELSE openings

\* handleSuccessfulProcessing.
Succeed(m) == at' = [at EXCEPT ![m] = "sent"] /\ UNCHANGED <<wait, attempts>>

\* handleWebhookError: the attempt counts whatever the error is, also when the
\* breaker refused the call.
Retry_AtOnce(m) ==  \* faulty
  /\ attempts' = [attempts EXCEPT ![m] = @ + 1]
  /\ IF attempts[m] + 1 >= MaxRetries
     THEN at' = [at EXCEPT ![m] = "failed"] /\ UNCHANGED wait
     ELSE UNCHANGED <<at, wait>>
Retry(m) ==
  /\ attempts' = [attempts EXCEPT ![m] = @ + 1]
  /\ IF attempts[m] + 1 >= MaxRetries
     THEN at' = [at EXCEPT ![m] = "failed"] /\ UNCHANGED wait
     ELSE at' = [at EXCEPT ![m] = "retry"] /\ wait' = [wait EXCEPT ![m] = RetryDelay]

\* The consumer takes m and calls the endpoint through the breaker.
SendRefused(m) ==
  LET b == Current(breaker)
  IN  /\ Refuses(b) /\ BreakerIs(b)
      /\ refused' = [refused EXCEPT ![m] = @ + 1]
      /\ Retry(m) /\ UNCHANGED callVars

SendAnswered(m) ==
  LET b == Current(breaker)
  IN  /\ ~Refuses(b) /\ endpoint # "hangs"
      /\ BreakerIs(Counted(Admitted(b), endpoint = "up"))
      /\ IF endpoint = "up" THEN Succeed(m) ELSE Retry(m)
      /\ UNCHANGED <<callVars, refused>>

SendHangs(m) ==
  LET b == Current(breaker)
  IN  /\ ~Refuses(b) /\ endpoint = "hangs"
      /\ BreakerIs(Admitted(b))
      /\ call' = m /\ left' = CallTime
      /\ UNCHANGED <<messageVars, refused>>

Send(m) ==
  /\ call = None /\ at[m] = "queue"
  /\ SendRefused(m) \/ SendAnswered(m) \/ SendHangs(m)
  /\ UNCHANGED endpoint

\* A connection that is under way can break at any time, even when the endpoint is
\* well again: it is as if it had refused.
Breaks == "refuses" \in Modes

\* The call that hung ends: the endpoint is up again and answers it, the connection
\* breaks, or the client's time limit is reached. Its result counts only if the
\* breaker's generation is the one it was let through in: nobody else calls, so an
\* expiry alone can end that.
CallEnds ==
  /\ call # None
  /\ LET b == Current(breaker)
         after(ok) == IF breaker.expired THEN b ELSE Counted(b, ok)
     IN  \/ endpoint = "up" /\ BreakerIs(after(TRUE)) /\ Succeed(call)
         \/ (Breaks \/ left = 0) /\ BreakerIs(after(FALSE)) /\ Retry(call)
  /\ call' = None /\ left' = 0
  /\ UNCHANGED <<endpoint, refused>>

\* The sender publishes m.
Publish(m) ==
  /\ at[m] = "unsent" /\ at' = [at EXCEPT ![m] = "queue"]
  /\ UNCHANGED <<endpoint, breaker, age, wait, attempts, callVars, refused, openings>>

RetryExpires(m) ==
  /\ at[m] = "retry" /\ wait[m] = 0 /\ at' = [at EXCEPT ![m] = "queue"]
  /\ UNCHANGED <<endpoint, breaker, age, wait, attempts, callVars, refused, openings>>

EndpointChanges ==
  /\ endpoint' \in Modes \ {endpoint}
  /\ UNCHANGED <<breaker, age, messageVars, callVars, refused, openings>>

\* Only what is in the retry queue has a time to wait for.
Elapse_Everywhere == wait' = [m \in Messages |-> wait[m] - 1]  \* faulty
Elapse == wait' = [m \in Messages |-> IF wait[m] > 0 THEN wait[m] - 1 ELSE 0]

\* Five seconds pass: not while the consumer has something to do, and not past the
\* end of a wait or of a hung call.
Tick ==
  /\ IF call = None THEN \A m \in Messages : at[m] # "queue" ELSE left > 0
  /\ \A m \in Messages : at[m] = "retry" => wait[m] > 0
  /\ Elapse
  /\ left' = IF call = None THEN left ELSE left - 1
  /\ age' = IF age < OpenTime THEN age + 1 ELSE age
  /\ breaker' = [breaker EXCEPT !.expired =
                   breaker.state # "halfOpen" /\ age + 1 >= Limit(breaker)]
  /\ UNCHANGED <<endpoint, at, attempts, call, refused, openings>>

Consumer == CallEnds \/ \E m \in Messages : Send(m)

Next ==
  \/ Consumer \/ EndpointChanges \/ Tick
  \/ \E m \in Messages : Publish(m) \/ RetryExpires(m)

Spec == Init /\ [][Next]_vars

\* Time passes, the broker hands on what has waited, the consumer goes on. Nobody
\* has to publish a message, and the endpoint does what it likes.
FairSpec ==
  /\ Spec
  /\ WF_vars(Consumer) /\ WF_vars(Tick)
  /\ \A m \in Messages : WF_vars(RetryExpires(m))

-----------------------------------------------------------------------------
\* An open breaker refuses a message three times and no more before it lets calls
\* through again: retries come every ten seconds, it stays open for thirty. With
\* five attempts a single opening never uses up the attempts of a message.
RefusalsPerOpening ==
  \A m \in Messages : refused[m] <= (OpenTime \div RetryDelay) * openings

\* A retry takes as long as an interval of the closed breaker. In one interval each
\* message is called once at most: it takes three different messages to open it.
OneCallPerWindow ==
  breaker.state = "closed" /\ ~breaker.expired => breaker.requests <= Cardinality(Messages)

\* What a message can still need at an endpoint that is well: three calls are refused
\* if the breaker is or becomes open, and then the half-open breaker lets it through.
\* Its own call, if it hangs at that moment and fails after all, takes the place of a
\* refusal: the message is put aside when the breaker opens and not after that.
CallsNeeded == OpenTime \div RetryDelay + 1

\* A message with that many attempts left when the endpoint is well for good is
\* delivered: the breaker delays it but does not use up what it has left.
OutageSurvived ==
  \A m \in Messages :
    [](at[m] # "unsent" /\ attempts[m] + CallsNeeded <= MaxRetries /\ [](endpoint = "up")
         => <>(at[m] = "sent"))

\* Until then it is never given up, however long the breaker keeps it waiting and whoever
\* is called while it waits.
OutageSpares ==
  \A m \in Messages :
    [](attempts[m] + CallsNeeded <= MaxRetries /\ [](endpoint = "up")
         => [](at[m] # "failed"))

\* README.md:199, "Circuit breaker prevents cascade failures", and
\* http_client_test.go:108-116, where five failed calls are enough: when every
\* message was given up, the breaker has opened.
OutageOpensBreaker ==
  (\A m \in Messages : at[m] = "failed") => openings > 0
=============================================================================
