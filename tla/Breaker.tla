------------------------------- MODULE Breaker -------------------------------
(***************************************************************************)
(* What a gobreaker computes, configured as the three adapters configure   *)
(* theirs (the settings are the same in all of them): MongoDB repository,  *)
(* Redis inbox, webhook client. CircuitBreaker is about goroutines that    *)
(* share one, WebhookOutage about the messages behind one.                 *)
(*                                                                         *)
(* A generation is the time between two changes of state, or one interval  *)
(* of the closed state. Time moves a breaker only when a call looks at it. *)
(***************************************************************************)
EXTENDS Naturals

CONSTANT MaxRequests  \* calls let through in the half-open state

ASSUME BreakerAssumption == MaxRequests \in Nat \ {0}

\* The breaker: its state, the counts of its generation, and whether the expiry of
\* the generation (interval or timeout) has passed.
Breakers == [state : {"closed", "open", "halfOpen"},
             requests : Nat, successes : Nat, failures : Nat, expired : BOOLEAN]

Fresh(state) == [state |-> state, requests |-> 0, successes |-> 0, failures |-> 0,
                 expired |-> FALSE]

\* currentState: what a call finds.
Current_StaysOpen(b) ==  \* faulty
  IF b.expired THEN Fresh(b.state) ELSE b
Current(b) ==
  IF b.expired THEN Fresh(IF b.state = "open" THEN "halfOpen" ELSE "closed") ELSE b

\* beforeRequest.
Refuses(b) == b.state = "open" \/ (b.state = "halfOpen" /\ b.requests >= MaxRequests)

Admitted(b) == [b EXCEPT !.requests = @ + 1]

\* ReadyToTrip: three requests, 60 % of them failed.
ReadyToTrip(b) == b.requests >= 3 /\ 5 * b.failures >= 3 * b.requests

\* afterRequest of a call of the present generation.
Succeeded(b) ==
  LET c == [b EXCEPT !.successes = @ + 1]
  IN  IF b.state = "halfOpen" /\ c.successes >= MaxRequests THEN Fresh("closed") ELSE c

Failed_HalfOpenCounts(b) ==  \* faulty
  LET c == [b EXCEPT !.failures = @ + 1]
  IN  IF ReadyToTrip(c) THEN Fresh("open") ELSE c
Failed(b) ==
  LET c == [b EXCEPT !.failures = @ + 1]
  IN  IF b.state = "halfOpen" \/ ReadyToTrip(c) THEN Fresh("open") ELSE c

Counted(b, ok) == IF ok THEN Succeeded(b) ELSE Failed(b)
=============================================================================
