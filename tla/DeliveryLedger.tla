--------------------------- MODULE DeliveryLedger ---------------------------
(***************************************************************************)
(* What the system promises to those who create messages and to the        *)
(* endpoint, without queues, schedulers, retries or processes: a message   *)
(* is delivered only after it was accepted, not again as long as the       *)
(* delivery is known, and confirmed only once it was delivered. Whatever   *)
(* goes beyond that is counted as a fault.                                 *)
(***************************************************************************)
EXTENDS Naturals

CONSTANTS Messages, MaxFaults

VARIABLES
  accepted,   \* the messages clients have created
  delivered,  \* per message: the times the endpoint took it
  known,      \* the messages whose delivery is known
  confirmed,  \* the messages a client is told were delivered
  faults      \* the faults that have happened

ledger == <<accepted, delivered, known, confirmed, faults>>

Init ==
  /\ accepted = {} /\ known = {} /\ confirmed = {} /\ faults = 0
  /\ delivered = [m \in Messages |-> 0]

Accept(m) ==
  /\ m \notin accepted
  /\ accepted' = accepted \cup {m}
  /\ UNCHANGED <<delivered, known, confirmed, faults>>

Take(m) == m \in accepted \ known /\ delivered' = [delivered EXCEPT ![m] = @ + 1]

Deliver(m) ==
  /\ Take(m)
  /\ known' = known \cup {m}
  /\ UNCHANGED <<accepted, confirmed, faults>>

Confirm(m) ==
  /\ delivered[m] > 0
  /\ confirmed' = confirmed \cup {m}
  /\ UNCHANGED <<accepted, delivered, known, faults>>

\* The record of a delivered message is overwritten: it is processed again.
Withdraw(m) ==
  /\ confirmed' = confirmed \ {m}
  /\ UNCHANGED <<accepted, delivered, known, faults>>

\* A fault makes the system forget deliveries, or take a message to the endpoint
\* without knowing it. It may change what is confirmed, never to something untrue.
Fail ==
  /\ faults < MaxFaults /\ faults' = faults + 1
  /\ known' \subseteq known
  /\ UNCHANGED delivered \/ \E m \in Messages : Take(m)
  /\ \A m \in confirmed' : m \in Messages /\ delivered'[m] > 0
  /\ UNCHANGED accepted

Next ==
  \/ \E m \in Messages : Accept(m) \/ Deliver(m) \/ Confirm(m) \/ Withdraw(m)
  \/ Fail

Spec == Init /\ [][Next]_ledger
=============================================================================
