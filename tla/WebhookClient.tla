--------------------------- MODULE WebhookClient ---------------------------
(***************************************************************************)
(* The webhook endpoint as the processor's HTTP client sees it, and how    *)
(* often the endpoint has taken each message.                              *)
(***************************************************************************)
EXTENDS Contracts

VARIABLE delivered  \* per message: the times the endpoint took it

WebhookTypeOK == delivered \in [Messages -> Nat]

WebhookInit == delivered = [m \in Messages |-> 0]

Deliver(m) == delivered' = [delivered EXCEPT ![m] = @ + 1]

\* A status below 400 is a success, whether the answer names a messageId or not.
\* An error means that the message was not sent (open breaker, no connection),
\* that the endpoint refused it, or that its answer was lost: client timeout,
\* connection reset while the body was read.
SendMessage(m, OnID, OnNoID, OnErr) ==
  \/ NoFault /\ Deliver(m) /\ (OnID \/ OnNoID)
  \/ NoFault /\ UNCHANGED delivered /\ OnErr
  \/ Fault("webhook") /\ Deliver(m) /\ OnErr
=============================================================================
