----------------------------- MODULE Contracts -----------------------------
(***************************************************************************)
(* The vocabulary both services share: what a queue entry can carry, the   *)
(* statuses of a stored message, and the budget of faults a run allows.    *)
(*                                                                         *)
(* In all modules a definition marked "faulty" is not part of the model:   *)
(* it is the definition below it with a plausible bug, and takes its place *)
(* to show that some property notices the bug.                             *)
(***************************************************************************)
EXTENDS Naturals, FiniteSets

CONSTANTS
  Messages,    \* ObjectIDs of the documents clients create
  Malformed,   \* delivery bodies that are not the JSON of a QueueMessage
  InvalidIDs,  \* JSON bodies whose "id" is not an ObjectID
  None,        \* no body, no message
  MaxRetries,  \* MAX_RETRIES of the processor
  Faults,      \* the kinds of fault a run lets happen
  MaxFaults    \* how many faults a run lets happen

\* What a delivery on the main queue can carry: a QueueMessage names its
\* document by id, the other fields are never read by the processor.
Bodies == Messages \cup Malformed \cup InvalidIDs

FaultKinds == {"lookup",   \* IsProcessed or GetByID returns an error
               "write",    \* a write to MongoDB or Redis returns an error
               "broker",   \* a connection to RabbitMQ is lost
               "webhook",  \* the endpoint takes a message, its answer is lost
               "crash",    \* a service dies and is started again
               "restart",  \* RabbitMQ or Redis is restarted
               "ttl",      \* 24 hours pass and a Redis key expires
               "drop",     \* the messages collection is dropped (make seed)
               "foreign"}  \* somebody else publishes to the main queue

ASSUME ContractsAssumption ==
  /\ None \notin Bodies
  /\ Messages \cap (Malformed \cup InvalidIDs) = {}
  /\ Malformed \cap InvalidIDs = {}
  /\ MaxRetries \in Nat
  /\ Faults \subseteq FaultKinds
  /\ MaxFaults \in Nat

\* models.MessageStatus
Statuses == {"unsent", "processing", "sent", "failed", "duplicate"}

-----------------------------------------------------------------------------
VARIABLE faults  \* faults that have happened: the bound MaxFaults is on these

NoFault == UNCHANGED faults

Fault(kind) ==
  /\ kind \in Faults
  /\ faults < MaxFaults
  /\ faults' = faults + 1

\* A call to a remote store that changes it. When the caller sees an error, the
\* store may have applied the change all the same (the reply was lost).
Write(Effect, NoEffect, OnOk, OnErr) ==
  \/ NoFault /\ Effect /\ OnOk
  \/ Fault("write") /\ (Effect \/ NoEffect) /\ OnErr
=============================================================================
