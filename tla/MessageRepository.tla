------------------------- MODULE MessageRepository -------------------------
(***************************************************************************)
(* The "messages" collection of MongoDB and the repository adapter both    *)
(* services use. Each operation is one MongoDB command on one document,    *)
(* hence atomic. updated_at matters only against the four minutes after    *)
(* which a message counts as stale: stale holds the messages whose         *)
(* updated_at is older than that.                                          *)
(***************************************************************************)
EXTENDS Contracts

VARIABLES
  status,      \* per message: its status, "absent" before, "dropped" after
  retryCount,  \* per message: retry_count
  stale        \* the stored messages not updated for staleDuration

repoVars == <<status, retryCount, stale>>

RepoTypeOK ==
  /\ status \in [Messages -> Statuses \cup {"absent", "dropped"}]
  /\ retryCount \in [Messages -> Nat]
  /\ stale \subseteq Messages

RepoInit ==
  /\ status = [m \in Messages |-> "absent"]
  /\ retryCount = [m \in Messages |-> 0]
  /\ stale = {}

Stored(m) == status[m] \in Statuses

\* PrepareMessage and InsertOne.
InsertMessage(m) ==
  /\ status[m] = "absent"
  /\ status' = [status EXCEPT ![m] = "unsent"]
  /\ retryCount' = [retryCount EXCEPT ![m] = 0]
  /\ stale' = stale \ {m}

\* $set status and updated_at. The filter is the id alone: whatever status the
\* document has is overwritten, and no document means no change and no error.
UpdateStatus(m, s) ==
  /\ status' = [status EXCEPT ![m] = IF Stored(m) THEN s ELSE @]
  /\ stale' = stale \ {m}
  /\ UNCHANGED retryCount

\* $inc retry_count, $set updated_at.
IncrementRetryCount(m) ==
  /\ retryCount' = [retryCount EXCEPT ![m] = IF Stored(m) THEN @ + 1 ELSE @]
  /\ stale' = stale \ {m}
  /\ UNCHANGED status

\* The possible answers of a find by status with a limit and no sort.
FindUnsentMessages_OrProcessing(limit) ==  \* faulty
  {S \in SUBSET {m \in Messages : status[m] \in {"unsent", "processing"}} :
     Cardinality(S) <= limit}
FindUnsentMessages_OrFailed(limit) ==  \* faulty
  {S \in SUBSET {m \in Messages : status[m] \in {"unsent", "failed"}} :
     Cardinality(S) <= limit}
FindUnsentMessages(limit) ==
  LET unsent == {m \in Messages : status[m] = "unsent"}
  IN  {S \in SUBSET unsent :
         Cardinality(S) = IF Cardinality(unsent) < limit
                          THEN Cardinality(unsent) ELSE limit}

FindStaleProcessingMessages_OrFailed ==  \* faulty
  {m \in Messages : status[m] \in {"processing", "failed"} /\ m \in stale}
FindStaleProcessingMessages_Retryable ==  \* faulty
  {m \in Messages : status[m] = "processing" /\ m \in stale /\ retryCount[m] < MaxRetries}
FindStaleProcessingMessages ==
  {m \in Messages : status[m] = "processing" /\ m \in stale}

-----------------------------------------------------------------------------
\* Four minutes pass since the last update of m.
TimePasses(m) ==
  /\ Stored(m) /\ m \notin stale
  /\ stale' = stale \cup {m}
  /\ UNCHANGED <<status, retryCount>>

\* "make seed" drops the collection under the running services.
DropCollection ==
  /\ \E m \in Messages : Stored(m)
  /\ status' = [m \in Messages |-> IF Stored(m) THEN "dropped" ELSE status[m]]
  /\ stale' = {}
  /\ UNCHANGED retryCount
=============================================================================
