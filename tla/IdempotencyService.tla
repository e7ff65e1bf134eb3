------------------------ MODULE IdempotencyService ------------------------
(***************************************************************************)
(* The inbox in Redis: the key "inbox:<id>" that says a message was        *)
(* processed and the key "webhook:msg:<id>" with the endpoint's own id.    *)
(* Both are set to expire after 24 hours.                                  *)
(***************************************************************************)
EXTENDS Contracts

VARIABLES inbox, webhookIDs  \* the messages that have each key

redisVars == <<inbox, webhookIDs>>

RedisTypeOK == inbox \subseteq Messages /\ webhookIDs \subseteq Messages

RedisInit == inbox = {} /\ webhookIDs = {}

IsProcessed_ByWebhookID(b) == b \in webhookIDs  \* faulty
IsProcessed(b) == b \in inbox

MarkAsProcessed(m) == inbox' = inbox \cup {m} /\ UNCHANGED webhookIDs

StoreWebhookMessageID(m) == webhookIDs' = webhookIDs \cup {m} /\ UNCHANGED inbox

KeyExpires ==
  \/ \E m \in inbox : inbox' = inbox \ {m} /\ UNCHANGED webhookIDs
  \/ \E m \in webhookIDs : webhookIDs' = webhookIDs \ {m} /\ UNCHANGED inbox

\* Redis is restarted: it comes back with what its last snapshot held.
RedisRestarts == inbox' \in SUBSET inbox /\ webhookIDs' \in SUBSET webhookIDs
=============================================================================
