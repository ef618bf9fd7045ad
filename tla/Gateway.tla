------------------------------ MODULE Gateway -------------------------------
(***************************************************************************)
(* The gRPC gateway: EnqueueTask calls RouteTask, which writes the journal *)
(* row, the body, the queue entry and the journal's "materialized" mark in *)
(* that order and returns at the first error.  gw[t] is how far the call   *)
(* for task t has come.                                                    *)
(*                                                                         *)
(* A gateway that dies between two commands is the outcome "none" of the   *)
(* next one.                                                               *)
(***************************************************************************)
EXTENDS RedisQueue

CONSTANTS
  Delayed,        \* tasks enqueued with delay_seconds > 0
  GatewayReplies, \* the outcomes of the gateway's commands considered
  ClientRetries   \* whether the Redis client resends a command whose answer
                  \* was lost, and so may apply it twice

ASSUME GatewayAssumption ==
  /\ Delayed \subseteq Task
  /\ GatewayReplies \subseteq Reply
  /\ ClientRetries \in BOOLEAN

VARIABLE gw

GatewayState ==
  {"new", "journaled", "stored", "queued", "accepted", "failed"}

GatewayTypeOK == gw \in [Task -> GatewayState]

GatewayInit == gw = [t \in Task |-> "new"]

(* store.Enqueue: the journal row.  Without a journal it is a no-op that   *)
(* cannot fail; its effect on the journal belongs to the journal's module. *)
JournalEnqueue(t) ==
  /\ gw[t] = "new"
  /\ gw' = [gw EXCEPT ![t] = "journaled"]
  /\ UNCHANGED redisVars

StoreBody(t, reply) ==
  /\ gw[t] = "journaled"
  /\ gw' = [gw EXCEPT ![t] = IF reply = "ok" THEN "stored" ELSE "failed"]
  /\ IF reply = "none" THEN UNCHANGED redisVars ELSE SetBody(t)

(* LPUSH onto the ready list.  Resent by the client library it leaves two  *)
(* entries; SET and ZADD have the same effect once or twice.               *)
PushImmediate(t, reply, copies) ==
  /\ gw[t] = "stored" /\ t \notin Delayed
  /\ copies = 2 => ClientRetries
  /\ gw' = [gw EXCEPT ![t] = IF reply = "ok" THEN "queued" ELSE "failed"]
  /\ IF reply = "none" THEN UNCHANGED redisVars ELSE PushReady(t, copies)

(* ZADD to the scheduled set, scored on the gateway's clock: a task can be *)
(* due on Redis' clock from the start.                                     *)
PushScheduled(t, reply, score) ==
  /\ gw[t] = "stored" /\ t \in Delayed
  /\ gw' = [gw EXCEPT ![t] = IF reply = "ok" THEN "queued" ELSE "failed"]
  /\ IF reply = "none" THEN UNCHANGED redisVars ELSE AddScheduled(t, score)

(* store.Materialized, then the answer to the client. *)
Materialize(t) ==
  /\ gw[t] = "queued"
  /\ gw' = [gw EXCEPT ![t] = "accepted"]
  /\ UNCHANGED redisVars

GatewayStep(t) ==
  \/ JournalEnqueue(t)
  \/ \E reply \in GatewayReplies : StoreBody(t, reply)
  \/ \E reply \in GatewayReplies, copies \in 1..2 : PushImmediate(t, reply, copies)
  \/ \E reply \in GatewayReplies, score \in {"waiting", "due"} :
       PushScheduled(t, reply, score)
  \/ Materialize(t)

(* The gateway saw its push of t succeed.  A push that took effect and     *)
(* whose answer was lost counts as failed, as for the client.              *)
Enqueued(t) == gw[t] \in {"queued", "accepted"}
=============================================================================
