----------------------------- MODULE ForgeQueue -----------------------------
(***************************************************************************)
(* The queue as deployed without a journal: one Redis, the gateway, any    *)
(* number of worker pools, the pause switch, and time.                     *)
(***************************************************************************)
EXTENDS Gateway, WorkerPool

CONSTANT Pausing   \* whether operators use the pause switch

ASSUME PausingAssumption == Pausing \in BOOLEAN

vars == <<redisVars, gw, poolVars>>

Init == RedisInit /\ GatewayInit /\ PoolInit

Environment ==
  \/ \E t \in Task : LeaseExpires(t) \/ ComesDue(t)
  \/ Pausing /\ \E b \in BOOLEAN : SetPaused(b)

Next ==
  \/ (\E t \in Task : GatewayStep(t)) /\ UNCHANGED poolVars
  \/ PoolNext /\ UNCHANGED gw
  \/ Environment /\ UNCHANGED <<gw, poolVars>>

Spec == Init /\ [][Next]_vars

(* No heartbeat goroutine is renewing the lease t is under. *)
Unattended(t) == \A b \in beats : b.task = t => b.lease # leases[t]

TypeOK == RedisTypeOK /\ GatewayTypeOK /\ PoolTypeOK
-----------------------------------------------------------------------------
InDead(t) == \E i \in DOMAIN dead : dead[i].task = t

Places(t) ==
  {x \in {"ready", "claimed", "delayed", "dead"} :
     \/ x = "ready"   /\ t \in Range(immediate)
     \/ x = "claimed" /\ inflight[t] # "none"
     \/ x = "delayed" /\ scheduled[t] # "none"
     \/ x = "dead"    /\ InDead(t)}

(* The step is an ackBatch of worker w for a claim of t, under the lease   *)
(* that is on record when the script runs.                                 *)
AcksClaim(w, t) ==
  /\ \E c \in acks[w] : c.task = t /\ c.lease = leases[t]
  /\ \E reply \in PoolReplies : AckTasks(w, reply)

(* The step is a requeueOrDead of worker w for its failed claim of t,      *)
(* under the lease that is on record when the script runs.                 *)
FailsClaim(w, t) ==
  /\ batch[w] # <<>> /\ Head(batch[w]).task = t /\ Head(batch[w]).lease = leases[t]
  /\ \E reply \in PoolReplies : HandlerFails(w, reply)

(* A task that has been put in the queue and whose body is still there is  *)
(* in one of the four structures: no interleaving of scripts, lost answers *)
(* and dying pools leaves a task that nothing will ever pick up again.     *)
NoTaskLost == \A t \in Task : Enqueued(t) /\ body[t] # NoBody => Places(t) # {}

(* The inflight set and the leases hash, written by five scripts, always   *)
(* list the same tasks, and the lease on record is the last one issued: no *)
(* older claim can pass a fence.                                           *)
LeaseTableAgrees ==
  \A t \in Task : /\ inflight[t] # "none" <=> leases[t] # NoLease
                  /\ leases[t] \in {NoLease, issued[t]}

(* A task is in at most one of ready list, inflight set, scheduled set and *)
(* dead letters, and once in a list.                                       *)
SingleLocation ==
  /\ \A t \in Task : \A x, y \in Places(t) : x = y
  /\ \A i, j \in DOMAIN immediate : immediate[i] = immediate[j] => i = j
  /\ \A i, j \in DOMAIN dead : dead[i].task = dead[j].task => i = j

(* Whatever is in the queue still has its body: a claim never comes back   *)
(* empty, and recovery never drops a task as "no-body".                    *)
QueuedHasBody == \A t \in Task : Places(t) # {} => body[t] # NoBody

(* max_retries bounds how often a task is handed to a handler, crashes,    *)
(* stale workers and retries included, and a task is dead-lettered only    *)
(* once its budget is used up or its body cannot be decoded.               *)
RetryBudget ==
  /\ \A t \in Task : MaxRetries[t] > 0 => runs[t] <= MaxRetries[t]
  /\ \A i \in DOMAIN dead :
       LET d == dead[i]
       IN  \/ d.task \in Undecodable
           \/ MaxRetries[d.task] > 0 /\ d.attempts = MaxRetries[d.task]

(* A body is deleted only in the ACK of a worker whose handler returned    *)
(* nil for the task and whose lease is the current one at that moment: the *)
(* ACK of a worker that lost its lease, recovery and heartbeats never do.  *)
DeletedOnlyByOwner ==
  [][\A t \in Task :
       body[t] # NoBody /\ body'[t] = NoBody =>
         \E w \in Worker : AcksClaim(w, t)]_vars

(* While the lease of a task is live, only a step of the worker that holds *)
(* that lease takes it away: its ACK or its report of a failure.  Recovery *)
(* that acts on an old scan, a worker that lost the lease, a late          *)
(* heartbeat and another claim leave it alone.                             *)
LiveLeaseRespected ==
  [][\A t \in Task :
       inflight[t] = "live" /\ leases'[t] # leases[t] =>
         \E w \in Worker : AcksClaim(w, t) \/ FailsClaim(w, t)]_vars

(* Pausing stops claims, not the work under way: every claimed task leaves *)
(* the inflight set even if the queue stays paused.                        *)
InflightDrains ==
  \A t \in Task : inflight[t] # "none" ~> inflight[t] = "none"

-----------------------------------------------------------------------------
(* The refinement: what the Redis keys say about the life of a task.  The  *)
(* counter of an acknowledged task goes with its body; it was one less     *)
(* than the number of leases issued.                                       *)

PhaseOf(t) ==
  IF t \in Range(immediate) THEN "ready"
  ELSE IF inflight[t] # "none" THEN "running"
  ELSE IF scheduled[t] # "none" THEN "delayed"
  ELSE IF InDead(t) THEN "dead"
  ELSE IF issued[t] > 0 /\ body[t] = NoBody THEN "done"
  ELSE "absent"

AttemptsOf(t) ==
  IF body[t] # NoBody THEN body[t]
  ELSE IF issued[t] > 0 THEN issued[t] - 1 ELSE 0

Life == INSTANCE TaskLifecycle
          WITH phase    <- [t \in Task |-> PhaseOf(t)],
               attempts <- [t \in Task |-> AttemptsOf(t)]

(* The scripts, loops and workers together implement the life cycle: every *)
(* step of theirs moves tasks the way TaskLifecycle allows or leaves them  *)
(* where they are, an attempt is counted exactly when a task leaves        *)
(* "running" without an ACK, and "done" and "dead" are never left.         *)
ImplementsLifecycle == Life!LifeSpec
=============================================================================
