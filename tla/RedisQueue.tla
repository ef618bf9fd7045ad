----------------------------- MODULE RedisQueue -----------------------------
(***************************************************************************)
(* The Redis keys of the queue and the Lua scripts that change them, each  *)
(* script one atomic action.  Modules that own a process (gateway, worker  *)
(* pool) extend this module and call these actions from their own steps.   *)
(*                                                                         *)
(* Time.  A score of a sorted set matters only through its order with      *)
(* Redis' clock, so a lease is "live" (score > TIME) or "expired", and a   *)
(* delayed task is "waiting" (score > TIME) or "due".  LeaseExpires and    *)
(* ComesDue are the passing of time.                                       *)
(*                                                                         *)
(* Lease IDs.  claimBatch draws a fresh UUID per claimed task and every    *)
(* script compares IDs of one and the same task only, so the model numbers *)
(* the leases of each task 1, 2, 3, ... in the order they are issued.      *)
(***************************************************************************)
EXTENDS Integers, Sequences, FiniteSets, Functions

CONSTANTS
  Task,         \* task IDs; each stands for one enqueue request
  MaxRetries,   \* max_retries of each request; 0 or less retries forever
  Undecodable   \* tasks whose body in Redis is not a JSON object

ASSUME TaskAssumption ==
  /\ MaxRetries \in [Task -> Int]
  /\ Undecodable \subseteq Task

VARIABLES
  immediate,    \* queue:tasks:immediate, the ready list; index 1 is its head
  inflight,     \* queue:tasks:inflight, lease deadline of each claimed task
  leases,       \* queue:tasks:leases, the lease each claimed task is under
  scheduled,    \* queue:tasks:scheduled, due time of each delayed task
  dead,         \* queue:tasks:dead, the bodies of dead-lettered tasks
  body,         \* task:<id>, of which the model keeps the attempts counter
  paused,       \* whether queue:paused exists
  issued        \* number of lease IDs drawn for each task so far

redisVars ==
  <<immediate, inflight, leases, scheduled, dead, body, paused, issued>>

(* What a caller learns of a command: its answer; nothing, though it took  *)
(* effect; nothing, because it never took effect.                          *)
Reply == {"ok", "lost", "none"}

NoBody  == -1   \* the key task:<id> does not exist
NoLease == 0    \* no field in the leases hash; the "" recovery passes in

DeadBody == [task : Task, attempts : Nat]

RedisTypeOK ==
  /\ immediate \in Seq(Task)
  /\ inflight  \in [Task -> {"none", "live", "expired"}]
  /\ leases    \in [Task -> Nat]
  /\ scheduled \in [Task -> {"none", "waiting", "due"}]
  /\ dead      \in Seq(DeadBody)
  /\ body      \in [Task -> Nat \cup {NoBody}]
  /\ paused    \in BOOLEAN
  /\ issued    \in [Task -> Nat]

RedisInit ==
  /\ immediate = <<>>
  /\ inflight  = [t \in Task |-> "none"]
  /\ leases    = [t \in Task |-> NoLease]
  /\ scheduled = [t \in Task |-> "none"]
  /\ dead      = <<>>
  /\ body      = [t \in Task |-> NoBody]
  /\ paused    = FALSE
  /\ issued    = [t \in Task |-> 0]

LPush(list, x) == <<x>> \o list

-----------------------------------------------------------------------------
(* Time passes, as Redis' TIME sees it. *)

LeaseExpires(t) ==
  /\ inflight[t] = "live"
  /\ inflight' = [inflight EXCEPT ![t] = "expired"]
  /\ UNCHANGED <<immediate, leases, scheduled, dead, body, paused, issued>>

ComesDue(t) ==
  /\ scheduled[t] = "waiting"
  /\ scheduled' = [scheduled EXCEPT ![t] = "due"]
  /\ UNCHANGED <<immediate, inflight, leases, dead, body, paused, issued>>

-----------------------------------------------------------------------------
(* claimBatch: pop up to size IDs, put each under a fresh lease.  The      *)
(* deadline is one value for the batch, computed on the worker's clock:    *)
(* deadline is "expired" when that clock is behind Redis' by a lease.      *)

Popped(size) ==
  SubSeq(immediate, 1, IF size < Len(immediate) THEN size ELSE Len(immediate))

Occurrences(s, t, n) == Cardinality({i \in 1..n : s[i] = t})

(* Mutant: the claims carry the lease on record, not the fresh one. *)
ClaimsStale(size) ==
  LET s == Popped(size)
  IN  [i \in 1..Len(s) |->
         [task |-> s[i], lease |-> leases[s[i]], found |-> body[s[i]] # NoBody]]

Claims(size) ==
  LET s == Popped(size)
  IN  [i \in 1..Len(s) |->
         [task  |-> s[i],
          lease |-> issued[s[i]] + Occurrences(s, s[i], i),
          found |-> body[s[i]] # NoBody]]

ClaimBatch(size, deadline) ==
  LET s == Popped(size)
      last == [t \in Task |-> issued[t] + Occurrences(s, t, Len(s))]
  IN  /\ ~paused
      /\ immediate # <<>>
      /\ immediate' = SubSeq(immediate, Len(s) + 1, Len(immediate))
      /\ inflight' = [t \in Task |-> IF t \in Range(s) THEN deadline ELSE inflight[t]]
      /\ leases' = [t \in Task |-> IF t \in Range(s) THEN last[t] ELSE leases[t]]
      /\ issued' = last
      /\ UNCHANGED <<scheduled, dead, body, paused>>

-----------------------------------------------------------------------------
(* requeueOrDead: a worker passes its lease, recovery passes NoLease.      *)

(* Mutant: recovery does not look at the deadline again. *)
RenewedNever(t) == FALSE

Renewed(t) == inflight[t] = "live"
BudgetSpent(t) == MaxRetries[t] > 0 /\ body[t] + 1 >= MaxRetries[t]

RequeueStatus(t, lease) ==
  CASE lease # NoLease /\ leases[t] # lease     -> "fenced"
    [] lease = NoLease /\ inflight[t] = "none"  -> "gone"
    [] lease = NoLease /\ Renewed(t)            -> "renewed"
    [] OTHER -> IF body[t] = NoBody THEN "no-body"
                ELSE IF t \in Undecodable \/ BudgetSpent(t) THEN "dead"
                ELSE "scheduled"

(* Mutant: the incremented counter is not written back to the body. *)
CountedLost(t) == body[t]

Counted(t) == IF t \in Undecodable THEN body[t] ELSE body[t] + 1

RequeueOrDead(t, lease) ==
  LET status   == RequeueStatus(t, lease)
      released == status \notin {"fenced", "gone", "renewed"}
  IN  /\ inflight'  = IF released THEN [inflight EXCEPT ![t] = "none"] ELSE inflight
      /\ leases'    = IF released THEN [leases EXCEPT ![t] = NoLease] ELSE leases
      /\ body'      = IF status \in {"dead", "scheduled"}
                      THEN [body EXCEPT ![t] = Counted(t)] ELSE body
      /\ dead'      = IF status = "dead"
                      THEN LPush(dead, [task |-> t, attempts |-> Counted(t)]) ELSE dead
      /\ scheduled' = IF status = "scheduled"
                      THEN [scheduled EXCEPT ![t] = "waiting"] ELSE scheduled
      /\ UNCHANGED <<immediate, paused, issued>>

-----------------------------------------------------------------------------
(* ackBatch: every presented claim is fenced on its own. *)

(* Mutant: no fence, whoever presents a claim is believed. *)
AckedUnfenced(presented) == presented

Acked(presented) == {c \in presented : leases[c.task] = c.lease}

AckBatch(presented) ==
  LET done == {c.task : c \in Acked(presented)}
  IN  /\ inflight' = [t \in Task |-> IF t \in done THEN "none" ELSE inflight[t]]
      /\ leases'   = [t \in Task |-> IF t \in done THEN NoLease ELSE leases[t]]
      /\ body'     = [t \in Task |-> IF t \in done THEN NoBody ELSE body[t]]
      /\ UNCHANGED <<immediate, scheduled, dead, paused, issued>>

(* Mutant: the deadline is renewed whatever lease is presented. *)
HeartbeatUnfenced(t, lease) ==
  /\ inflight' = [inflight EXCEPT ![t] = "live"]
  /\ UNCHANGED <<immediate, leases, scheduled, dead, body, paused, issued>>

(* heartbeat: renews the deadline if the lease is still the current one. *)
Heartbeat(t, lease) ==
  /\ inflight' = IF leases[t] = lease THEN [inflight EXCEPT ![t] = "live"] ELSE inflight
  /\ UNCHANGED <<immediate, leases, scheduled, dead, body, paused, issued>>

(* Mutants: without the ZREM; without the LPUSH; without the check. *)
PromoteTaskKeeps(t) ==
  /\ immediate' = IF scheduled[t] = "due" THEN LPush(immediate, t) ELSE immediate
  /\ UNCHANGED <<inflight, leases, scheduled, dead, body, paused, issued>>

PromoteTaskDrops(t) ==
  /\ scheduled' = IF scheduled[t] = "due" THEN [scheduled EXCEPT ![t] = "none"] ELSE scheduled
  /\ UNCHANGED <<immediate, inflight, leases, dead, body, paused, issued>>

PromoteTaskBlind(t) ==
  /\ scheduled' = [scheduled EXCEPT ![t] = "none"]
  /\ immediate' = LPush(immediate, t)
  /\ UNCHANGED <<inflight, leases, dead, body, paused, issued>>

(* promoteTask: moves a task to the ready list if it is still due. *)
PromoteTask(t) ==
  LET due == scheduled[t] = "due"
  IN  /\ scheduled' = IF due THEN [scheduled EXCEPT ![t] = "none"] ELSE scheduled
      /\ immediate' = IF due THEN LPush(immediate, t) ELSE immediate
      /\ UNCHANGED <<inflight, leases, dead, body, paused, issued>>

-----------------------------------------------------------------------------
(* The single commands of the gateway and of the pause switch. *)

SetBody(t) ==
  /\ body' = [body EXCEPT ![t] = 0]
  /\ UNCHANGED <<immediate, inflight, leases, scheduled, dead, paused, issued>>

PushReady(t, copies) ==
  /\ immediate' = IF copies = 1 THEN LPush(immediate, t)
                                ELSE LPush(LPush(immediate, t), t)
  /\ UNCHANGED <<inflight, leases, scheduled, dead, body, paused, issued>>

AddScheduled(t, score) ==
  /\ scheduled' = [scheduled EXCEPT ![t] = score]
  /\ UNCHANGED <<immediate, inflight, leases, dead, body, paused, issued>>

SetPaused(b) ==
  /\ paused # b
  /\ paused' = b
  /\ UNCHANGED <<immediate, inflight, leases, scheduled, dead, body, issued>>
=============================================================================
