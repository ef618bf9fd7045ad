----------------------------- MODULE WorkerPool -----------------------------
(***************************************************************************)
(* The worker pools: each pool runs worker goroutines (workerLoop), one    *)
(* heartbeat goroutine per claimed task, a recovery loop and a promotion   *)
(* loop, and can be stopped, drained, killed and started again.            *)
(*                                                                         *)
(* pc[w] is where workerLoop of worker w stands:                           *)
(*   "idle"     at the top of the loop or about to run the claim script    *)
(*   "next"     about to look at the next claim of its batch               *)
(*   "handle"   inside handler.Handle for the first claim of batch[w]      *)
(*   "retried"  requeueOrDead said "scheduled", reportRetry is next        *)
(*   "buried"   requeueOrDead said "dead", reportDead is next              *)
(*   "acked"    ackBatch has returned, store.Succeeded is next             *)
(*   "exited"   the goroutine has returned                                 *)
(* Steps that touch only local variables are merged with the next call to  *)
(* Redis or to the journal.                                                *)
(***************************************************************************)
EXTENDS RedisQueue

CONSTANTS
  Worker,       \* worker goroutines
  Pool,         \* worker pools (processes)
  PoolOf,       \* the pool each worker goroutine belongs to
  BatchSize,    \* WithBatchSize
  NoHandler,    \* tasks whose type has no registered handler
  PoolReplies,  \* the outcomes of the pools' commands considered
  Skewed,       \* whether a pool's clock may differ from Redis' clock
  MaxDowntimes, \* bound: how often the pools may go down
  MaxLeases     \* bound: how many leases may be issued for one task

ASSUME PoolAssumption ==
  /\ PoolOf \in [Worker -> Pool]
  /\ BatchSize \in Nat \ {0}
  /\ NoHandler \subseteq Task
  /\ PoolReplies \subseteq Reply
  /\ Skewed \in BOOLEAN
  /\ MaxDowntimes \in Nat
  /\ MaxLeases \in Nat

VARIABLES
  status,       \* life cycle of each pool
  downtimes,    \* how often a pool has gone down so far
  pc,           \* control state of each worker goroutine
  batch,        \* the claims of its batch the worker has not finished
  acks,         \* claims whose handler succeeded; after the ACK, those acked
  beats,        \* running heartbeat goroutines
  expired,      \* what is left of the list findExpiredTasks returned
  reporting,    \* the outcome the recovery loop is about to report
  due,          \* what is left of the list findDueTasks returned
  runs          \* history: how often a handler was started for each task

workerVars == <<pc, batch, acks, beats, runs>>
loopVars   == <<expired, reporting, due>>
poolVars   == <<status, downtimes, workerVars, loopVars>>

Claim == [task : Task, lease : Nat \ {NoLease}, found : BOOLEAN]
Beat  == [worker : Worker, task : Task, lease : Nat \ {NoLease}, stopped : BOOLEAN]

PoolTypeOK ==
  /\ status    \in [Pool -> {"up", "draining", "down"}]
  /\ downtimes \in Nat
  /\ pc        \in [Worker -> {"idle", "next", "handle", "retried", "buried",
                               "acked", "exited"}]
  /\ batch     \in [Worker -> Seq(Claim)]
  /\ acks      \in [Worker -> SUBSET Claim]
  /\ beats     \subseteq Beat
  /\ expired   \in [Pool -> SUBSET Task]
  /\ reporting \in [Pool -> SUBSET Task]
  /\ due       \in [Pool -> SUBSET Task]
  /\ runs      \in [Task -> Nat]

PoolInit ==
  /\ status    = [p \in Pool |-> "up"]
  /\ downtimes = 0
  /\ pc        = [w \in Worker |-> "idle"]
  /\ batch     = [w \in Worker |-> <<>>]
  /\ acks      = [w \in Worker |-> {}]
  /\ beats     = {}
  /\ expired   = [p \in Pool |-> {}]
  /\ reporting = [p \in Pool |-> {}]
  /\ due       = [p \in Pool |-> {}]
  /\ runs      = [t \in Task |-> 0]

Alive(w) == status[PoolOf[w]] # "down"

(* Where workerLoop goes when it is back at the top: quit, once closed, is *)
(* always seen there.                                                      *)
Top(w) == IF status[PoolOf[w]] = "up" THEN "idle" ELSE "exited"

(* Mutant: stopTask cancels nothing. *)
StopBeatsNone(w, tasks) == beats

(* The heartbeats left after stopTask for the given tasks of w.            *)
(* A stopped heartbeat may still have one call under way.                  *)
StopBeats(w, tasks) ==
  {IF b.worker = w /\ b.task \in tasks THEN [b EXCEPT !.stopped = TRUE] ELSE b
     : b \in beats}
-----------------------------------------------------------------------------
(* workerLoop *)

(* claimBatch, and a heartbeat started for every claim.  A lost reply      *)
(* leaves the tasks leased to nobody.                                      *)
ClaimTasks(w, reply, deadline) ==
  /\ pc[w] = "idle" /\ Alive(w)
  /\ deadline = "expired" => Skewed
  /\ \A c \in Range(Claims(BatchSize)) : c.lease <= MaxLeases
  /\ ClaimBatch(BatchSize, deadline)
  /\ \/ /\ reply = "ok"
        /\ pc' = [pc EXCEPT ![w] = "next"]
        /\ batch' = [batch EXCEPT ![w] = Claims(BatchSize)]
        /\ beats' = beats \cup
             {[worker |-> w, task |-> c.task, lease |-> c.lease, stopped |-> FALSE]
                : c \in Range(Claims(BatchSize))}
     \/ /\ reply = "lost"
        /\ pc' = [pc EXCEPT ![w] = Top(w)]
        /\ UNCHANGED <<batch, beats>>
  /\ UNCHANGED <<status, downtimes, acks, runs, loopVars>>

(* A pass of the loop without a claim: quit is closed and seen at the top, *)
(* or the script found nothing to claim.                                   *)
IdlePass(w) ==
  /\ pc[w] = "idle" /\ Alive(w)
  /\ status[PoolOf[w]] = "draining" \/ paused \/ immediate = <<>>
  /\ pc' = [pc EXCEPT ![w] = Top(w)]
  /\ UNCHANGED <<status, downtimes, batch, acks, beats, runs, loopVars, redisVars>>

Runnable(c) == c.found /\ c.task \notin Undecodable /\ c.task \notin NoHandler

(* No body, no JSON or no handler: the claim is skipped and its lease left *)
(* to expire.                                                              *)
SkipClaim(w) ==
  /\ pc[w] = "next" /\ Alive(w) /\ batch[w] # <<>>
  /\ ~Runnable(Head(batch[w]))
  /\ batch' = [batch EXCEPT ![w] = Tail(@)]
  /\ beats' = StopBeats(w, {Head(batch[w]).task})
  /\ UNCHANGED <<status, downtimes, pc, acks, runs, loopVars, redisVars>>

(* store.Processing, then handler.Handle is called. *)
StartHandler(w) ==
  /\ pc[w] = "next" /\ Alive(w) /\ batch[w] # <<>>
  /\ Runnable(Head(batch[w]))
  /\ pc' = [pc EXCEPT ![w] = "handle"]
  /\ runs' = [runs EXCEPT ![Head(batch[w]).task] = @ + 1]
  /\ UNCHANGED <<status, downtimes, batch, acks, beats, loopVars, redisVars>>

(* The handler returns nil: the ACK waits for the end of the batch. *)
HandlerSucceeds(w) ==
  /\ pc[w] = "handle" /\ Alive(w)
  /\ pc' = [pc EXCEPT ![w] = "next"]
  /\ batch' = [batch EXCEPT ![w] = Tail(@)]
  /\ acks' = [acks EXCEPT ![w] = @ \cup {Head(batch[w])}]
  /\ UNCHANGED <<status, downtimes, beats, runs, loopVars, redisVars>>

(* Mutant: the handler is called again when the script fails. *)
HandlerFailsAgain(w, reply) ==
  LET c == Head(batch[w])
  IN  /\ pc[w] = "handle" /\ Alive(w)
      /\ IF reply = "none" THEN UNCHANGED redisVars ELSE RequeueOrDead(c.task, c.lease)
      /\ pc' = [pc EXCEPT ![w] = "next"]
      /\ batch' = IF reply = "ok" THEN [batch EXCEPT ![w] = Tail(@)] ELSE batch
      /\ beats' = IF reply = "ok" THEN StopBeats(w, {c.task}) ELSE beats
      /\ UNCHANGED <<status, downtimes, acks, runs, loopVars>>

(* The handler returns an error: requeueOrDead under the claim's lease.    *)
(* An error of the script leaves the heartbeat running.                    *)
HandlerFails(w, reply) ==
  LET c == Head(batch[w])
      outcome == IF reply = "ok" THEN RequeueStatus(c.task, c.lease) ELSE "error"
      reports == outcome \in {"scheduled", "dead"}
  IN  /\ pc[w] = "handle" /\ Alive(w)
      /\ IF reply = "none" THEN UNCHANGED redisVars ELSE RequeueOrDead(c.task, c.lease)
      /\ pc' = [pc EXCEPT ![w] = CASE outcome = "scheduled" -> "retried"
                                   [] outcome = "dead"      -> "buried"
                                   [] OTHER                 -> "next"]
      /\ batch' = IF reports THEN batch ELSE [batch EXCEPT ![w] = Tail(@)]
      /\ beats' = IF reports \/ outcome = "error" THEN beats
                                                  ELSE StopBeats(w, {c.task})
      /\ UNCHANGED <<status, downtimes, acks, runs, loopVars>>

(* reportRetry or reportDead: reads the body, writes the journal. *)
WorkerReports(w) ==
  /\ pc[w] \in {"retried", "buried"} /\ Alive(w)
  /\ pc' = [pc EXCEPT ![w] = "next"]
  /\ batch' = [batch EXCEPT ![w] = Tail(@)]
  /\ beats' = StopBeats(w, {Head(batch[w]).task})
  /\ UNCHANGED <<status, downtimes, acks, runs, loopVars, redisVars>>

(* ackBatch for the whole batch; the claims it reports are the ones that   *)
(* still held their lease.                                                 *)
AckTasks(w, reply) ==
  /\ pc[w] = "next" /\ Alive(w) /\ batch[w] = <<>> /\ acks[w] # {}
  /\ IF reply = "none" THEN UNCHANGED redisVars ELSE AckBatch(acks[w])
  /\ pc' = [pc EXCEPT ![w] = "acked"]
  /\ acks' = [acks EXCEPT ![w] = IF reply = "ok" THEN Acked(@) ELSE {}]
  /\ UNCHANGED <<status, downtimes, batch, beats, runs, loopVars>>

(* store.Succeeded for one acknowledged task. *)
WorkerRecords(w, c) ==
  /\ pc[w] = "acked" /\ Alive(w) /\ c \in acks[w]
  /\ acks' = [acks EXCEPT ![w] = @ \ {c}]
  /\ UNCHANGED <<status, downtimes, pc, batch, beats, runs, loopVars, redisVars>>

(* The batch is over: every heartbeat left is stopped. *)
FinishBatch(w) ==
  /\ pc[w] \in {"next", "acked"} /\ Alive(w) /\ batch[w] = <<>> /\ acks[w] = {}
  /\ pc' = [pc EXCEPT ![w] = Top(w)]
  /\ beats' = StopBeats(w, Task)
  /\ UNCHANGED <<status, downtimes, batch, acks, runs, loopVars, redisVars>>
-----------------------------------------------------------------------------
(* heartbeatLoop: one tick.  The loop ends when the lease is lost, the     *)
(* call fails, or it has been stopped meanwhile.                           *)
BeatTicks(b, reply) ==
  /\ b \in beats
  /\ IF reply = "none" THEN UNCHANGED redisVars ELSE Heartbeat(b.task, b.lease)
  /\ beats' = IF reply = "ok" /\ leases[b.task] = b.lease /\ ~b.stopped
              THEN beats ELSE beats \ {b}
  /\ UNCHANGED <<status, downtimes, pc, batch, acks, runs, loopVars>>

BeatExits(b) ==
  /\ b \in beats /\ b.stopped
  /\ beats' = beats \ {b}
  /\ UNCHANGED <<status, downtimes, pc, batch, acks, runs, loopVars, redisVars>>
-----------------------------------------------------------------------------
(* recoveryLoop: a scan on the pool's clock, then requeueOrDead for every  *)
(* ID it returned.                                                         *)

Candidates(ready, pending) ==
  IF Skewed THEN SUBSET (ready \cup pending) ELSE {ready}

(* Mutant: recovery stands still while the queue is paused. *)
ExpiredTasksUnpaused == {t \in Task : ~paused /\ inflight[t] = "expired"}

(* ZRANGEBYSCORE inflight -inf now *)
ExpiredTasks == {t \in Task : inflight[t] = "expired"}

FindExpiredTasks(p, found) ==
  /\ status[p] # "down" /\ expired[p] = {} /\ reporting[p] = {}
  /\ found \in Candidates(ExpiredTasks, {t \in Task : inflight[t] = "live"})
  /\ found # {}
  /\ expired' = [expired EXCEPT ![p] = found]
  /\ UNCHANGED <<status, downtimes, workerVars, reporting, due, redisVars>>

RecoverTask(p, t, reply) ==
  /\ status[p] # "down" /\ t \in expired[p] /\ reporting[p] = {}
  /\ IF reply = "none" THEN UNCHANGED redisVars ELSE RequeueOrDead(t, NoLease)
  /\ expired' = [expired EXCEPT ![p] = @ \ {t}]
  /\ reporting' = [reporting EXCEPT ![p] =
       IF reply = "ok" /\ RequeueStatus(t, NoLease) \in {"scheduled", "dead"}
       THEN {t} ELSE {}]
  /\ UNCHANGED <<status, downtimes, workerVars, due>>

RecoveryReports(p) ==
  /\ status[p] # "down" /\ reporting[p] # {}
  /\ reporting' = [reporting EXCEPT ![p] = {}]
  /\ UNCHANGED <<status, downtimes, workerVars, expired, due, redisVars>>

(* promotionLoop *)
FindDueTasks(p, found) ==
  /\ status[p] # "down" /\ due[p] = {}
  /\ found \in Candidates({t \in Task : scheduled[t] = "due"},
                          {t \in Task : scheduled[t] = "waiting"})
  /\ found # {}
  /\ due' = [due EXCEPT ![p] = found]
  /\ UNCHANGED <<status, downtimes, workerVars, expired, reporting, redisVars>>

PromoteDueTask(p, t, reply) ==
  /\ status[p] # "down" /\ t \in due[p]
  /\ IF reply = "none" THEN UNCHANGED redisVars ELSE PromoteTask(t)
  /\ due' = [due EXCEPT ![p] = @ \ {t}]
  /\ UNCHANGED <<status, downtimes, workerVars, expired, reporting>>
-----------------------------------------------------------------------------
(* Stop, and the end of the process. *)

(* Stop: quit is closed; the pool drains. *)
StopPool(p) ==
  /\ status[p] = "up" /\ downtimes < MaxDowntimes
  /\ status' = [status EXCEPT ![p] = "draining"]
  /\ downtimes' = downtimes + 1
  /\ UNCHANGED <<workerVars, loopVars, redisVars>>

(* The process is gone, with whatever its goroutines were doing. *)
Vanish(p) ==
  /\ status' = [status EXCEPT ![p] = "down"]
  /\ pc' = [w \in Worker |-> IF PoolOf[w] = p THEN "exited" ELSE pc[w]]
  /\ batch' = [w \in Worker |-> IF PoolOf[w] = p THEN <<>> ELSE batch[w]]
  /\ acks' = [w \in Worker |-> IF PoolOf[w] = p THEN {} ELSE acks[w]]
  /\ beats' = {b \in beats : PoolOf[b.worker] # p}
  /\ expired' = [expired EXCEPT ![p] = {}]
  /\ reporting' = [reporting EXCEPT ![p] = {}]
  /\ due' = [due EXCEPT ![p] = {}]
  /\ UNCHANGED <<runs, redisVars>>

(* Every goroutine has returned before the drain timeout. *)
Drained(p) ==
  /\ status[p] = "draining"
  /\ \A w \in Worker : PoolOf[w] = p => pc[w] = "exited"
  /\ expired[p] = {} /\ reporting[p] = {} /\ due[p] = {}
  /\ Vanish(p)
  /\ UNCHANGED downtimes

(* The drain timeout passes: the context is cancelled, the process ends. *)
DrainTimesOut(p) ==
  /\ status[p] = "draining"
  /\ Vanish(p)
  /\ UNCHANGED downtimes

Crash(p) ==
  /\ status[p] = "up" /\ downtimes < MaxDowntimes
  /\ Vanish(p)
  /\ downtimes' = downtimes + 1

(* A new process: NewWorkerPool and Start. *)
StartPool(p) ==
  /\ status[p] = "down"
  /\ status' = [status EXCEPT ![p] = "up"]
  /\ pc' = [w \in Worker |-> IF PoolOf[w] = p THEN "idle" ELSE pc[w]]
  /\ UNCHANGED <<downtimes, batch, acks, beats, runs, loopVars, redisVars>>
-----------------------------------------------------------------------------
WorkerStep(w) ==
  \/ \E reply \in PoolReplies, deadline \in {"live", "expired"} :
       ClaimTasks(w, reply, deadline)
  \/ IdlePass(w)
  \/ SkipClaim(w)
  \/ StartHandler(w)
  \/ HandlerSucceeds(w)
  \/ \E reply \in PoolReplies : HandlerFails(w, reply)
  \/ WorkerReports(w)
  \/ \E reply \in PoolReplies : AckTasks(w, reply)
  \/ \E c \in acks[w] : WorkerRecords(w, c)
  \/ FinishBatch(w)

BeatStep(b) ==
  \/ \E reply \in PoolReplies : BeatTicks(b, reply)
  \/ BeatExits(b)

LoopStep(p) ==
  \/ \E found \in SUBSET Task : FindExpiredTasks(p, found)
  \/ \E t \in Task, reply \in PoolReplies : RecoverTask(p, t, reply)
  \/ RecoveryReports(p)
  \/ \E found \in SUBSET Task : FindDueTasks(p, found)
  \/ \E t \in Task, reply \in PoolReplies : PromoteDueTask(p, t, reply)

PoolStep(p) ==
  StopPool(p) \/ Drained(p) \/ DrainTimesOut(p) \/ Crash(p) \/ StartPool(p)

PoolNext ==
  \/ \E w \in Worker : WorkerStep(w)
  \/ \E b \in beats : BeatStep(b)
  \/ \E p \in Pool : LoopStep(p) \/ PoolStep(p)
=============================================================================
