--------------------------- MODULE JournaledQueue ---------------------------
(***************************************************************************)
(* The queue with the journal attached: the gateway and the workers write  *)
(* the journal next to Redis, and the reconciler of every pool rebuilds in *)
(* Redis what the journal has and Redis lost.                              *)
(***************************************************************************)
EXTENDS ForgeQueue, Journal

CONSTANTS
  JournalFails, \* whether statements to the journal may fail
  MaxFlushes,   \* bound: how often Redis may lose its data
  MaxFailures,  \* bound: how often Redis loses its data, a pool goes down or
                \* the gateway gives up on a request
  MaxRepairs    \* bound: how many tasks the reconcilers rebuild

ASSUME ReconcilerAssumption ==
  /\ JournalFails \in BOOLEAN
  /\ MaxFlushes \in Nat
  /\ MaxFailures \in Nat
  /\ MaxRepairs \in Nat

VARIABLES
  verdict,      \* the status of the task each recovery loop is reporting
  noted,        \* workers and pools that have read the body they report on
  page,         \* what is left of each reconciler's page: rows as it read them
  cursor,       \* where the reconciler's next page starts
  flushes,      \* how often Redis has lost its data so far
  repairs       \* number of tasks rebuilt so far

reconcilerVars == <<page, cursor, repairs>>
reportVars     == <<verdict, noted>>
journaledVars  == <<vars, journalVars, reportVars, reconcilerVars, flushes>>

ReconcilerTypeOK ==
  /\ verdict \in [Pool -> {"retrying", "dead"}]
  /\ noted   \in [Worker \cup Pool -> {"no", "found", "missing"}]
  /\ page    \in [Pool -> Seq([task : Task, state : NonTerminal, timed : BOOLEAN])]
  /\ cursor  \in [Pool -> Nat]
  /\ flushes \in Nat
  /\ repairs \in Nat

JournaledInit ==
  /\ Init /\ JournalInit
  /\ verdict = [p \in Pool |-> "dead"]
  /\ noted   = [x \in Worker \cup Pool |-> "no"]
  /\ page    = [p \in Pool |-> <<>>]
  /\ cursor  = [p \in Pool |-> 0]
  /\ flushes = 0
  /\ repairs = 0

(* A best-effort statement: its error is logged and the caller goes on. *)
Record(t, state) ==
  \/ SetState(t, state)
  \/ JournalFails /\ UNCHANGED journalVars
-----------------------------------------------------------------------------
(* The gateway, whose statements are not best effort: it returns the error. *)

JournaledGatewayStep(t) ==
  \/ JournalEnqueue(t) /\ EnqueueRow(t)
  \/ /\ JournalFails /\ gw[t] \in {"new", "queued"}
     /\ gw' = [gw EXCEPT ![t] = "failed"]
     /\ UNCHANGED <<redisVars, journalVars>>
  \/ /\ \/ \E reply \in GatewayReplies : StoreBody(t, reply)
        \/ \E reply \in GatewayReplies, copies \in 1..2 : PushImmediate(t, reply, copies)
        \/ \E reply \in GatewayReplies, score \in {"waiting", "due"} :
             PushScheduled(t, reply, score)
        \/ Materialize(t)
     /\ UNCHANGED journalVars
-----------------------------------------------------------------------------
(* The workers and the recovery loops. *)

(* The steps of a worker that leave the journal alone. *)
UnjournaledStep(w) ==
  \/ \E reply \in PoolReplies, deadline \in {"live", "expired"} :
       ClaimTasks(w, reply, deadline)
  \/ IdlePass(w) \/ SkipClaim(w) \/ HandlerSucceeds(w) \/ FinishBatch(w)
  \/ \E reply \in PoolReplies : HandlerFails(w, reply) \/ AckTasks(w, reply)

(* readTaskForJournal: x has a requeued or dead-lettered task t to report. *)
ReadForJournal(x, t) ==
  /\ noted[x] = "no"
  /\ noted' = [noted EXCEPT ![x] =
       IF body[t] = NoBody \/ t \in Undecodable THEN "missing" ELSE "found"]
  /\ UNCHANGED <<redisVars, poolVars, journalVars, verdict>>

(* reportRetry and reportDead, once the body has been read. *)
Report(x, t, state) ==
  /\ noted[x] # "no"
  /\ noted' = [noted EXCEPT ![x] = "no"]
  /\ IF noted[x] = "found" THEN Record(t, state) ELSE UNCHANGED journalVars
  /\ UNCHANGED verdict

(* Mutants: the script's status as it is; every report is a dead one. *)
WorkerOutcomeRaw(w) == IF pc[w] = "retried" THEN "scheduled" ELSE "dead"
WorkerOutcomeDead(w) == "dead"

WorkerOutcome(w) == IF pc[w] = "retried" THEN "retrying" ELSE "dead"

JournaledWorkerStep(w) ==
  \/ UnjournaledStep(w) /\ UNCHANGED <<journalVars, reportVars>>
  \/ /\ StartHandler(w) /\ Record(Head(batch[w]).task, "processing")
     /\ UNCHANGED reportVars
  \/ /\ pc[w] \in {"retried", "buried"} /\ Alive(w)
     /\ ReadForJournal(w, Head(batch[w]).task)
  \/ WorkerReports(w) /\ Report(w, Head(batch[w]).task, WorkerOutcome(w))
  \/ \E c \in acks[w] : /\ WorkerRecords(w, c) /\ Record(c.task, "succeeded")
                        /\ UNCHANGED reportVars

JournaledLoopStep(p) ==
  \/ /\ \/ \E found \in SUBSET Task : FindExpiredTasks(p, found) \/ FindDueTasks(p, found)
        \/ \E t \in Task, reply \in PoolReplies : PromoteDueTask(p, t, reply)
     /\ UNCHANGED <<journalVars, reportVars>>
  \/ \E t \in Task, reply \in PoolReplies :
       /\ RecoverTask(p, t, reply)
       /\ verdict' = [verdict EXCEPT ![p] =
            IF RequeueStatus(t, NoLease) = "scheduled" THEN "retrying" ELSE "dead"]
       /\ UNCHANGED <<journalVars, noted>>
  \/ status[p] # "down" /\ \E t \in reporting[p] : ReadForJournal(p, t)
  \/ \E t \in reporting[p] : RecoveryReports(p) /\ Report(p, t, verdict[p])

(* Stop cancels the reconciler's context; with the process goes whatever   *)
(* its goroutines had read.                                                *)
JournaledPoolStep(p) ==
  /\ PoolStep(p)
  /\ page' = [page EXCEPT ![p] = <<>>]
  /\ cursor' = [cursor EXCEPT ![p] = 0]
  /\ noted' = [x \in Worker \cup Pool |->
       IF status'[p] = "down" /\ (x = p \/ x \in {w \in Worker : PoolOf[w] = p})
       THEN "no" ELSE noted[x]]
  /\ UNCHANGED <<journalVars, verdict, repairs>>
-----------------------------------------------------------------------------
(* The reconciler *)

(* Active, and the cursor the loop will go on from: the start again after  *)
(* a page that is not full.                                                *)
FetchPage(p) ==
  LET found == Active(cursor[p])
  IN  /\ status[p] = "up" /\ page[p] = <<>>
      /\ found # <<>> \/ cursor[p] # 0
      /\ page' = [page EXCEPT ![p] = [i \in 1..Len(found) |->
           LET t == created[found[i]]
           IN  [task |-> t, state |-> rows[t].state, timed |-> rows[t].timed]]]
      /\ cursor' = [cursor EXCEPT ![p] =
           IF Len(found) < PageSize THEN 0 ELSE found[Len(found)]]
      /\ UNCHANGED <<redisVars, repairs>>

(* Active fails: ReconcileOnce calls the page the last one, and the loop   *)
(* starts over.                                                            *)
FetchFails(p) ==
  /\ JournalFails /\ status[p] = "up" /\ page[p] = <<>> /\ cursor[p] # 0
  /\ cursor' = [cursor EXCEPT ![p] = 0]
  /\ UNCHANGED <<page, redisVars, repairs>>

InRedis(t) ==
  t \in Range(immediate) \/ inflight[t] # "none" \/ scheduled[t] # "none"

(* materializeScript for a task it does not find.  The score of a crashed  *)
(* task is the present; the schedule of another may have passed or not.    *)
RebuildTask(r, score) ==
  /\ body' = [body EXCEPT ![r.task] = 0]
  /\ IF r.state # "processing" /\ ~r.timed
     THEN immediate' = LPush(immediate, r.task) /\ UNCHANGED scheduled
     ELSE scheduled' = [scheduled EXCEPT ![r.task] = score] /\ UNCHANGED immediate
  /\ UNCHANGED <<inflight, leases, dead, paused, issued>>

(* One row of the page: the script, then Materialized. *)
Reconcile(p, reply, score) ==
  LET r == Head(page[p])
      missing == ~InRedis(r.task)
  IN  /\ status[p] = "up" /\ page[p] # <<>>
      /\ r.state = "processing" /\ ~Skewed => score = "due"
      /\ missing => repairs < MaxRepairs
      /\ IF missing /\ reply # "none"
         THEN RebuildTask(r, score) /\ repairs' = repairs + 1
         ELSE UNCHANGED <<redisVars, repairs>>
      /\ page' = [page EXCEPT ![p] = Tail(@)]
      /\ UNCHANGED cursor

ReconcilerStep(p) ==
  \/ FetchPage(p) \/ FetchFails(p)
  \/ \E reply \in PoolReplies, score \in {"waiting", "due"} : Reconcile(p, reply, score)

(* Redis restarts empty. *)
FlushRedis ==
  /\ flushes < MaxFlushes
  /\ flushes' = flushes + 1
  /\ immediate' = <<>>
  /\ inflight'  = [t \in Task |-> "none"]
  /\ leases'    = [t \in Task |-> NoLease]
  /\ scheduled' = [t \in Task |-> "none"]
  /\ dead'      = <<>>
  /\ body'      = [t \in Task |-> NoBody]
  /\ paused'    = FALSE
  /\ UNCHANGED issued
-----------------------------------------------------------------------------
JournaledStep ==
  \/ /\ \E t \in Task : JournaledGatewayStep(t)
     /\ UNCHANGED <<poolVars, reportVars, reconcilerVars, flushes>>
  \/ /\ \E w \in Worker : JournaledWorkerStep(w)
     /\ UNCHANGED <<gw, reconcilerVars, flushes>>
  \/ /\ \E b \in beats : BeatStep(b)
     /\ UNCHANGED <<gw, journalVars, reportVars, reconcilerVars, flushes>>
  \/ /\ \E p \in Pool : JournaledLoopStep(p)
     /\ UNCHANGED <<gw, reconcilerVars, flushes>>
  \/ /\ \E p \in Pool : JournaledPoolStep(p)
     /\ UNCHANGED <<gw, flushes>>
  \/ /\ \E p \in Pool : ReconcilerStep(p)
     /\ UNCHANGED <<gw, poolVars, journalVars, reportVars, flushes>>
  \/ /\ Environment
     /\ UNCHANGED <<gw, poolVars, journalVars, reportVars, reconcilerVars, flushes>>
  \/ /\ FlushRedis
     /\ UNCHANGED <<gw, poolVars, journalVars, reportVars, reconcilerVars>>

Failures == flushes + downtimes + Cardinality({t \in Task : gw[t] = "failed"})

JournaledNext == JournaledStep /\ Failures' <= MaxFailures

JournaledSpec == JournaledInit /\ [][JournaledNext]_journaledVars

(* Time passes, the goroutines of workers and recovery loops that can run  *)
(* do, a pool that is down is restarted, and the reconciler's loop keeps   *)
(* going.                                                                  *)
JournaledFairness ==
  LET others == <<journalVars, reportVars, reconcilerVars, flushes>>
  IN  /\ \A t \in Task :
           /\ WF_journaledVars(UNCHANGED <<gw, poolVars, others>> /\ ComesDue(t))
           /\ WF_journaledVars(UNCHANGED <<gw, poolVars, others>>
                                /\ Unattended(t) /\ LeaseExpires(t))
      /\ \A w \in Worker :
           /\ WF_journaledVars(UNCHANGED <<gw, reconcilerVars, flushes>>
                                /\ JournaledWorkerStep(w))
           /\ WF_journaledVars(UNCHANGED <<gw, others>>
                                /\ \E b \in beats : b.worker = w /\ BeatExits(b))
      /\ \A p \in Pool :
           /\ WF_journaledVars(UNCHANGED <<gw, reconcilerVars, flushes>>
                                /\ JournaledLoopStep(p))
           /\ WF_journaledVars(UNCHANGED <<gw, flushes>>
                                /\ status[p] # "up" /\ JournaledPoolStep(p))
           /\ WF_journaledVars(UNCHANGED <<gw, poolVars, journalVars, reportVars, flushes>>
                                /\ ReconcilerStep(p))

JournaledFairSpec == JournaledSpec /\ JournaledFairness

JournaledTypeOK == TypeOK /\ JournalTypeOK /\ ReconcilerTypeOK
-----------------------------------------------------------------------------
(* What the journal says is over is over: a row is "succeeded" only for a  *)
(* task some handler ran, and "dead" only for a task that is among the     *)
(* dead letters, unless Redis has lost them since.  So no task is dropped  *)
(* from the reconciler's sight before its work is done.                    *)
TerminalRowsAreTrue ==
  \A t \in Task :
    /\ rows[t].state = "succeeded" => runs[t] > 0
    /\ rows[t].state = "dead" => InDead(t) \/ flushes > 0

(* A task the reconciler rebuilds has its whole budget again, the journal  *)
(* keeps no attempts, and no more than that: however claims, failures,     *)
(* expired leases, the gateway's own push and rebuilds interleave, a task  *)
(* is handed to handlers at most max_retries times for its enqueue and     *)
(* max_retries times for every rebuild, if the client resends no push.     *)
BudgetPerRebuild ==
  \A t \in Task :
    MaxRetries[t] > 0 => runs[t] <= MaxRetries[t] * (1 + repairs)

(* A reconciler has found one task more to rebuild than the bound allows.  *)
OutOfRepairs ==
  \E p \in Pool : page[p] # <<>> /\ ~InRedis(Head(page[p]).task) /\ repairs = MaxRepairs

(* A task the journal accepted is settled there some time, although the    *)
(* gateway may give up before Redis has the task, a pool may die anywhere, *)
(* after an ACK and before its record too, and Redis may lose everything   *)
(* at any point.  Behaviours that need more repairs are left out.          *)
JournalSettles ==
  \A t \in Task : rows[t].state # "absent" ~> (Terminal(t) \/ OutOfRepairs)
=============================================================================
