-------------------------- MODULE JournaledProofs ---------------------------
(***************************************************************************)
(* The queue with its journal and reconcilers: the journal's rows against  *)
(* what the workers did.                                                   *)
(***************************************************************************)
EXTENDS JournaledQueue, ForgeQueueProofs

(* Whoever has a success to record has run the handler. *)
Started ==
  \A w \in Worker : /\ \A c \in acks[w] : runs[c.task] > 0
                    /\ Busy(w) => runs[Head(batch[w]).task] > 0

Buried(t) == InDead(t) \/ flushes > 0

(* Whoever has a dead letter to record has seen it written. *)
Burials ==
  /\ \A w \in Worker : pc[w] = "buried" => Buried(Head(batch[w]).task)
  /\ \A p \in Pool : \A t \in reporting[p] : verdict[p] = "dead" => Buried(t)

JournaledInv ==
  /\ LeaseInv /\ JournalTypeOK /\ ReconcilerTypeOK
  /\ Started /\ Burials /\ TerminalRowsAreTrue

USE DEF LeaseInv, TypeInv, TypeOK
-----------------------------------------------------------------------------
(* Rows and counts. *)

(* The row of a new task. *)
LEMMA NewRow == ASSUME NEW t PROVE [state |-> "enqueued", timed |-> t \in Delayed] \in Row
  BY DEF Row, RowState

(* The states that workers record. *)
LEMMA RecordedStates == {"processing", "succeeded"} \subseteq RowState \ {"absent"}
  BY DEF RowState

(* A count that goes up is not zero. *)
LEMMA OneMore == ASSUME NEW n \in Nat PROVE n + 1 > 0
  OBVIOUS
-----------------------------------------------------------------------------
(* Handlers that were started. *)

(* The claims a worker takes from its batch, and the batch's type. *)
LEMMA BatchHead ==
  ASSUME TypeInv, NEW w \in Worker, batch[w] # <<>>
  PROVE  Head(batch[w]) \in Claim /\ Head(batch[w]).task \in Task
<1>1. batch[w] \in Seq(Claim)
  BY DEF PoolTypeOK
<1>2. Head(batch[w]) \in Claim
  BY <1>1, TailFacts
<1>3. QED
  BY <1>2 DEF Claim

(* A worker's step keeps Started. *)
LEMMA WorkerStarted ==
  ASSUME TypeInv, Started, NEW u \in Worker, WorkerStep(u)
  PROVE  Started'
<1>1. /\ pc \in [Worker -> {"idle", "next", "handle", "retried", "buried", "acked", "exited"}]
      /\ batch \in [Worker -> Seq(Claim)] /\ acks \in [Worker -> SUBSET Claim]
      /\ runs \in [Task -> Nat]
  BY DEF PoolTypeOK
<1>2. ASSUME runs' = runs, acks'[u] \subseteq acks[u], ~Busy(u)',
             \A w \in Worker \ {u} : UNCHANGED <<pc[w], batch[w], acks[w]>>
      PROVE  Started'
  BY <1>2 DEF Started, Busy
<1>3. CASE \E reply \in PoolReplies, deadline \in {"live", "expired"} :
             ClaimTasks(u, reply, deadline)
  <2>1. runs' = runs /\ acks' = acks /\ pc'[u] \in {"next", "idle", "exited"}
    BY <1>1, <1>3, TopType DEF ClaimTasks
  <2>2. \A w \in Worker \ {u} : UNCHANGED <<pc[w], batch[w], acks[w]>>
    BY <1>1, <1>3 DEF ClaimTasks
  <2>3. QED
    BY <1>2, <2>1, <2>2 DEF Busy
<1>4. CASE IdlePass(u) \/ FinishBatch(u)
  <2>1. runs' = runs /\ acks' = acks /\ pc'[u] \in {"idle", "exited"}
    BY <1>1, <1>4, TopType DEF IdlePass, FinishBatch
  <2>2. \A w \in Worker \ {u} : UNCHANGED <<pc[w], batch[w], acks[w]>>
    BY <1>1, <1>4 DEF IdlePass, FinishBatch
  <2>3. QED
    BY <1>2, <2>1, <2>2 DEF Busy
<1>5. CASE SkipClaim(u) \/ WorkerReports(u) \/ \E c \in acks[u] : WorkerRecords(u, c)
  <2>1. runs' = runs /\ acks'[u] \subseteq acks[u] /\ pc'[u] \in {"next", "acked"}
    BY <1>1, <1>5 DEF SkipClaim, WorkerReports, WorkerRecords
  <2>2. \A w \in Worker \ {u} : UNCHANGED <<pc[w], batch[w], acks[w]>>
    BY <1>1, <1>5 DEF SkipClaim, WorkerReports, WorkerRecords
  <2>3. QED
    BY <1>2, <2>1, <2>2 DEF Busy
<1>6. CASE \E reply \in PoolReplies : AckTasks(u, reply)
  <2>1. runs' = runs /\ acks'[u] \subseteq acks[u] /\ pc'[u] = "acked"
    BY <1>1, <1>6 DEF AckTasks, Acked
  <2>2. \A w \in Worker \ {u} : UNCHANGED <<pc[w], batch[w], acks[w]>>
    BY <1>1, <1>6 DEF AckTasks
  <2>3. QED
    BY <1>2, <2>1, <2>2 DEF Busy
<1>7. CASE StartHandler(u)
  <2>1. Head(batch[u]).task \in Task
    BY <1>7, BatchHead DEF StartHandler
  <2>2. runs'[Head(batch[u]).task] > 0 /\ \A t \in Task : runs[t] > 0 => runs'[t] > 0
    BY <1>1, <1>7, <2>1 DEF StartHandler
  <2>3. batch' = batch /\ acks' = acks /\ \A w \in Worker \ {u} : pc'[w] = pc[w]
    BY <1>1, <1>7 DEF StartHandler
  <2>4. \A w \in Worker : \A c \in acks[w] : c.task \in Task
    BY <1>1 DEF Claim
  <2>5. \A w \in Worker : Busy(w) => Head(batch[w]).task \in Task
    BY BatchHead DEF WorkerControl
  <2>6. QED
    BY ZenonT(60), <2>2, <2>3, <2>4, <2>5 DEF Started, Busy
<1>8. CASE HandlerSucceeds(u)
  <2>1. Busy(u) /\ runs[Head(batch[u]).task] > 0
    BY <1>8 DEF HandlerSucceeds, Busy, Started
  <2>2. runs' = runs /\ pc'[u] = "next" /\ acks'[u] = acks[u] \cup {Head(batch[u])}
    BY <1>1, <1>8 DEF HandlerSucceeds
  <2>3. \A w \in Worker \ {u} : UNCHANGED <<pc[w], batch[w], acks[w]>>
    BY <1>1, <1>8 DEF HandlerSucceeds
  <2>4. QED
    BY <2>1, <2>2, <2>3 DEF Started, Busy
<1>9. CASE \E reply \in PoolReplies : HandlerFails(u, reply)
  <2>1. Busy(u) /\ runs' = runs /\ acks' = acks
    BY <1>9 DEF HandlerFails, Busy
  <2>2. \A w \in Worker \ {u} : UNCHANGED <<pc[w], batch[w], acks[w]>>
    BY <1>1, <1>9 DEF HandlerFails
  <2>3. Busy(u)' => batch'[u] = batch[u]
    BY <1>1, <1>9 DEF HandlerFails, Busy
  <2>4. QED
    BY ZenonT(60), <2>1, <2>2, <2>3 DEF Started, Busy
<1>10. QED
  BY ZenonT(60), <1>3, <1>4, <1>5, <1>6, <1>7, <1>8, <1>9 DEF WorkerStep

(* So does every other step. *)
LEMMA StartedStep ==
  ASSUME TypeInv, Started, [Next]_vars
  PROVE  Started'
<1>1. ASSUME UNCHANGED <<pc, batch, acks, runs>> PROVE Started'
  BY <1>1 DEF Started, Busy
<1>2. ASSUME NEW p \in Pool, PoolStep(p) PROVE Started'
  <2>1. CASE StopPool(p)
    BY <1>1, <2>1 DEF StopPool, workerVars
  <2>2. CASE StartPool(p)
    BY <2>2 DEF StartPool, Started, Busy, PoolTypeOK
  <2>3. CASE Vanish(p)
    BY <2>3 DEF Vanish, Started, Busy, PoolTypeOK
  <2>4. QED
    BY <1>2, <2>1, <2>2, <2>3 DEF PoolStep, Drained, DrainTimesOut, Crash
<1>3. ASSUME NEW p \in Pool, LoopStep(p) PROVE UNCHANGED <<pc, batch, acks, runs>>
  BY ZenonT(60), <1>3 DEF LoopStep, FindExpiredTasks, RecoverTask, RecoveryReports, FindDueTasks,
              PromoteDueTask, workerVars
<1>4. ASSUME NEW b \in beats, BeatStep(b) PROVE UNCHANGED <<pc, batch, acks, runs>>
  BY <1>4 DEF BeatStep, BeatTicks, BeatExits
<1>5. ASSUME UNCHANGED poolVars PROVE UNCHANGED <<pc, batch, acks, runs>>
  BY <1>5 DEF poolVars, workerVars
<1>6. QED
  BY ZenonT(60), <1>1, <1>2, <1>3, <1>4, <1>5, WorkerStarted DEF Next, PoolNext, vars
-----------------------------------------------------------------------------
(* Dead letters. *)

(* requeueOrDead answers "dead" when it has written the dead letter. *)
LEMMA DeadWritten ==
  ASSUME RedisTypeOK, NEW u \in Task, NEW lease \in Nat, RequeueOrDead(u, lease),
         RequeueStatus(u, lease) = "dead"
  PROVE  \A t \in Task : InDead(t)' <=> (InDead(t) \/ t = u)
<1>1. body[u] \in Nat
  BY DEF RequeueStatus, RedisTypeOK, NoBody
<1>2. Counted(u) \in Nat
  BY <1>1 DEF Counted
<1>3. dead \in Seq(DeadBody) /\ dead' = LPush(dead, [task |-> u, attempts |-> Counted(u)])
  BY DEF RequeueOrDead, RedisTypeOK
<1>4. QED
  BY <1>2, <1>3, DeadPush

(* No step of the queue itself removes a dead letter. *)
LEMMA DeadStays ==
  ASSUME TypeInv, [Next]_vars, NEW t \in Task, InDead(t)
  PROVE  InDead(t)'
<1>1. CASE UNCHANGED dead
  BY <1>1 DEF InDead
<1>2. ASSUME NEW u \in Task, NEW lease \in Nat, RequeueOrDead(u, lease) PROVE InDead(t)'
  <2>1. CASE RequeueStatus(u, lease) = "dead"
    BY ZenonT(60), <1>2, <2>1, DeadWritten
  <2>2. CASE RequeueStatus(u, lease) # "dead"
    BY ZenonT(60), <1>1, <1>2, <2>2 DEF RequeueOrDead
  <2>3. QED
    BY <2>1, <2>2
<1>3. ASSUME NEW u \in Task, GatewayStep(u) PROVE UNCHANGED dead
  BY ZenonT(60), <1>3 DEF GatewayStep, JournalEnqueue, StoreBody, PushImmediate, PushScheduled,
              Materialize, SetBody, PushReady, AddScheduled, redisVars
<1>4. ASSUME Command PROVE UNCHANGED dead \/ \E u \in Task, lease \in Nat : RequeueOrDead(u, lease)
  BY ZenonT(60), <1>4 DEF Command, ClaimBatch, LeaseExpires, ComesDue, PromoteTask, Heartbeat, AckBatch,
              SetPaused, redisVars
<1>5. QED
  BY <1>1, <1>2, <1>3, <1>4, StepIsCommand

(* A worker comes to report a dead letter only from a script that wrote    *)
(* it.                                                                     *)
LEMMA BuriedFrom ==
  ASSUME TypeInv, [Next]_vars, NEW w \in Worker, pc'[w] = "buried"
  PROVE  \/ pc[w] = "buried" /\ batch'[w] = batch[w]
         \/ Head(batch'[w]).task \in Task /\ InDead(Head(batch[w]).task)'
<1>1. /\ pc \in [Worker -> {"idle", "next", "handle", "retried", "buried", "acked", "exited"}]
      /\ batch \in [Worker -> Seq(Claim)]
  BY ZenonT(60) DEF PoolTypeOK
<1>2. CASE UNCHANGED <<pc, batch>>
  BY ZenonT(60), <1>2
<1>3. ASSUME NEW u \in Worker, WorkerStep(u), u # w PROVE UNCHANGED <<pc[w], batch[w]>>
  BY ZenonT(60), <1>1, <1>3 DEF WorkerStep, ClaimTasks, IdlePass, SkipClaim, StartHandler, HandlerSucceeds,
                    HandlerFails, WorkerReports, AckTasks, WorkerRecords, FinishBatch
<1>4. ASSUME NEW reply \in PoolReplies, HandlerFails(w, reply)
      PROVE  Head(batch'[w]).task \in Task /\ InDead(Head(batch[w]).task)'
  <2>1. Busy(w) /\ batch[w] # <<>>
    BY <1>4 DEF HandlerFails, Busy, WorkerControl
  <2>2. PICK c \in Claim : c = Head(batch[w])
    BY <2>1, BatchHead
  <2>3. reply = "ok" /\ RequeueStatus(c.task, c.lease) = "dead"
    <3>1. PICK o : o = IF reply = "ok" THEN RequeueStatus(c.task, c.lease) ELSE "error"
      OBVIOUS
    <3>2. pc' = [pc EXCEPT ![w] = CASE o = "scheduled" -> "retried"
                                    [] o = "dead"      -> "buried"
                                    [] OTHER           -> "next"]
      BY <1>4, <2>2, <3>1 DEF HandlerFails
    <3>3. o = "dead"
      BY <1>1, <3>2
    <3>4. QED
      BY <3>1, <3>3
  <2>4. batch' = batch
    <3>1. RequeueStatus(Head(batch[w]).task, Head(batch[w]).lease) = "dead"
      BY <2>2, <2>3
    <3>2. QED
      BY ZenonT(60), <1>4, <2>3, <3>1 DEF HandlerFails
  <2>5. c.task \in Task /\ c.lease \in Nat
    BY DEF Claim
  <2>6. InDead(c.task)'
    <3>1. RequeueStatus(Head(batch[w]).task, Head(batch[w]).lease) = "dead"
      BY <2>2, <2>3
    <3>2. RequeueOrDead(Head(batch[w]).task, Head(batch[w]).lease)
      BY ZenonT(60), <1>4, <2>3 DEF HandlerFails
    <3>3. \A t \in Task : InDead(t)' <=> (InDead(t) \/ t = Head(batch[w]).task)
      BY ZenonT(60), <2>2, <2>5, <3>1, <3>2, DeadWritten
    <3>4. QED
      BY ZenonT(60), <2>2, <2>5, <3>3
  <2>7. c = Head(batch'[w])
    BY ZenonT(60), <2>2, <2>4
  <2>8. QED
    BY ZenonT(60), <2>5, <2>6, <2>7 DEF InDead
<1>5. ASSUME WorkerStep(w), ~ \E reply \in PoolReplies : HandlerFails(w, reply)
      PROVE  pc[w] = "buried" /\ batch'[w] = batch[w]
  BY ZenonT(60), <1>1, <1>5, TopType DEF WorkerStep, ClaimTasks, IdlePass, SkipClaim, StartHandler,
             HandlerSucceeds, WorkerReports, AckTasks, WorkerRecords, FinishBatch
<1>6. ASSUME NEW p \in Pool, PoolStep(p) PROVE pc[w] = "buried" /\ batch'[w] = batch[w]
  BY ZenonT(60), <1>1, <1>6 DEF PoolStep, StopPool, Drained, DrainTimesOut, Crash, Vanish, StartPool, workerVars
<1>7. ASSUME NEW p \in Pool, LoopStep(p) PROVE UNCHANGED <<pc, batch>>
  BY ZenonT(60), <1>7 DEF LoopStep, FindExpiredTasks, RecoverTask, RecoveryReports, FindDueTasks,
              PromoteDueTask, workerVars
<1>8. ASSUME NEW b \in beats, BeatStep(b) PROVE UNCHANGED <<pc, batch>>
  BY <1>8 DEF BeatStep, BeatTicks, BeatExits
<1>9. ASSUME UNCHANGED poolVars PROVE UNCHANGED <<pc, batch>>
  BY ZenonT(60), <1>9 DEF poolVars, workerVars
<1>10. ASSUME NEW u \in Worker, WorkerStep(u)
       PROVE  \/ pc[w] = "buried" /\ batch'[w] = batch[w]
              \/ Head(batch'[w]).task \in Task /\ InDead(Head(batch[w]).task)'
  BY ZenonT(60), <1>3, <1>4, <1>5, <1>10
<1>11. QED
  BY ZenonT(60), <1>2, <1>6, <1>7, <1>8, <1>9, <1>10 DEF Next, PoolNext, vars

(* What a step of the journaled queue does to the queue itself. *)
LEMMA JournaledMoves ==
  ASSUME JournaledStep
  PROVE  \/ [Next]_vars /\ UNCHANGED flushes
         \/ UNCHANGED <<redisVars, poolVars, flushes>> /\ \E t \in Task : gw' = [gw EXCEPT ![t] = "failed"]
         \/ (\E p \in Pool : ReconcilerStep(p)) /\ UNCHANGED <<gw, poolVars, flushes>>
         \/ FlushRedis /\ UNCHANGED <<gw, poolVars>>
<1>1. ASSUME NEW t \in Task, JournaledGatewayStep(t), UNCHANGED poolVars
      PROVE  Next \/ (UNCHANGED redisVars /\ gw' = [gw EXCEPT ![t] = "failed"])
  BY <1>1 DEF JournaledGatewayStep, Next, GatewayStep
<1>2. ASSUME NEW w \in Worker, JournaledWorkerStep(w), UNCHANGED gw PROVE [Next]_vars
  <2>1. WorkerStep(w) \/ UNCHANGED <<redisVars, poolVars>>
    BY <1>2 DEF JournaledWorkerStep, UnjournaledStep, ReadForJournal, WorkerStep
  <2>2. QED
    BY ZenonT(60), <1>2, <2>1 DEF Next, PoolNext, vars
<1>3. ASSUME NEW p \in Pool, JournaledLoopStep(p), UNCHANGED gw PROVE [Next]_vars
  <2>1. LoopStep(p) \/ UNCHANGED <<redisVars, poolVars>>
    BY ZenonT(60), <1>3 DEF JournaledLoopStep, ReadForJournal, LoopStep
  <2>2. QED
    BY ZenonT(60), <1>3, <2>1 DEF Next, PoolNext, vars
<1>4. ASSUME NEW p \in Pool, JournaledPoolStep(p), UNCHANGED gw PROVE Next
  BY ZenonT(60), <1>4 DEF JournaledPoolStep, Next, PoolNext
<1>5. ASSUME NEW b \in beats, BeatStep(b), UNCHANGED gw PROVE Next
  BY <1>5 DEF Next, PoolNext
<1>6. QED
  BY ZenonT(60), <1>1, <1>2, <1>3, <1>4, <1>5 DEF JournaledStep, Next
-----------------------------------------------------------------------------
(* The journal. *)

(* setState changes the state of one row, and only of one there is. *)
LEMMA RecordRow ==
  ASSUME JournalTypeOK, NEW t \in Task, NEW state \in RowState \ {"absent"}, Record(t, state)
  PROVE  /\ JournalTypeOK'
         /\ \A x \in Task : rows'[x].state = rows[x].state \/ (x = t /\ rows'[x].state = state)
<1>1. rows \in [Task -> Row] /\ created \in Seq(Task)
  BY DEF JournalTypeOK
<1>2. CASE UNCHANGED journalVars
  BY <1>1, <1>2 DEF journalVars, JournalTypeOK
<1>3. CASE SetState(t, state)
  <2> DEFINE new == IF rows[t].state = "absent" THEN rows[t]
                    ELSE [state |-> state, timed |-> rows[t].timed \/ state = "retrying"]
  <2>1. rows[t] \in Row /\ rows' = [rows EXCEPT ![t] = new] /\ created' = created
    BY <1>1, <1>3 DEF SetState
  <2>2. new \in Row /\ (new.state = rows[t].state \/ new.state = state)
    BY <2>1 DEF Row, RowState
  <2> HIDE DEF new
  <2>3. rows' \in [Task -> Row]
    BY <1>1, <2>1, <2>2
  <2>4. \A x \in Task : rows'[x] = IF x = t THEN new ELSE rows[x]
    BY <1>1, <2>1
  <2>5. QED
    BY ZenonT(60), <1>1, <2>1, <2>2, <2>3, <2>4 DEF JournalTypeOK
<1>4. QED
  BY <1>2, <1>3 DEF Record

(* What a report writes. *)
LEMMA ReportRow ==
  ASSUME JournalTypeOK, ReconcilerTypeOK, NEW y \in Worker \cup Pool, NEW t \in Task,
         NEW state \in RowState \ {"absent"}, Report(y, t, state)
  PROVE  /\ JournalTypeOK'
         /\ noted' \in [Worker \cup Pool -> {"no", "found", "missing"}] /\ verdict' = verdict
         /\ \A x \in Task : rows'[x].state = rows[x].state \/ (x = t /\ rows'[x].state = state)
<1>1. CASE Record(t, state)
  BY <1>1, RecordRow DEF Report, ReconcilerTypeOK
<1>2. CASE UNCHANGED journalVars
  BY ZenonT(60), <1>2 DEF Report, ReconcilerTypeOK, journalVars, JournalTypeOK
<1>3. QED
  BY <1>1, <1>2 DEF Report

(* The rows of the steps that are not the gateway's. *)
LEMMA WorkerRows ==
  ASSUME TypeInv, JournalTypeOK, ReconcilerTypeOK, Started, Burials,
         NEW w \in Worker, JournaledWorkerStep(w)
  PROVE  /\ JournalTypeOK'
         /\ noted' \in [Worker \cup Pool -> {"no", "found", "missing"}] /\ verdict' = verdict
         /\ \A x \in Task : /\ rows'[x].state = "succeeded" => rows[x].state = "succeeded" \/ runs[x] > 0
                            /\ rows'[x].state = "dead" => rows[x].state = "dead" \/ Buried(x)
<1>1. noted \in [Worker \cup Pool -> {"no", "found", "missing"}]
  BY DEF ReconcilerTypeOK
<1>2. CASE UnjournaledStep(w) /\ UNCHANGED <<journalVars, reportVars>>
  BY ZenonT(60), <1>1, <1>2 DEF journalVars, reportVars, JournalTypeOK
<1>3. CASE /\ StartHandler(w) /\ Record(Head(batch[w]).task, "processing") /\ UNCHANGED reportVars
  <2>1. Head(batch[w]).task \in Task
    BY ZenonT(60), <1>3, BatchHead DEF StartHandler
  <2>2. "processing" \in RowState \ {"absent"} /\ Record(Head(batch[w]).task, "processing")
    BY ZenonT(60), <1>3, RecordedStates
  <2>3. /\ JournalTypeOK'
        /\ \A x \in Task : rows'[x].state = rows[x].state \/ rows'[x].state = "processing"
    BY ZenonT(60), <2>1, <2>2, RecordRow
  <2>4. noted' = noted /\ verdict' = verdict
    BY ZenonT(60), <1>3 DEF reportVars
  <2>5. QED
    BY ZenonT(60), <1>1, <2>3, <2>4
<1>4. CASE /\ pc[w] \in {"retried", "buried"} /\ Alive(w) /\ ReadForJournal(w, Head(batch[w]).task)
  BY ZenonT(60), <1>1, <1>4 DEF ReadForJournal, journalVars, JournalTypeOK
<1>5. CASE WorkerReports(w) /\ Report(w, Head(batch[w]).task, WorkerOutcome(w))
  <2>1. Busy(w) /\ batch[w] # <<>>
    BY <1>5 DEF WorkerReports, Busy, WorkerControl
  <2>2. Head(batch[w]).task \in Task
    BY <2>1, BatchHead
  <2>3. WorkerOutcome(w) \in RowState \ {"absent", "succeeded"}
    BY ZenonT(60) DEF WorkerOutcome, RowState
  <2>4. WorkerOutcome(w) = "dead" => Buried(Head(batch[w]).task)
    BY ZenonT(60), <1>5 DEF WorkerReports, WorkerOutcome, Burials
  <2>5. QED
    <3>1. /\ JournalTypeOK'
          /\ noted' \in [Worker \cup Pool -> {"no", "found", "missing"}] /\ verdict' = verdict
          /\ \A x \in Task : \/ rows'[x].state = rows[x].state
                             \/ x = Head(batch[w]).task /\ rows'[x].state = WorkerOutcome(w)
      <4>1. w \in Worker \cup Pool /\ WorkerOutcome(w) \in RowState \ {"absent"}
        BY <2>3
      <4> DEFINE t == Head(batch[w]).task
                 o == WorkerOutcome(w)
      <4>2. t \in Task /\ o \in RowState \ {"absent"} /\ Report(w, t, o)
        BY ZenonT(60), <1>5, <2>2, <4>1
      <4> HIDE DEF t, o
      <4>3. /\ JournalTypeOK'
            /\ noted' \in [Worker \cup Pool -> {"no", "found", "missing"}] /\ verdict' = verdict
            /\ \A x \in Task : rows'[x].state = rows[x].state \/ (x = t /\ rows'[x].state = o)
        BY ZenonT(60), <4>1, <4>2, ReportRow
      <4>4. QED
        BY ZenonT(60), <4>3 DEF t, o
    <3>2. QED
      BY ZenonT(60), <2>3, <2>4, <3>1
<1>6. ASSUME NEW c \in acks[w], Record(c.task, "succeeded"), UNCHANGED reportVars
      PROVE  /\ JournalTypeOK'
             /\ noted' = noted /\ verdict' = verdict
             /\ \A x \in Task :
                  /\ rows'[x].state = "succeeded" => rows[x].state = "succeeded" \/ runs[x] > 0
                  /\ rows'[x].state = "dead" => rows[x].state = "dead" \/ Buried(x)
  <2>1. c.task \in Task /\ runs[c.task] > 0
    BY DEF PoolTypeOK, Claim, Started
  <2>2. "succeeded" \in RowState \ {"absent"}
    BY ZenonT(60), RecordedStates
  <2>3. /\ JournalTypeOK'
        /\ \A x \in Task : \/ rows'[x].state = rows[x].state
                           \/ x = c.task /\ rows'[x].state = "succeeded"
    BY ZenonT(60), <1>6, <2>1, <2>2, RecordRow
  <2>4. noted' = noted /\ verdict' = verdict
    BY ZenonT(60), <1>6 DEF reportVars
  <2>5. QED
    BY ZenonT(60), <2>1, <2>3, <2>4
<1>7. QED
  BY ZenonT(60), <1>1, <1>2, <1>3, <1>4, <1>5, <1>6 DEF JournaledWorkerStep

(* The same for the loops; a verdict of "dead" comes with its dead letter. *)
LEMMA LoopRows ==
  ASSUME TypeInv, JournalTypeOK, ReconcilerTypeOK, Burials,
         NEW p \in Pool, JournaledLoopStep(p)
  PROVE  /\ JournalTypeOK'
         /\ noted' \in [Worker \cup Pool -> {"no", "found", "missing"}]
         /\ verdict' \in [Pool -> {"retrying", "dead"}]
         /\ \A x \in Task : /\ rows'[x].state = "succeeded" => rows[x].state = "succeeded"
                            /\ rows'[x].state = "dead" => rows[x].state = "dead" \/ Buried(x)
         /\ \A q \in Pool : \A t \in reporting'[q] :
              verdict'[q] = "dead" =>
                t \in Task /\ (InDead(t)' \/ (t \in reporting[q] /\ verdict[q] = "dead"))
<1>1. /\ noted \in [Worker \cup Pool -> {"no", "found", "missing"}]
      /\ verdict \in [Pool -> {"retrying", "dead"}]
      /\ reporting \in [Pool -> SUBSET Task]
  BY DEF ReconcilerTypeOK, PoolTypeOK
<1>2. CASE /\ \/ \E found \in SUBSET Task : FindExpiredTasks(p, found) \/ FindDueTasks(p, found)
              \/ \E t \in Task, reply \in PoolReplies : PromoteDueTask(p, t, reply)
           /\ UNCHANGED <<journalVars, reportVars>>
  <2>1. reporting' = reporting
    BY ZenonT(60), <1>2 DEF FindExpiredTasks, FindDueTasks, PromoteDueTask
  <2>2. QED
    BY ZenonT(60), <1>1, <1>2, <2>1 DEF journalVars, reportVars, JournalTypeOK
<1>3. ASSUME NEW t \in Task, NEW reply \in PoolReplies, RecoverTask(p, t, reply),
             verdict' = [verdict EXCEPT ![p] =
               IF RequeueStatus(t, NoLease) = "scheduled" THEN "retrying" ELSE "dead"],
             UNCHANGED <<journalVars, noted>>
      PROVE  /\ verdict' \in [Pool -> {"retrying", "dead"}]
             /\ \A q \in Pool : \A u \in reporting'[q] :
                  verdict'[q] = "dead" =>
                    u \in Task /\ (InDead(u)' \/ (u \in reporting[q] /\ verdict[q] = "dead"))
  <2>1. \A q \in Pool \ {p} : verdict'[q] = verdict[q] /\ reporting'[q] = reporting[q]
    BY <1>1, <1>3 DEF RecoverTask
  <2>2. ASSUME NEW u \in reporting'[p], verdict'[p] = "dead" PROVE u \in Task /\ InDead(u)'
    <3>1. u = t /\ reply = "ok" /\ RequeueStatus(t, NoLease) = "dead"
      BY ZenonT(60), <1>1, <1>3, <2>2 DEF RecoverTask
    <3>2. RequeueOrDead(t, NoLease) /\ NoLease \in Nat
      BY <1>3, <3>1 DEF RecoverTask, NoLease
    <3>3. QED
      BY ZenonT(60), <3>1, <3>2, DeadWritten
  <2>3. verdict' \in [Pool -> {"retrying", "dead"}]
    BY ZenonT(60), <1>1, <1>3
  <2>4. QED
    BY <1>1, <2>1, <2>2, <2>3
<1>4. ASSUME NEW t \in reporting[p], ReadForJournal(p, t)
      PROVE  /\ UNCHANGED <<reporting, verdict, journalVars>>
             /\ noted' \in [Worker \cup Pool -> {"no", "found", "missing"}]
  BY ZenonT(60), <1>1, <1>4 DEF ReadForJournal, poolVars, loopVars
<1>5. ASSUME NEW t \in reporting[p], RecoveryReports(p), Report(p, t, verdict[p])
      PROVE  /\ JournalTypeOK' /\ verdict' = verdict
             /\ noted' \in [Worker \cup Pool -> {"no", "found", "missing"}]
             /\ \A x \in Task : /\ rows'[x].state = "succeeded" => rows[x].state = "succeeded"
                                /\ rows'[x].state = "dead" => rows[x].state = "dead" \/ Buried(x)
             /\ \A q \in Pool : reporting'[q] \subseteq reporting[q]
  <2>1. t \in Task /\ verdict[p] \in RowState \ {"absent", "succeeded"}
    BY <1>1 DEF RowState
  <2>2. verdict[p] = "dead" => Buried(t)
    BY DEF Burials
  <2>3. \A q \in Pool : reporting'[q] \subseteq reporting[q]
    BY <1>1, <1>5 DEF RecoveryReports
  <2>4. QED
    <3> DEFINE o == verdict[p]
    <3>1. o \in RowState \ {"absent"} /\ Report(p, t, o) /\ p \in Worker \cup Pool
      BY ZenonT(60), <1>5, <2>1
    <3> HIDE DEF o
    <3>2. /\ JournalTypeOK' /\ verdict' = verdict
          /\ noted' \in [Worker \cup Pool -> {"no", "found", "missing"}]
          /\ \A x \in Task : rows'[x].state = rows[x].state \/ (x = t /\ rows'[x].state = o)
      BY ZenonT(60), <2>1, <3>1, ReportRow
    <3>3. QED
      BY ZenonT(60), <2>1, <2>2, <2>3, <3>2 DEF o
<1>6. CASE \E t \in Task, reply \in PoolReplies :
             /\ RecoverTask(p, t, reply)
             /\ verdict' = [verdict EXCEPT ![p] =
                  IF RequeueStatus(t, NoLease) = "scheduled" THEN "retrying" ELSE "dead"]
             /\ UNCHANGED <<journalVars, noted>>
  BY ZenonT(60), <1>1, <1>3, <1>6 DEF journalVars, JournalTypeOK
<1>7. CASE \E t \in reporting[p] : ReadForJournal(p, t)
  BY ZenonT(60), <1>1, <1>4, <1>7 DEF journalVars, JournalTypeOK
<1>8. CASE \E t \in reporting[p] : RecoveryReports(p) /\ Report(p, t, verdict[p])
  BY ZenonT(60), <1>1, <1>5, <1>8
<1>9. QED
  BY ZenonT(60), <1>2, <1>6, <1>7, <1>8 DEF JournaledLoopStep
-----------------------------------------------------------------------------
(* The reconciler. *)

(* A page holds rows that are not settled. *)
LEMMA ActiveRows ==
  ASSUME JournalTypeOK, NEW n \in Nat
  PROVE  /\ Active(n) \in Seq(Nat)
         /\ \A i \in 1..Len(Active(n)) : /\ Active(n)[i] \in DOMAIN created
                                         /\ rows[created[Active(n)[i]]].state \in NonTerminal
<1> DEFINE ids == [i \in DOMAIN created |-> i]
           behind == {i \in DOMAIN created : i > n /\ rows[created[i]].state \in NonTerminal}
           active == Filter(ids, behind)
           m == IF PageSize < Len(active) THEN PageSize ELSE Len(active)
           cut == SubSeq(active, 1, m)
<1>1. Len(created) \in Nat /\ DOMAIN created = 1..Len(created)
  BY SeqFacts DEF JournalTypeOK
<1>2. ids \in Seq(Nat)
  BY <1>1
<1>3. Active(n) = cut
  BY DEF Active
<1> HIDE DEF ids, behind
<1>4. active \in Seq(Nat) /\ Range(active) \subseteq behind
  BY <1>2, FilterProperties
<1> HIDE DEF active
<1>5. m \in 0..Len(active) /\ Len(active) \in Nat /\ DOMAIN active = 1..Len(active)
  BY <1>4, SeqFacts, JournalAssumption
<1> HIDE DEF m
<1>6. cut \in Seq(Nat) /\ Len(cut) = m /\ \A i \in 1..m : cut[i] = active[i]
  BY ZenonT(60), <1>4, <1>5, PrefixAndSuffix
<1> HIDE DEF cut
<1>7. ASSUME NEW i \in 1..m PROVE cut[i] \in behind
  <2>1. i \in DOMAIN active
    BY <1>5
  <2>2. QED
    BY <1>4, <1>6, <2>1 DEF Range
<1>8. QED
  BY ZenonT(60), <1>3, <1>6, <1>7 DEF behind

(* The reconciler writes well-formed tasks, never a lease and never a dead *)
(* letter.                                                                 *)
LEMMA ReconcilerKeys ==
  ASSUME LeaseInv, JournalTypeOK, ReconcilerTypeOK, NEW p \in Pool, ReconcilerStep(p)
  PROVE  /\ RedisTypeOK' /\ LeaseTableAgrees' /\ dead' = dead
         /\ page' \in [Pool -> Seq([task : Task, state : NonTerminal, timed : BOOLEAN])]
         /\ cursor' \in [Pool -> Nat] /\ repairs' \in Nat
<1> DEFINE R == [task : Task, state : NonTerminal, timed : BOOLEAN]
<1>1. /\ page \in [Pool -> Seq(R)] /\ cursor \in [Pool -> Nat] /\ repairs \in Nat
      /\ RedisTypeOK /\ LeaseTableAgrees
  BY ZenonT(60) DEF ReconcilerTypeOK
<1>2. ASSUME UNCHANGED redisVars PROVE RedisTypeOK' /\ LeaseTableAgrees' /\ dead' = dead
  BY ZenonT(60), <1>1, <1>2 DEF redisVars, RedisTypeOK, LeaseTableAgrees
<1>3. CASE FetchPage(p)
  <2>1. PICK found : found = Active(cursor[p])
    OBVIOUS
  <2>2. /\ found \in Seq(Nat) /\ Len(found) \in Nat /\ DOMAIN found = 1..Len(found)
        /\ \A i \in 1..Len(found) : /\ found[i] \in DOMAIN created
                                    /\ rows[created[found[i]]].state \in NonTerminal
    <3>1. cursor[p] \in Nat
      BY <1>1
    <3>2. found \in Seq(Nat)
      BY <2>1, <3>1, ActiveRows
    <3>3. QED
      BY ZenonT(60), <2>1, <3>1, <3>2, ActiveRows, SeqFacts
  <2> DEFINE new == [i \in 1..Len(found) |->
                       [task |-> created[found[i]], state |-> rows[created[found[i]]].state,
                        timed |-> rows[created[found[i]]].timed]]
             next == IF Len(found) < PageSize THEN 0 ELSE found[Len(found)]
  <2>3. page' = [page EXCEPT ![p] = new] /\ cursor' = [cursor EXCEPT ![p] = next]
    BY ZenonT(60), <1>3, <2>1 DEF FetchPage
  <2>4. new \in Seq(R)
    <3>1. ASSUME NEW i \in 1..Len(found) PROVE new[i] \in R
      <4>1. created[found[i]] \in Task
        BY <2>2 DEF JournalTypeOK
      <4>2. rows[created[found[i]]] \in Row /\ rows[created[found[i]]].state \in NonTerminal
        BY ZenonT(60), <2>2, <4>1 DEF JournalTypeOK
      <4>3. QED
        BY ZenonT(60), <4>1, <4>2 DEF Row
    <3>2. new = [i \in 1..Len(found) |-> new[i]]
      OBVIOUS
    <3> HIDE DEF new, R
    <3>3. QED
      BY <2>2, <3>1, <3>2
  <2>5. next \in Nat
    <3>1. CASE Len(found) < PageSize
      BY ZenonT(60), <3>1
    <3>2. CASE ~(Len(found) < PageSize)
      <4>1. Len(found) \in 1..Len(found)
        BY <2>2, <3>2, JournalAssumption
      <4>2. QED
        BY <2>2, <3>2, <4>1
    <3>3. QED
      BY <3>1, <3>2
  <2> HIDE DEF new, next, R
  <2>6. page' \in [Pool -> Seq(R)] /\ cursor' \in [Pool -> Nat]
    BY ZenonT(60), <1>1, <2>3, <2>4, <2>5
  <2>7. QED
    BY ZenonT(60), <1>1, <1>2, <1>3, <2>6 DEF FetchPage, R
<1>4. ASSUME NEW reply \in PoolReplies, NEW score \in {"waiting", "due"}, Reconcile(p, reply, score)
      PROVE  /\ RedisTypeOK' /\ LeaseTableAgrees' /\ dead' = dead
             /\ page' \in [Pool -> Seq(R)] /\ cursor' \in [Pool -> Nat] /\ repairs' \in Nat
  <2>1. page[p] \in Seq(R) /\ page[p] # <<>>
    BY ZenonT(60), <1>1, <1>4 DEF Reconcile
  <2>2. Head(page[p]) \in R /\ Tail(page[p]) \in Seq(R)
    <3> HIDE DEF R
    <3> QED
      BY <2>1, TailFacts
  <2>3. PICK r \in R : r = Head(page[p])
    BY <2>2
  <2>4. r.task \in Task
    OBVIOUS
  <2>5. page' = [page EXCEPT ![p] = Tail(page[p])] /\ cursor' = cursor /\ repairs' \in Nat
    BY <1>1, <1>4 DEF Reconcile
  <2>6. CASE RebuildTask(Head(page[p]), score)
    <3>1. /\ body' = [body EXCEPT ![r.task] = 0]
          /\ UNCHANGED <<inflight, leases, dead, paused, issued>>
          /\ \/ immediate' = LPush(immediate, r.task) /\ UNCHANGED scheduled
             \/ scheduled' = [scheduled EXCEPT ![r.task] = score] /\ UNCHANGED immediate
      BY ZenonT(60), <2>3, <2>6 DEF RebuildTask
    <3>2. LPush(immediate, r.task) \in Seq(Task)
      BY ZenonT(60), <1>1, <2>4, LPushProperties DEF RedisTypeOK
    <3>3. body' \in [Task -> Nat \cup {NoBody}] /\ scheduled' \in [Task -> {"none", "waiting", "due"}]
      <4>1. body \in [Task -> Nat \cup {NoBody}] /\ scheduled \in [Task -> {"none", "waiting", "due"}]
        BY <1>1 DEF RedisTypeOK
      <4>2. body' \in [Task -> Nat \cup {NoBody}]
        BY ZenonT(60), <2>4, <3>1, <4>1
      <4>3. scheduled' = scheduled \/ scheduled' = [scheduled EXCEPT ![r.task] = score]
        BY <3>1
      <4>4. QED
        BY ZenonT(60), <2>4, <4>1, <4>2, <4>3
    <3>4. QED
      BY ZenonT(60), <1>1, <2>2, <2>5, <3>1, <3>2, <3>3 DEF RedisTypeOK, LeaseTableAgrees
  <2>7. CASE UNCHANGED redisVars
    <3> HIDE DEF R
    <3> QED
      BY ZenonT(60), <1>1, <1>2, <2>2, <2>5, <2>7
  <2>8. QED
    BY ZenonT(60), <1>4, <2>6, <2>7 DEF Reconcile
<1>5. CASE FetchFails(p)
  <2> HIDE DEF R
  <2>1. cursor' = [cursor EXCEPT ![p] = 0] /\ 0 \in Nat /\ UNCHANGED <<page, redisVars, repairs>>
    BY ZenonT(60), <1>5 DEF FetchFails
  <2>2. QED
    BY ZenonT(60), <1>1, <1>2, <2>1 DEF R
<1>6. QED
  BY ZenonT(60), <1>3, <1>4, <1>5 DEF ReconcilerStep
-----------------------------------------------------------------------------
(* The inductive invariant. *)

(* The queue's own part of it. *)
LEMMA JournaledLeases ==
  ASSUME JournaledInv, JournaledStep
  PROVE  LeaseInv' /\ Started'
<1>1. LeaseInv /\ JournalTypeOK /\ ReconcilerTypeOK /\ Started
  BY ZenonT(60) DEF JournaledInv
<1>2. ASSUME UNCHANGED poolVars PROVE (PoolTypeOK /\ WorkerControl /\ Started)'
  BY <1>1, <1>2 DEF PoolTypeOK, WorkerControl, Busy, Started, poolVars, workerVars, loopVars
<1>3. ASSUME [Next]_vars PROVE LeaseInv' /\ Started'
  <2>1. LeaseInv'
    BY ZenonT(60), <1>1, <1>3, LeaseStep
  <2>2. Started'
    BY ZenonT(60), <1>1, <1>3, StartedStep
  <2>3. QED
    BY <2>1, <2>2
<1>4. ASSUME UNCHANGED <<redisVars, poolVars>>, NEW t \in Task, gw' = [gw EXCEPT ![t] = "failed"]
      PROVE  LeaseInv' /\ Started'
  <2>1. RedisTypeOK' /\ LeaseTableAgrees'
    BY <1>1, <1>4 DEF redisVars, RedisTypeOK, LeaseTableAgrees
  <2>2. GatewayTypeOK'
    BY <1>1, <1>4 DEF GatewayTypeOK, GatewayState
  <2>3. QED
    BY ZenonT(60), <1>2, <1>4, <2>1, <2>2
<1>5. ASSUME NEW p \in Pool, ReconcilerStep(p), UNCHANGED <<gw, poolVars>>
      PROVE  LeaseInv' /\ Started'
  <2>1. RedisTypeOK' /\ LeaseTableAgrees'
    BY <1>1, <1>5, ReconcilerKeys
  <2>2. GatewayTypeOK'
    BY <1>1, <1>5 DEF GatewayTypeOK
  <2>3. QED
    BY ZenonT(60), <1>2, <1>5, <2>1, <2>2
<1>6. ASSUME FlushRedis, UNCHANGED <<gw, poolVars>> PROVE LeaseInv' /\ Started'
  <2>1. RedisTypeOK' /\ LeaseTableAgrees'
    <3>1. /\ immediate' = <<>> /\ dead' = <<>> /\ paused' = FALSE /\ issued' = issued
          /\ inflight' = [t \in Task |-> "none"] /\ leases' = [t \in Task |-> NoLease]
          /\ scheduled' = [t \in Task |-> "none"] /\ body' = [t \in Task |-> NoBody]
      BY <1>6 DEF FlushRedis
    <3>2. paused' \in BOOLEAN /\ issued' \in [Task -> Nat]
      BY Zenon, <1>1, <3>1 DEF RedisTypeOK
    <3>3. RedisTypeOK'
      BY <3>1, <3>2 DEF RedisTypeOK, NoLease
    <3>4. LeaseTableAgrees'
      BY <3>1 DEF LeaseTableAgrees
    <3>5. QED
      BY ZenonT(60), <3>3, <3>4
  <2>2. GatewayTypeOK'
    BY ZenonT(60), <1>1, <1>6 DEF GatewayTypeOK
  <2>3. QED
    BY ZenonT(60), <1>2, <1>6, <2>1, <2>2
<1>7. QED
  BY ZenonT(60), <1>3, <1>4, <1>5, <1>6, JournaledMoves

(* A dead letter stays until Redis loses its data. *)
LEMMA BuriedStays ==
  ASSUME JournaledInv, JournaledStep, NEW t \in Task, Buried(t)
  PROVE  Buried(t)'
<1>1. TypeInv /\ LeaseInv /\ JournalTypeOK /\ ReconcilerTypeOK /\ flushes \in Nat
  BY ZenonT(60) DEF JournaledInv, ReconcilerTypeOK
<1>2. CASE [Next]_vars /\ UNCHANGED flushes
  BY <1>1, <1>2, DeadStays DEF Buried
<1>3. CASE UNCHANGED <<dead, flushes>>
  BY <1>3 DEF Buried, InDead
<1>4. CASE FlushRedis
  BY <1>1, <1>4 DEF Buried, FlushRedis
<1>5. ASSUME NEW p \in Pool, ReconcilerStep(p) PROVE UNCHANGED dead
  BY ZenonT(60), <1>1, <1>5, ReconcilerKeys
<1>6. QED
  BY ZenonT(60), <1>2, <1>3, <1>4, <1>5, JournaledMoves DEF redisVars

(* Burials. *)
LEMMA JournaledBurials ==
  ASSUME JournaledInv, JournaledStep
  PROVE  Burials'
<1>1. TypeInv /\ JournalTypeOK /\ ReconcilerTypeOK /\ Started /\ Burials
  BY ZenonT(60) DEF JournaledInv
<1>2. ASSUME NEW w \in Worker, pc'[w] = "buried" PROVE Buried(Head(batch[w]).task)'
  <2>1. CASE [Next]_vars
    <3>1. CASE pc[w] = "buried" /\ batch'[w] = batch[w]
      <4>1. batch[w] # <<>>
        BY ZenonT(60), <1>1, <3>1 DEF WorkerControl, Busy
      <4>2. PICK t \in Task : t = Head(batch[w]).task
        BY ZenonT(60), <1>1, <4>1, BatchHead
      <4>3. Buried(t)'
        BY ZenonT(60), <1>1, <3>1, <4>2, BuriedStays DEF Burials
      <4>4. QED
        BY ZenonT(60), <3>1, <4>2, <4>3 DEF Buried, InDead
    <3>2. CASE InDead(Head(batch[w]).task)'
      BY <3>2 DEF Buried
    <3>3. QED
      BY ZenonT(60), <1>1, <1>2, <2>1, <3>1, <3>2, BuriedFrom
  <2>2. CASE UNCHANGED poolVars
    <3>1. pc[w] = "buried" /\ batch'[w] = batch[w]
      BY ZenonT(60), <1>2, <2>2 DEF poolVars, workerVars
    <3>2. batch[w] # <<>>
      BY ZenonT(60), <1>1, <3>1 DEF WorkerControl, Busy
    <3>3. PICK t \in Task : t = Head(batch[w]).task
      BY <1>1, <3>2, BatchHead
    <3>4. Buried(t)'
      BY ZenonT(60), <1>1, <3>1, <3>3, BuriedStays DEF Burials
    <3>5. QED
      BY ZenonT(60), <3>1, <3>3, <3>4 DEF Buried, InDead
  <2>3. QED
    BY ZenonT(60), <2>1, <2>2, JournaledMoves
<1>3. ASSUME NEW q \in Pool, NEW t \in reporting'[q], verdict'[q] = "dead" PROVE Buried(t)'
  <2>1. CASE t \in reporting[q] /\ verdict[q] = "dead"
    <3>1. t \in Task
      BY <1>1, <2>1 DEF PoolTypeOK
    <3>2. QED
      BY ZenonT(60), <1>1, <2>1, <3>1, BuriedStays DEF Burials
  <2>2. CASE InDead(t)'
    BY ZenonT(60), <2>2 DEF Buried
  <2>3. ASSUME NEW p \in Pool, JournaledLoopStep(p)
        PROVE  InDead(t)' \/ (t \in reporting[q] /\ verdict[q] = "dead")
    BY ZenonT(60), <1>1, <1>3, <2>3, LoopRows
  <2>4. ASSUME NEW p \in Pool, JournaledPoolStep(p) PROVE t \in reporting[q] /\ verdict[q] = "dead"
    <3>1. reporting \in [Pool -> SUBSET Task] /\ verdict' = verdict
      BY ZenonT(60), <1>1, <2>4 DEF PoolTypeOK, JournaledPoolStep
    <3>2. reporting'[q] \subseteq reporting[q]
      BY ZenonT(60), <2>4, <3>1 DEF JournaledPoolStep, PoolStep, StopPool, Drained, DrainTimesOut, Crash,
                        Vanish, StartPool, loopVars
    <3>3. QED
      BY ZenonT(60), <1>3, <3>1, <3>2
  <2>5. ASSUME NEW w \in Worker, JournaledWorkerStep(w) PROVE UNCHANGED <<reporting, verdict>>
    <3>1. UNCHANGED reporting
      BY ZenonT(60), <2>5 DEF JournaledWorkerStep, UnjournaledStep, ReadForJournal, ClaimTasks, IdlePass,
                  SkipClaim, StartHandler, HandlerSucceeds, HandlerFails, WorkerReports,
                  AckTasks, WorkerRecords, FinishBatch, poolVars, loopVars
    <3>2. QED
      BY ZenonT(60), <1>1, <2>5, <3>1, WorkerRows
  <2>6. ASSUME NEW b \in beats, BeatStep(b) PROVE UNCHANGED reporting
    BY <2>6 DEF BeatStep, BeatTicks, BeatExits, loopVars
  <2>7. ASSUME UNCHANGED poolVars PROVE UNCHANGED reporting
    BY ZenonT(60), <2>7 DEF poolVars, loopVars
  <2>8. QED
    BY ZenonT(60), <1>3, <2>1, <2>2, <2>3, <2>4, <2>5, <2>6, <2>7 DEF JournaledStep, reportVars
<1>4. QED
  BY <1>2, <1>3 DEF Burials

(* The journal and what is read from it. *)
LEMMA JournaledRows ==
  ASSUME JournaledInv, JournaledStep
  PROVE  /\ JournalTypeOK' /\ ReconcilerTypeOK'
         /\ \A x \in Task : /\ rows'[x].state = "succeeded" => rows[x].state = "succeeded" \/ runs[x] > 0
                            /\ rows'[x].state = "dead" => rows[x].state = "dead" \/ Buried(x)
<1> DEFINE True == \A x \in Task :
                     /\ rows'[x].state = "succeeded" => rows[x].state = "succeeded" \/ runs[x] > 0
                     /\ rows'[x].state = "dead" => rows[x].state = "dead" \/ Buried(x)
           Noted == noted' \in [Worker \cup Pool -> {"no", "found", "missing"}]
           Verdict == verdict' \in [Pool -> {"retrying", "dead"}]
           Pages == /\ page' \in [Pool -> Seq([task : Task, state : NonTerminal, timed : BOOLEAN])]
                    /\ cursor' \in [Pool -> Nat] /\ repairs' \in Nat
<1>1. TypeInv /\ LeaseInv /\ JournalTypeOK /\ ReconcilerTypeOK /\ Started /\ Burials
  BY DEF JournaledInv
<1>2. UNCHANGED reportVars => Noted /\ Verdict
  BY <1>1 DEF reportVars, ReconcilerTypeOK
<1>3. UNCHANGED reconcilerVars => Pages
  BY ZenonT(60), <1>1 DEF reconcilerVars, ReconcilerTypeOK
<1>4. UNCHANGED journalVars => JournalTypeOK' /\ True
  BY <1>1 DEF journalVars, JournalTypeOK
<1>5. flushes' \in Nat
  BY <1>1 DEF JournaledStep, FlushRedis, ReconcilerTypeOK
<1>6. ASSUME NEW t \in Task, JournaledGatewayStep(t) PROVE JournalTypeOK' /\ True
  <2>1. CASE UNCHANGED journalVars
    BY ZenonT(60), <1>4, <2>1
  <2>2. CASE EnqueueRow(t)
    <3>1. rows \in [Task -> Row] /\ created \in Seq(Task)
      BY ZenonT(60), <1>1 DEF JournalTypeOK
    <3>2. [state |-> "enqueued", timed |-> t \in Delayed] \in Row
      BY ZenonT(60), NewRow
    <3>3. rows' \in [Task -> Row] /\ created' \in Seq(Task)
      BY <2>2, <3>1, <3>2 DEF EnqueueRow
    <3>4. \A x \in Task : rows'[x].state = IF x = t THEN "enqueued" ELSE rows[x].state
      BY ZenonT(60), <2>2, <3>1 DEF EnqueueRow
    <3>5. QED
      BY <3>3, <3>4 DEF JournalTypeOK
  <2>3. QED
    BY ZenonT(60), <1>6, <2>1, <2>2 DEF JournaledGatewayStep
<1>7. ASSUME NEW w \in Worker, JournaledWorkerStep(w) PROVE JournalTypeOK' /\ True /\ Noted /\ Verdict
  BY ZenonT(60), <1>1, <1>7, WorkerRows DEF ReconcilerTypeOK
<1>8. ASSUME NEW p \in Pool, JournaledLoopStep(p) PROVE JournalTypeOK' /\ True /\ Noted /\ Verdict
  BY ZenonT(60), <1>1, <1>8, LoopRows
<1>9. ASSUME NEW p \in Pool, JournaledPoolStep(p)
      PROVE  UNCHANGED journalVars /\ Noted /\ Verdict /\ Pages
  <2>1. UNCHANGED journalVars /\ Noted /\ Verdict
    <3>1. noted \in [Worker \cup Pool -> {"no", "found", "missing"}]
      BY <1>1 DEF ReconcilerTypeOK
    <3>2. ASSUME NEW x \in Worker \cup Pool PROVE noted'[x] \in {"no", "found", "missing"}
      BY ZenonT(60), <1>9, <3>1 DEF JournaledPoolStep
    <3>3. noted' = [x \in Worker \cup Pool |-> noted'[x]]
      BY <1>9 DEF JournaledPoolStep
    <3>4. Noted
      BY ZenonT(60), <3>2, <3>3
    <3>5. UNCHANGED journalVars /\ verdict' = verdict
      BY <1>9 DEF JournaledPoolStep
    <3>6. QED
      BY <1>1, <3>4, <3>5 DEF ReconcilerTypeOK
  <2>2. Pages
    <3>1. /\ page' = [page EXCEPT ![p] = <<>>] /\ cursor' = [cursor EXCEPT ![p] = 0]
          /\ repairs' = repairs
      BY <1>9 DEF JournaledPoolStep
    <3> DEFINE P == Seq([task : Task, state : NonTerminal, timed : BOOLEAN])
    <3>2. <<>> \in P
      OBVIOUS
    <3>3. page \in [Pool -> P] /\ cursor \in [Pool -> Nat] /\ repairs \in Nat
      BY ZenonT(60), <1>1 DEF ReconcilerTypeOK
    <3> HIDE DEF P
    <3>4. page' \in [Pool -> P] /\ cursor' \in [Pool -> Nat] /\ repairs' \in Nat
      BY <3>1, <3>2, <3>3
    <3>5. QED
      BY ZenonT(60), <3>4 DEF P
  <2>3. QED
    BY ZenonT(60), <2>1, <2>2
<1>10. ASSUME NEW p \in Pool, ReconcilerStep(p) PROVE Pages
  BY ZenonT(60), <1>1, <1>10, ReconcilerKeys
<1> HIDE DEF True, Noted, Verdict, Pages
<1>11. JournalTypeOK' /\ True /\ Noted /\ Verdict /\ Pages
  BY ZenonT(60), <1>2, <1>3, <1>4, <1>6, <1>7, <1>8, <1>9, <1>10 DEF JournaledStep
<1>12. QED
  BY ZenonT(60), <1>5, <1>11 DEF ReconcilerTypeOK, True, Noted, Verdict, Pages

(* A handler that was started stays started. *)
LEMMA RunsStay ==
  ASSUME JournaledInv, JournaledStep, NEW t \in Task, runs[t] > 0
  PROVE  runs'[t] > 0
<1>1. TypeInv /\ runs \in [Task -> Nat]
  BY DEF JournaledInv, PoolTypeOK
<1>2. CASE UNCHANGED runs
  BY ZenonT(60), <1>2
<1>3. ASSUME NEW w \in Worker, StartHandler(w) PROVE runs'[t] > 0
  <2>1. Head(batch[w]).task \in Task
    BY ZenonT(60), <1>1, <1>3, BatchHead DEF StartHandler
  <2>2. QED
    BY ZenonT(60), <1>1, <1>3, <2>1, OneMore DEF StartHandler
<1>4. ASSUME NEW w \in Worker, JournaledWorkerStep(w) PROVE UNCHANGED runs \/ StartHandler(w)
  BY ZenonT(60), <1>4 DEF JournaledWorkerStep, UnjournaledStep, ReadForJournal, ClaimTasks, IdlePass,
              SkipClaim, HandlerSucceeds, HandlerFails, WorkerReports,
              AckTasks, WorkerRecords, FinishBatch, poolVars, workerVars
<1>5. ASSUME NEW p \in Pool, JournaledLoopStep(p) PROVE UNCHANGED runs
  BY ZenonT(60), <1>5 DEF JournaledLoopStep, FindExpiredTasks, FindDueTasks, PromoteDueTask, RecoverTask,
              RecoveryReports, ReadForJournal, poolVars, workerVars
<1>6. ASSUME NEW p \in Pool, JournaledPoolStep(p) PROVE UNCHANGED runs
  BY ZenonT(60), <1>6 DEF JournaledPoolStep, PoolStep, StopPool, Drained, DrainTimesOut, Crash, Vanish,
              StartPool, workerVars
<1>7. ASSUME NEW b \in beats, BeatStep(b) PROVE UNCHANGED runs
  BY ZenonT(60), <1>7 DEF BeatStep, BeatTicks, BeatExits
<1>8. ASSUME UNCHANGED poolVars PROVE UNCHANGED runs
  BY <1>8 DEF poolVars, workerVars
<1>9. QED
  BY ZenonT(60), <1>2, <1>3, <1>4, <1>5, <1>6, <1>7, <1>8 DEF JournaledStep

(* JournaledInv holds at the start. *)
LEMMA JournaledStart == JournaledInit => JournaledInv
<1> SUFFICES ASSUME JournaledInit PROVE JournaledInv
  OBVIOUS
<1>1. Init /\ LeaseInv
  BY ZenonT(60), LeaseInit DEF JournaledInit
<1>2. JournalTypeOK /\ TerminalRowsAreTrue
  BY DEF JournaledInit, JournalInit, JournalTypeOK, Row, RowState, TerminalRowsAreTrue
<1>3. ReconcilerTypeOK
  BY SMTT(30) DEF JournaledInit, ReconcilerTypeOK
<1>4. Started /\ Burials
  BY <1>1 DEF Init, PoolInit, Started, Burials, Busy
<1>5. QED
  BY ZenonT(60), <1>1, <1>2, <1>3, <1>4 DEF JournaledInv

(* JournaledInv is inductive. *)
LEMMA JournaledInductive == JournaledInv /\ [JournaledNext]_journaledVars => JournaledInv'
<1>1. ASSUME JournaledInv, JournaledStep PROVE JournaledInv'
  <2>1. (LeaseInv /\ Started /\ Burials /\ JournalTypeOK /\ ReconcilerTypeOK)'
    BY ZenonT(60), <1>1, JournaledLeases, JournaledBurials, JournaledRows
  <2>2. TerminalRowsAreTrue'
    <3> SUFFICES ASSUME NEW t \in Task
                 PROVE  /\ rows'[t].state = "succeeded" => runs'[t] > 0
                        /\ rows'[t].state = "dead" => Buried(t)'
      BY ZenonT(60) DEF TerminalRowsAreTrue, Buried
    <3>1. /\ rows[t].state = "succeeded" => runs[t] > 0
          /\ rows[t].state = "dead" => Buried(t)
      BY ZenonT(60), <1>1 DEF JournaledInv, TerminalRowsAreTrue, Buried
    <3>2. QED
      BY ZenonT(60), <1>1, <3>1, JournaledRows, RunsStay, BuriedStays
  <2>3. QED
    BY ZenonT(60), <2>1, <2>2 DEF JournaledInv
<1>2. ASSUME JournaledInv, UNCHANGED journaledVars PROVE JournaledInv'
  BY ZenonT(60), <1>2 DEF journaledVars, vars, redisVars, poolVars, workerVars, loopVars, journalVars, reportVars,
     reconcilerVars, JournaledInv, RedisTypeOK, GatewayTypeOK, PoolTypeOK, WorkerControl, Busy,
     LeaseTableAgrees, JournalTypeOK, ReconcilerTypeOK, Started, Burials, Buried, InDead,
     TerminalRowsAreTrue
<1>3. QED
  BY ZenonT(60), <1>1, <1>2 DEF JournaledNext

(* So it is an invariant. *)
LEMMA JournaledInvariant == JournaledSpec => []JournaledInv
  BY JournaledStart, JournaledInductive, PTL DEF JournaledSpec

(* Redis, the journal and the pages the reconcilers read stay well-formed  *)
(* when statements fail, Redis loses its data, pools die and tasks are     *)
(* rebuilt: a page never holds a row that was settled when it was read.    *)
THEOREM JournaledTypeCorrect == JournaledSpec => []JournaledTypeOK
<1>1. JournaledInv => JournaledTypeOK
  BY DEF JournaledInv, JournaledTypeOK
<1>2. QED
  BY <1>1, JournaledInvariant, PTL

(* The reconciler's rebuilding of tasks and the loss of Redis' data leave  *)
(* the inflight set and the leases hash in agreement, under the last lease *)
(* issued.                                                                 *)
THEOREM JournaledLeasesAgree == JournaledSpec => []LeaseTableAgrees
<1>1. JournaledInv => LeaseTableAgrees
  BY ZenonT(60) DEF JournaledInv
<1>2. QED
  BY <1>1, JournaledInvariant, PTL

(* The journal never calls a task succeeded that no handler ran, or dead   *)
(* that was not dead-lettered: a worker's or a recovery loop's report,     *)
(* sent at any time after the script, is still true.                       *)
THEOREM TerminalRowsTrue == JournaledSpec => []TerminalRowsAreTrue
<1>1. JournaledInv => TerminalRowsAreTrue
  BY DEF JournaledInv
<1>2. QED
  BY <1>1, JournaledInvariant, PTL
=============================================================================
