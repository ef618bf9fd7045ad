-------------------------- MODULE ForgeQueueProofs --------------------------
(***************************************************************************)
(* Type correctness and safety of ForgeQueue, proved for any number of     *)
(* tasks, workers and pools.  Every step changes Redis by at most one      *)
(* script or command, so an invariant of the Redis keys is proved once per *)
(* script (the ...Keeps lemmas) and carried to the steps by StepIsCommand. *)
(***************************************************************************)
EXTENDS ForgeQueue, FilterProofs, FiniteSetTheorems
-----------------------------------------------------------------------------
(* What claimBatch takes off the ready list. *)

(* How often t occurs among the first n entries of s: a number, at least 1 *)
(* if t is there and 0 if it is not.                                       *)
LEMMA OccurrencesProperties ==
  ASSUME NEW s, NEW t, NEW n \in Nat
  PROVE  /\ Occurrences(s, t, n) \in Nat
         /\ (\E i \in 1..n : s[i] = t) => Occurrences(s, t, n) >= 1
         /\ (\A i \in 1..n : s[i] # t) => Occurrences(s, t, n) = 0
<1> DEFINE O == {i \in 1..n : s[i] = t}
<1>1. IsFiniteSet(O) /\ Cardinality(O) \in Nat
  <2>1. IsFiniteSet(1..n)
    BY FS_Interval
  <2>2. IsFiniteSet(O)
    BY <2>1, FS_Subset
  <2>3. QED
    BY <2>2, FS_CardinalityType
<1>2. O # {} => Cardinality(O) # 0
  BY <1>1, FS_EmptySet
<1>3. O = {} => Cardinality(O) = 0
  BY SMTT(60), FS_EmptySet
<1>4. QED
  BY <1>1, <1>2, <1>3 DEF Occurrences

(* LTRIM by position: dropping n entries leaves the other ones, in order.  *)
LEMMA SuffixProperties ==
  ASSUME NEW S, NEW q \in Seq(S), NEW n \in 0..Len(q)
  PROVE  LET rest == SubSeq(q, n + 1, Len(q))
         IN  /\ rest \in Seq(S)
             /\ Len(rest) = Len(q) - n
             /\ \A i \in 1..Len(rest) : rest[i] = q[n + i]
  OBVIOUS

(* claimBatch splits the ready list in two: the entries popped and the rest, *)
(* and pops at least one entry of a list that is not empty.                *)
LEMMA PoppedProperties ==
  ASSUME RedisTypeOK
  PROVE  LET s == Popped(BatchSize)
             rest == SubSeq(immediate, Len(s) + 1, Len(immediate))
         IN  /\ s \in Seq(Task) /\ rest \in Seq(Task)
             /\ Len(s) \in 0..Len(immediate)
             /\ \A i \in 1..Len(s) : s[i] = immediate[i]
             /\ Len(rest) = Len(immediate) - Len(s)
             /\ \A i \in 1..Len(rest) : rest[i] = immediate[Len(s) + i]
             /\ immediate # <<>> => Len(s) >= 1
<1> DEFINE n == IF BatchSize < Len(immediate) THEN BatchSize ELSE Len(immediate)
           s == Popped(BatchSize)
           rest == SubSeq(immediate, Len(s) + 1, Len(immediate))
<1>1. /\ Len(immediate) \in Nat
      /\ \A i \in 1..Len(immediate) : immediate[i] \in Task
      /\ immediate # <<>> => Len(immediate) >= 1
  BY DEF RedisTypeOK
<1>2. n \in 0..Len(immediate) /\ (immediate # <<>> => n >= 1)
  BY <1>1, PoolAssumption
<1>3. s = SubSeq(immediate, 1, n)
  BY DEF Popped
<1>4. s \in Seq(Task) /\ Len(s) = n /\ \A i \in 1..n : s[i] = immediate[i]
  BY <1>1, <1>2, <1>3
<1>5. rest \in Seq(Task) /\ Len(rest) = Len(immediate) - n
      /\ \A i \in 1..Len(rest) : rest[i] = immediate[n + i]
  <2>1. rest = SubSeq(immediate, n + 1, Len(immediate))
    BY <1>4
  <2> HIDE DEF n, rest
  <2>2. immediate \in Seq(Task) /\ n \in 0..Len(immediate)
    BY <1>2 DEF RedisTypeOK
  <2>3. QED
    BY <2>1, <2>2, SuffixProperties
<1>6. QED
  BY ZenonT(60), <1>2, <1>4, <1>5

(* What claimBatch returns is a sequence of claims, each under a real lease. *)
LEMMA ClaimsType ==
  ASSUME RedisTypeOK
  PROVE  Claims(BatchSize) \in Seq(Claim)
<1> DEFINE s == Popped(BatchSize)
           c(i) == [task  |-> s[i],
                    lease |-> issued[s[i]] + Occurrences(s, s[i], i),
                    found |-> body[s[i]] # NoBody]
<1>1. s \in Seq(Task) /\ Len(s) \in Nat
  BY PoppedProperties
<1>2. ASSUME NEW i \in 1..Len(s) PROVE c(i) \in Claim
  <2>1. s[i] \in Task /\ i \in Nat /\ i \in 1..i
    BY <1>1
  <2>2. Occurrences(s, s[i], i) \in Nat /\ Occurrences(s, s[i], i) >= 1
    BY <2>1, OccurrencesProperties
  <2>3. issued[s[i]] \in Nat
    BY <2>1 DEF RedisTypeOK
  <2>4. QED
    BY <2>1, <2>2, <2>3 DEF Claim, NoLease
<1>3. [i \in 1..Len(s) |-> c(i)] \in Seq(Claim)
  <2> HIDE DEF s, c
  <2> QED BY <1>1, <1>2
<1>4. QED
  BY <1>3 DEF Claims

(* LPUSH puts x at the head and moves every other entry one place down.    *)
LEMMA LPushProperties ==
  ASSUME NEW S, NEW s \in Seq(S), NEW x \in S
  PROVE  /\ LPush(s, x) \in Seq(S)
         /\ Len(LPush(s, x)) = Len(s) + 1
         /\ LPush(s, x)[1] = x
         /\ \A i \in 2..Len(s) + 1 : LPush(s, x)[i] = s[i - 1]
  BY DEF LPush
-----------------------------------------------------------------------------
(* Type correctness of the scripts and commands. *)

(* The claim script keeps the Redis keys well typed.                       *)
LEMMA ClaimBatchType ==
  ASSUME RedisTypeOK, NEW deadline \in {"live", "expired"},
         ClaimBatch(BatchSize, deadline)
  PROVE  RedisTypeOK'
<1> DEFINE s == Popped(BatchSize)
           last == [t \in Task |-> issued[t] + Occurrences(s, t, Len(s))]
<1>1. Len(s) \in Nat /\ SubSeq(immediate, Len(s) + 1, Len(immediate)) \in Seq(Task)
  BY PoppedProperties
<1>2. last \in [Task -> Nat]
  BY <1>1, OccurrencesProperties DEF RedisTypeOK
<1>3. QED
  BY ZenonT(60), <1>1, <1>2 DEF RedisTypeOK, ClaimBatch

(* The requeueOrDead script keeps the Redis keys well typed: it counts an  *)
(* attempt only on a body that exists.                                     *)
LEMMA RequeueOrDeadType ==
  ASSUME RedisTypeOK, NEW t \in Task, NEW lease, RequeueOrDead(t, lease)
  PROVE  RedisTypeOK'
<1>1. RequeueStatus(t, lease) \in {"dead", "scheduled"} => Counted(t) \in Nat
  BY DEF RequeueStatus, Counted, RedisTypeOK, NoBody
<1>2. dead' \in Seq(DeadBody)
  BY ZenonT(60), <1>1, LPushProperties DEF RequeueOrDead, RedisTypeOK, DeadBody
<1>3. body' \in [Task -> Nat \cup {NoBody}]
  BY <1>1 DEF RequeueOrDead, RedisTypeOK
<1>4. QED
  BY <1>2, <1>3 DEF RequeueOrDead, RedisTypeOK, NoLease

(* The ACK script keeps the Redis keys well typed.                         *)
LEMMA AckBatchType ==
  ASSUME RedisTypeOK, NEW presented, AckBatch(presented)
  PROVE  RedisTypeOK'
  BY DEF RedisTypeOK, AckBatch, NoLease

(* So do the heartbeat script, the single commands and the passing of time. *)
LEMMA SimpleCommandsType ==
  ASSUME RedisTypeOK, NEW t \in Task,
         \/ LeaseExpires(t) \/ ComesDue(t) \/ SetBody(t)
         \/ \E lease : Heartbeat(t, lease)
         \/ \E score \in {"waiting", "due"} : AddScheduled(t, score)
         \/ \E b \in BOOLEAN : SetPaused(b)
         \/ UNCHANGED redisVars
  PROVE  RedisTypeOK'
<1> USE DEF RedisTypeOK
<1>1. CASE LeaseExpires(t)
  BY <1>1 DEF LeaseExpires
<1>2. CASE ComesDue(t)
  BY <1>2 DEF ComesDue
<1>3. CASE SetBody(t)
  BY <1>3 DEF SetBody
<1>4. CASE \E lease : Heartbeat(t, lease)
  BY <1>4 DEF Heartbeat
<1>5. CASE \E score \in {"waiting", "due"} : AddScheduled(t, score)
  BY SMTT(60), <1>5 DEF AddScheduled
<1>6. CASE \E b \in BOOLEAN : SetPaused(b)
  BY <1>6 DEF SetPaused
<1>7. CASE UNCHANGED redisVars
  BY <1>7 DEF redisVars
<1>8. QED
  BY ZenonT(60), <1>1, <1>2, <1>3, <1>4, <1>5, <1>6, <1>7

(* So do the promotion script and the gateway's LPUSH, resent or not.      *)
LEMMA PushesType ==
  ASSUME RedisTypeOK, NEW t \in Task,
         PromoteTask(t) \/ \E copies \in 1..2 : PushReady(t, copies)
  PROVE  RedisTypeOK'
<1>1. LPush(immediate, t) \in Seq(Task) /\ LPush(LPush(immediate, t), t) \in Seq(Task)
  BY LPushProperties DEF RedisTypeOK
<1>2. QED
  BY ZenonT(60), <1>1 DEF RedisTypeOK, PromoteTask, PushReady
-----------------------------------------------------------------------------
(* Type correctness.  Head(batch[w]) is a claim only because a worker that *)
(* is in a handler, or reports on it, has one: WorkerControl.              *)

Busy(w) == pc[w] \in {"handle", "retried", "buried"}

WorkerControl ==
  \A w \in Worker : /\ Busy(w) => batch[w] # <<>> /\ Runnable(Head(batch[w]))
                    /\ \A c \in acks[w] : Runnable(c)

TypeInv == TypeOK /\ WorkerControl

(* The initial state is well typed and no worker is busy.                  *)
LEMMA TypeInit == Init => TypeInv
<1> SUFFICES ASSUME Init PROVE TypeInv
  OBVIOUS
<1>1. RedisTypeOK
  <2>1. paused \in BOOLEAN
    BY ZenonT(60) DEF Init, RedisInit
  <2>2. immediate \in Seq(Task) /\ dead \in Seq(DeadBody)
    BY DEF Init, RedisInit
  <2>3. QED
    BY <2>1, <2>2 DEF Init, RedisInit, RedisTypeOK, NoBody, NoLease
<1>2. GatewayTypeOK
  BY DEF Init, GatewayInit, GatewayTypeOK, GatewayState
<1>3. PoolTypeOK
  BY DEF Init, PoolInit, PoolTypeOK
<1>4. WorkerControl
  BY DEF Init, PoolInit, WorkerControl, Busy
<1>5. QED
  BY <1>1, <1>2, <1>3, <1>4 DEF TypeInv, TypeOK

(* stopTask leaves a set of heartbeats.                                    *)
LEMMA StopBeatsType ==
  ASSUME PoolTypeOK, NEW w, NEW tasks
  PROVE  StopBeats(w, tasks) \subseteq Beat
<1>1. ASSUME NEW b \in Beat PROVE [b EXCEPT !.stopped = TRUE] \in Beat
  BY ZenonT(60) DEF Beat
<1>2. QED
  BY <1>1 DEF StopBeats, PoolTypeOK

(* At the top of workerLoop a worker goes on or returns.                   *)
LEMMA TopType == \A w : Top(w) \in {"idle", "exited"}
  BY DEF Top

(* RouteTask preserves the type invariant.                                 *)
LEMMA GatewayStepType ==
  ASSUME TypeInv, NEW t \in Task, GatewayStep(t), UNCHANGED poolVars
  PROVE  TypeInv'
<1> USE DEF TypeInv, TypeOK
<1>1. PoolTypeOK' /\ WorkerControl'
  BY DEF PoolTypeOK, WorkerControl, Busy, poolVars, workerVars, loopVars
<1>2. GatewayTypeOK'
  BY DEF GatewayStep, JournalEnqueue, StoreBody, PushImmediate, PushScheduled,
         Materialize, GatewayTypeOK, GatewayState
<1>3. RedisTypeOK'
  <2>1. CASE JournalEnqueue(t) \/ Materialize(t)
    BY <2>1, SimpleCommandsType DEF JournalEnqueue, Materialize
  <2>2. CASE \E reply \in GatewayReplies : StoreBody(t, reply)
    BY <2>2, SimpleCommandsType DEF StoreBody
  <2>3. CASE \E reply \in GatewayReplies, copies \in 1..2 : PushImmediate(t, reply, copies)
    BY <2>3, SimpleCommandsType, PushesType DEF PushImmediate
  <2>4. CASE \E reply \in GatewayReplies, score \in {"waiting", "due"} :
               PushScheduled(t, reply, score)
    BY <2>4, SimpleCommandsType DEF PushScheduled
  <2>5. QED
    BY <2>1, <2>2, <2>3, <2>4 DEF GatewayStep
<1>4. QED
  BY <1>1, <1>2, <1>3

(* Time and the pause switch preserve the type invariant.                  *)
LEMMA EnvironmentType ==
  ASSUME TypeInv, Environment, UNCHANGED <<gw, poolVars>>
  PROVE  TypeInv'
<1> USE DEF TypeInv, TypeOK
<1>1. PoolTypeOK' /\ WorkerControl' /\ GatewayTypeOK'
  BY DEF PoolTypeOK, WorkerControl, Busy, poolVars, workerVars, loopVars, GatewayTypeOK
<1>2. CASE \E t \in Task : LeaseExpires(t) \/ ComesDue(t)
  BY <1>1, <1>2, SimpleCommandsType
<1>3. CASE \E b \in BOOLEAN : SetPaused(b)
  BY ZenonT(60), <1>1, <1>3 DEF SetPaused, RedisTypeOK
<1>4. QED
  BY <1>2, <1>3 DEF Environment

(* workerLoop preserves the type invariant: one step per action.           *)
LEMMA WorkerStepType ==
  ASSUME TypeInv, NEW w \in Worker, WorkerStep(w), UNCHANGED gw
  PROVE  TypeInv'
<1> USE DEF TypeInv, TypeOK
<1>1. GatewayTypeOK'
  BY DEF GatewayTypeOK
<1>2. ASSUME NEW reply \in PoolReplies, NEW deadline \in {"live", "expired"},
             ClaimTasks(w, reply, deadline)
      PROVE  TypeInv'
  <2>1. RedisTypeOK'
    BY <1>2, ClaimBatchType DEF ClaimTasks
  <2>2. Claims(BatchSize) \in Seq(Claim)
    BY SMTT(60), ClaimsType
  <2>3. batch' \in [Worker -> Seq(Claim)]
    BY ZenonT(60), <1>2, <2>2 DEF ClaimTasks, PoolTypeOK
  <2>4. beats' \subseteq Beat
    <3>1. \A c \in Range(Claims(BatchSize)) : c \in Claim
      BY <2>2 DEF Range
    <3>2. ASSUME NEW c \in Claim
          PROVE  [worker |-> w, task |-> c.task, lease |-> c.lease, stopped |-> FALSE] \in Beat
      BY <3>2 DEF Claim, Beat
    <3>3. QED
      BY <1>2, <3>1, <3>2 DEF ClaimTasks, PoolTypeOK
  <2>5. PoolTypeOK'
    BY ZenonT(60), <1>2, <2>3, <2>4, TopType DEF ClaimTasks, PoolTypeOK, loopVars
  <2>6. WorkerControl'
    BY ZenonT(60), <1>2, TopType DEF ClaimTasks, PoolTypeOK, WorkerControl, Busy
  <2>7. QED
    BY ZenonT(60), <1>1, <2>1, <2>5, <2>6
<1>3. ASSUME IdlePass(w) PROVE TypeInv'
  <2>1. PoolTypeOK'
    BY <1>3, TopType DEF IdlePass, PoolTypeOK, loopVars
  <2>2. WorkerControl'
    BY SMTT(60), <1>3, TopType DEF IdlePass, PoolTypeOK, WorkerControl, Busy
  <2>3. QED
    BY <1>1, <1>3, <2>1, <2>2 DEF IdlePass, redisVars, RedisTypeOK
<1>4. ASSUME SkipClaim(w) PROVE TypeInv'
  <2>1. PoolTypeOK'
    BY SMTT(60), <1>4, StopBeatsType, TailFacts
       DEF SkipClaim, PoolTypeOK, loopVars
  <2>2. WorkerControl'
    BY SMTT(60), <1>4 DEF SkipClaim, PoolTypeOK, WorkerControl, Busy
  <2>3. QED
    BY ZenonT(60), <1>1, <1>4, <2>1, <2>2 DEF SkipClaim, redisVars, RedisTypeOK
<1>5. ASSUME StartHandler(w) PROVE TypeInv'
  <2>1. Head(batch[w]).task \in Task
    <3>1. Head(batch[w]) \in Claim
      BY SMTT(60), <1>5, TailFacts DEF StartHandler, PoolTypeOK
    <3>2. QED
      BY SMTT(60), <3>1 DEF Claim
  <2>2. PoolTypeOK'
    BY SMTT(60), <1>5, <2>1 DEF StartHandler, PoolTypeOK, loopVars
  <2>3. WorkerControl'
    BY <1>5 DEF StartHandler, PoolTypeOK, WorkerControl, Busy
  <2>4. QED
    BY <1>1, <1>5, <2>2, <2>3 DEF StartHandler, redisVars, RedisTypeOK
<1>6. ASSUME HandlerSucceeds(w) PROVE TypeInv'
  <2>1. batch[w] # <<>> /\ Runnable(Head(batch[w]))
    BY <1>6 DEF HandlerSucceeds, WorkerControl, Busy
  <2>2. Head(batch[w]) \in Claim /\ Tail(batch[w]) \in Seq(Claim)
    BY <2>1, TailFacts DEF PoolTypeOK
  <2>3. PoolTypeOK'
    BY SMTT(60), <1>6, <2>2 DEF HandlerSucceeds, PoolTypeOK, loopVars
  <2>4. WorkerControl'
    BY <1>6, <2>1 DEF HandlerSucceeds, PoolTypeOK, WorkerControl, Busy
  <2>5. QED
    BY SMTT(60), <1>1, <1>6, <2>3, <2>4 DEF HandlerSucceeds, redisVars, RedisTypeOK
<1>7. ASSUME NEW reply \in PoolReplies, HandlerFails(w, reply) PROVE TypeInv'
  <2> DEFINE c == Head(batch[w])
  <2>1. batch[w] # <<>> /\ Runnable(c)
    BY <1>7 DEF HandlerFails, WorkerControl, Busy
  <2>2. c \in Claim /\ c.task \in Task /\ Tail(batch[w]) \in Seq(Claim)
    <3>1. c \in Claim /\ Tail(batch[w]) \in Seq(Claim)
      BY SMTT(60), <2>1, TailFacts DEF PoolTypeOK
    <3>2. QED
      BY <3>1 DEF Claim
  <2>3. RedisTypeOK'
    BY ZenonT(60), <1>7, <2>2, RequeueOrDeadType, SimpleCommandsType DEF HandlerFails
  <2>4. PoolTypeOK'
    BY SMTT(60), <1>7, <2>2, StopBeatsType DEF HandlerFails, PoolTypeOK, loopVars
  <2>5. WorkerControl'
    BY SMTT(60), <1>7, <2>1 DEF HandlerFails, PoolTypeOK, WorkerControl, Busy
  <2>6. QED
    BY SMTT(60), <1>1, <2>3, <2>4, <2>5
<1>8. ASSUME WorkerReports(w) PROVE TypeInv'
  <2>1. batch[w] # <<>>
    BY <1>8 DEF WorkerReports, WorkerControl, Busy
  <2>2. PoolTypeOK'
    BY SMTT(60), <1>8, <2>1, StopBeatsType, TailFacts
       DEF WorkerReports, PoolTypeOK, loopVars
  <2>3. WorkerControl'
    BY ZenonT(60), <1>8 DEF WorkerReports, PoolTypeOK, WorkerControl, Busy
  <2>4. QED
    BY SMTT(60), <1>1, <1>8, <2>2, <2>3 DEF WorkerReports, redisVars, RedisTypeOK
<1>9. ASSUME NEW reply \in PoolReplies, AckTasks(w, reply) PROVE TypeInv'
  <2>1. RedisTypeOK'
    BY ZenonT(60), <1>9, AckBatchType DEF AckTasks, redisVars, RedisTypeOK
  <2>2. PoolTypeOK'
    <3>1. acks' \in [Worker -> SUBSET Claim]
      BY SMTT(60), <1>9 DEF AckTasks, Acked, PoolTypeOK
    <3>2. QED
      BY SMTT(60), <1>9, <3>1 DEF AckTasks, PoolTypeOK, loopVars
  <2>3. WorkerControl'
    BY <1>9 DEF AckTasks, Acked, PoolTypeOK, WorkerControl, Busy
  <2>4. QED
    BY <1>1, <2>1, <2>2, <2>3
<1>10. ASSUME NEW c \in acks[w], WorkerRecords(w, c) PROVE TypeInv'
  <2>1. PoolTypeOK'
    BY <1>10 DEF WorkerRecords, PoolTypeOK, loopVars
  <2>2. WorkerControl'
    BY SMTT(60), <1>10 DEF WorkerRecords, PoolTypeOK, WorkerControl, Busy
  <2>3. QED
    BY ZenonT(60), <1>1, <1>10, <2>1, <2>2 DEF WorkerRecords, redisVars, RedisTypeOK
<1>11. ASSUME FinishBatch(w) PROVE TypeInv'
  <2>1. PoolTypeOK'
    BY SMTT(60), <1>11, StopBeatsType, TopType DEF FinishBatch, PoolTypeOK, loopVars
  <2>2. WorkerControl'
    BY ZenonT(60), <1>11, TopType DEF FinishBatch, PoolTypeOK, WorkerControl, Busy
  <2>3. QED
    BY ZenonT(60), <1>1, <1>11, <2>1, <2>2 DEF FinishBatch, redisVars, RedisTypeOK
<1>12. QED
  BY ZenonT(60), <1>2, <1>3, <1>4, <1>5, <1>6, <1>7, <1>8, <1>9, <1>10, <1>11
     DEF WorkerStep

(* heartbeatLoop preserves the type invariant.                             *)
LEMMA BeatStepType ==
  ASSUME TypeInv, NEW b \in beats, BeatStep(b), UNCHANGED gw
  PROVE  TypeInv'
<1> USE DEF TypeInv, TypeOK
<1>1. b.task \in Task
  BY SMTT(60) DEF PoolTypeOK, Beat
<1>2. PoolTypeOK' /\ WorkerControl' /\ GatewayTypeOK'
  BY ZenonT(60)
     DEF BeatStep, BeatTicks, BeatExits, PoolTypeOK, WorkerControl, Busy, loopVars, GatewayTypeOK
<1>3. RedisTypeOK'
  BY <1>1, SimpleCommandsType DEF BeatStep, BeatTicks, BeatExits
<1>4. QED
  BY <1>2, <1>3

(* recoveryLoop and promotionLoop preserve the type invariant.             *)
LEMMA LoopStepType ==
  ASSUME TypeInv, NEW p \in Pool, LoopStep(p), UNCHANGED gw
  PROVE  TypeInv'
<1> USE DEF TypeInv, TypeOK
<1>1. WorkerControl' /\ GatewayTypeOK'
  BY ZenonT(60)
     DEF LoopStep, FindExpiredTasks, RecoverTask, RecoveryReports, FindDueTasks,
         PromoteDueTask, WorkerControl, Busy, workerVars, GatewayTypeOK
<1>2. PoolTypeOK'
  <2> USE DEF PoolTypeOK, workerVars
  <2>1. CASE \E found \in SUBSET Task : FindExpiredTasks(p, found) \/ FindDueTasks(p, found)
    <3>1. PICK found \in SUBSET Task : FindExpiredTasks(p, found) \/ FindDueTasks(p, found)
      BY <2>1
    <3>2. CASE FindExpiredTasks(p, found)
      BY SMTT(60), <3>2 DEF FindExpiredTasks
    <3>3. CASE FindDueTasks(p, found)
      BY <3>3 DEF FindDueTasks
    <3>4. QED
      BY <3>1, <3>2, <3>3
  <2>2. CASE RecoveryReports(p)
    BY SMTT(60), <2>2 DEF RecoveryReports
  <2>3. CASE \E t \in Task, reply \in PoolReplies : RecoverTask(p, t, reply)
    BY SMTT(60), <2>3 DEF RecoverTask
  <2>4. CASE \E t \in Task, reply \in PoolReplies : PromoteDueTask(p, t, reply)
    BY <2>4 DEF PromoteDueTask
  <2>5. QED
    BY ZenonT(60), <2>1, <2>2, <2>3, <2>4 DEF LoopStep
<1>3. RedisTypeOK'
  <2>1. CASE \E found \in SUBSET Task : FindExpiredTasks(p, found) \/ FindDueTasks(p, found)
    BY SMTT(60), <2>1 DEF FindExpiredTasks, FindDueTasks, redisVars, RedisTypeOK
  <2>2. CASE RecoveryReports(p)
    BY SMTT(60), <2>2 DEF RecoveryReports, redisVars, RedisTypeOK
  <2>3. CASE \E t \in Task, reply \in PoolReplies : RecoverTask(p, t, reply)
    BY SMTT(60), <2>3, SimpleCommandsType, RequeueOrDeadType DEF RecoverTask
  <2>4. CASE \E t \in Task, reply \in PoolReplies : PromoteDueTask(p, t, reply)
    BY ZenonT(60), <2>4, SimpleCommandsType, PushesType DEF PromoteDueTask
  <2>5. QED
    BY ZenonT(60), <2>1, <2>2, <2>3, <2>4 DEF LoopStep
<1>4. QED
  BY SMTT(60), <1>1, <1>2, <1>3

(* Stopping, losing and starting a pool preserve the type invariant.       *)
LEMMA PoolStepType ==
  ASSUME TypeInv, NEW p \in Pool, PoolStep(p), UNCHANGED gw
  PROVE  TypeInv'
<1> USE DEF TypeInv, TypeOK
<1>1. RedisTypeOK' /\ GatewayTypeOK'
  BY ZenonT(60)
     DEF PoolStep, StopPool, Drained, DrainTimesOut, Crash, Vanish, StartPool,
         redisVars, RedisTypeOK, GatewayTypeOK
<1>2. CASE StopPool(p)
  BY SMTT(60), <1>1, <1>2
     DEF StopPool, PoolTypeOK, WorkerControl, Busy, workerVars, loopVars
<1>3. CASE Vanish(p) /\ downtimes' \in Nat
  BY SMTT(60), <1>1, <1>3 DEF Vanish, PoolTypeOK, WorkerControl, Busy
<1>4. CASE StartPool(p)
  BY <1>1, <1>4 DEF StartPool, PoolTypeOK, WorkerControl, Busy, loopVars
<1>5. QED
  BY SMTT(60), <1>2, <1>3, <1>4 DEF PoolStep, Drained, DrainTimesOut, Crash, PoolTypeOK

(* Every step of the system preserves the type invariant.                  *)
LEMMA TypeStep == TypeInv /\ [Next]_vars => TypeInv'
<1> SUFFICES ASSUME TypeInv, [Next]_vars PROVE TypeInv'
  BY ZenonT(60)
<1>1. CASE UNCHANGED vars
  BY <1>1 DEF vars, redisVars, poolVars, workerVars, loopVars, TypeInv, TypeOK,
              RedisTypeOK, GatewayTypeOK, PoolTypeOK, WorkerControl, Busy
<1>2. CASE (\E t \in Task : GatewayStep(t)) /\ UNCHANGED poolVars
  BY <1>2, GatewayStepType
<1>3. CASE PoolNext /\ UNCHANGED gw
  BY SMTT(60), <1>3, WorkerStepType, BeatStepType, LoopStepType, PoolStepType
     DEF PoolNext
<1>4. CASE Environment /\ UNCHANGED <<gw, poolVars>>
  BY <1>4, EnvironmentType
<1>5. QED
  BY <1>1, <1>2, <1>3, <1>4 DEF Next

(* The type invariant holds in every reachable state.                      *)
THEOREM TypeInvariant == Spec => []TypeInv
  BY TypeInit, TypeStep, PTL DEF Spec

(* Every variable keeps its type, for any number of tasks, workers, pools, *)
(* retries and restarts: no script writes an attempts counter, a lease or  *)
(* a dead letter of the wrong kind, and no worker reads past its batch.    *)
THEOREM TypeCorrect == Spec => []TypeOK
  BY TypeInvariant, PTL DEF TypeInv

-----------------------------------------------------------------------------
(* What a step does to the Redis keys. *)

(* What a step can do to the Redis keys.  A lease presented by a worker or *)
(* a heartbeat is never NoLease.                                           *)
Command ==
  \/ UNCHANGED redisVars
  \/ \E deadline \in {"live", "expired"} : ClaimBatch(BatchSize, deadline)
  \/ \E t \in Task : \/ LeaseExpires(t)
                     \/ ComesDue(t)
                     \/ PromoteTask(t)
                     \/ \E lease \in Nat : RequeueOrDead(t, lease)
                     \/ \E lease \in Nat \ {NoLease} : Heartbeat(t, lease)
  \/ \E w \in Worker : AckBatch(acks[w]) /\ \E reply \in PoolReplies : AckTasks(w, reply)
  \/ \E b \in BOOLEAN : SetPaused(b)

(* Every step of the system is a step of the gateway or runs one of the    *)
(* commands above.                                                         *)
LEMMA StepIsCommand ==
  ASSUME TypeInv, [Next]_vars
  PROVE  \/ \E t \in Task : GatewayStep(t) /\ UNCHANGED poolVars
         \/ Command /\ UNCHANGED gw
<1>1. CASE UNCHANGED vars
  BY <1>1 DEF vars, Command
<1>2. CASE (\E t \in Task : GatewayStep(t)) /\ UNCHANGED poolVars
  BY <1>2
<1>3. CASE Environment /\ UNCHANGED <<gw, poolVars>>
  BY <1>3 DEF Environment, Command
<1>4. ASSUME NEW w \in Worker, WorkerStep(w), UNCHANGED gw PROVE Command
  <2>1. CASE \E reply \in PoolReplies, deadline \in {"live", "expired"} :
               ClaimTasks(w, reply, deadline)
    BY <2>1 DEF ClaimTasks, Command
  <2>2. ASSUME NEW reply \in PoolReplies, HandlerFails(w, reply) PROVE Command
    <3>1. Head(batch[w]) \in Claim
      BY <2>2, TailFacts DEF HandlerFails, TypeInv, TypeOK, PoolTypeOK, WorkerControl, Busy
    <3>2. Head(batch[w]).task \in Task /\ Head(batch[w]).lease \in Nat
      BY ZenonT(60), <3>1 DEF Claim
    <3>3. QED
      BY <2>2, <3>2 DEF HandlerFails, Command
  <2>3. CASE \E reply \in PoolReplies : AckTasks(w, reply)
    BY ZenonT(60), <2>3 DEF AckTasks, Command
  <2>4. CASE IdlePass(w) \/ SkipClaim(w) \/ StartHandler(w) \/ HandlerSucceeds(w)
    BY ZenonT(60), <2>4 DEF IdlePass, SkipClaim, StartHandler, HandlerSucceeds, Command
  <2>5. CASE WorkerReports(w) \/ (\E c \in acks[w] : WorkerRecords(w, c)) \/ FinishBatch(w)
    BY ZenonT(60), <2>5 DEF WorkerReports, WorkerRecords, FinishBatch, Command
  <2>6. QED
    BY ZenonT(60), <1>4, <2>1, <2>2, <2>3, <2>4, <2>5 DEF WorkerStep
<1>5. ASSUME NEW b \in beats, BeatStep(b), UNCHANGED gw PROVE Command
  <2>1. b \in Beat
    BY DEF TypeInv, TypeOK, PoolTypeOK
  <2>2. b.task \in Task /\ b.lease \in Nat \ {NoLease}
    BY <2>1 DEF Beat
  <2>3. QED
    BY ZenonT(60), <1>5, <2>2 DEF BeatStep, BeatTicks, BeatExits, Command
<1>6. ASSUME NEW p \in Pool, LoopStep(p), UNCHANGED gw PROVE Command
  <2>1. NoLease \in Nat
    BY ZenonT(60) DEF NoLease
  <2>2. QED
    BY ZenonT(60), <1>6, <2>1
       DEF LoopStep, FindExpiredTasks, RecoverTask, RecoveryReports, FindDueTasks,
                      PromoteDueTask, Command
<1>7. ASSUME NEW p \in Pool, PoolStep(p), UNCHANGED gw PROVE Command
  BY ZenonT(60), <1>7
     DEF PoolStep, StopPool, Drained, DrainTimesOut, Crash, Vanish, StartPool, Command
<1>8. QED
  BY ZenonT(60), <1>1, <1>2, <1>3, <1>4, <1>5, <1>6, <1>7 DEF Next, PoolNext
-----------------------------------------------------------------------------
(* What claimBatch does to a task, popped or not. *)
LEMMA ClaimBatchEffect ==
  ASSUME RedisTypeOK, NEW deadline, ClaimBatch(BatchSize, deadline), NEW t \in Task
  PROVE  LET popped == t \in Range(Popped(BatchSize))
         IN  /\ popped  => /\ t \in Range(immediate)
                           /\ inflight'[t] = deadline
                           /\ leases'[t] = issued'[t] /\ issued'[t] > issued[t]
             /\ ~popped => /\ t \in Range(immediate') <=> t \in Range(immediate)
                           /\ UNCHANGED <<inflight[t], leases[t], issued[t]>>
<1> DEFINE s == Popped(BatchSize)
           rest == SubSeq(immediate, Len(s) + 1, Len(immediate))
<1>1. /\ s \in Seq(Task) /\ rest \in Seq(Task) /\ Len(immediate) \in Nat
      /\ DOMAIN s = 1..Len(s) /\ DOMAIN rest = 1..Len(rest)
      /\ DOMAIN immediate = 1..Len(immediate)
      /\ Len(s) \in 0..Len(immediate)
      /\ \A i \in 1..Len(s) : s[i] = immediate[i]
      /\ Len(rest) = Len(immediate) - Len(s)
      /\ \A i \in 1..Len(rest) : rest[i] = immediate[Len(s) + i]
  BY ZenonT(60), PoppedProperties, SeqFacts DEF RedisTypeOK
<1>2. immediate' = rest
  BY ZenonT(60) DEF ClaimBatch
<1> HIDE DEF s, rest
<1>3. t \in Range(s) => t \in Range(immediate)
  BY <1>1 DEF Range
<1>4. t \in Range(rest) => t \in Range(immediate)
  <2> SUFFICES ASSUME NEW i \in 1..Len(rest), t = rest[i] PROVE t \in Range(immediate)
    BY <1>1 DEF Range
  <2>1. Len(s) + i \in 1..Len(immediate) /\ t = immediate[Len(s) + i]
    BY <1>1
  <2>2. QED
    BY <1>1, <2>1 DEF Range
<1>5. t \in Range(immediate) /\ t \notin Range(s) => t \in Range(rest)
  <2> SUFFICES ASSUME NEW i \in 1..Len(immediate), t = immediate[i], t \notin Range(s)
               PROVE  t \in Range(rest)
    BY <1>1 DEF Range
  <2>1. i \notin 1..Len(s)
    BY <1>1 DEF Range
  <2>2. i - Len(s) \in 1..Len(rest)
    BY <1>1, <2>1
  <2>3. Len(s) + (i - Len(s)) = i
    BY SMTT(30), <1>1
  <2>4. QED
    BY ZenonT(60), <1>1, <2>2, <2>3 DEF Range
<1>6. /\ issued'[t] = issued[t] + Occurrences(s, t, Len(s))
      /\ inflight'[t] = IF t \in Range(s) THEN deadline ELSE inflight[t]
      /\ leases'[t] = IF t \in Range(s) THEN issued'[t] ELSE leases[t]
  BY ZenonT(60) DEF ClaimBatch, s
<1>7. /\ t \in Range(s) => issued'[t] > issued[t]
      /\ t \notin Range(s) => issued'[t] = issued[t]
  <2>1. issued[t] \in Nat /\ Len(s) \in Nat
    BY <1>1 DEF RedisTypeOK
  <2>2. t \in Range(s) <=> \E i \in 1..Len(s) : s[i] = t
    BY ZenonT(60), <1>1 DEF Range
  <2>3. QED
    BY <1>6, <2>1, <2>2, OccurrencesProperties
<1>8. QED
  BY ZenonT(60), <1>2, <1>3, <1>4, <1>5, <1>6, <1>7 DEF s

(* The elements of a list after LPUSH. *)
LEMMA LPushRange ==
  ASSUME NEW S, NEW s \in Seq(S), NEW x \in S
  PROVE  Range(LPush(s, x)) = Range(s) \cup {x}
<1> DEFINE p == LPush(s, x)
<1>1. /\ Len(s) \in Nat /\ DOMAIN s = 1..Len(s) /\ DOMAIN p = 1..Len(s) + 1
      /\ p[1] = x
      /\ \A i \in 2..Len(s) + 1 : p[i] = s[i - 1]
  BY LPushProperties, SeqFacts
<1> HIDE DEF p
<1>2. x \in Range(p) /\ \A i \in 1..Len(s) : s[i] \in Range(p)
  <2>1. 1 \in DOMAIN p
    BY <1>1
  <2>2. ASSUME NEW i \in 1..Len(s) PROVE i + 1 \in 2..Len(s) + 1 /\ (i + 1) - 1 = i
    BY <1>1
  <2>3. ASSUME NEW i \in 1..Len(s) PROVE i + 1 \in DOMAIN p /\ p[i + 1] = s[i]
    BY <1>1, <2>2
  <2>4. QED
    BY <1>1, <2>1, <2>3 DEF Range
<1>3. \A i \in DOMAIN p : p[i] \in Range(s) \cup {x}
  <2> TAKE i \in DOMAIN p
  <2>1. CASE i = 1
    BY <1>1, <2>1
  <2>2. CASE i # 1
    <3>1. i \in 2..Len(s) + 1 /\ i - 1 \in 1..Len(s)
      BY SMTT(60), <1>1, <2>2
    <3>2. QED
      BY <1>1, <3>1 DEF Range
  <2>3. QED
    BY <2>1, <2>2
<1>4. QED
  BY ZenonT(60), <1>1, <1>2, <1>3 DEF Range, p
-----------------------------------------------------------------------------
(* The leases hash. *)

(* No script makes the inflight set and the leases hash disagree. *)
LEMMA CommandKeepsLeases ==
  ASSUME RedisTypeOK, LeaseTableAgrees, Command
  PROVE  LeaseTableAgrees'
<1> USE DEF LeaseTableAgrees
<1>1. CASE UNCHANGED redisVars
  BY ZenonT(60), <1>1 DEF redisVars
<1>2. ASSUME NEW deadline \in {"live", "expired"}, ClaimBatch(BatchSize, deadline)
      PROVE  LeaseTableAgrees'
  <2> SUFFICES ASSUME NEW t \in Task
               PROVE  /\ inflight'[t] # "none" <=> leases'[t] # NoLease
                      /\ leases'[t] \in {NoLease, issued'[t]}
    OBVIOUS
  <2>1. issued[t] \in Nat /\ deadline # "none"
    BY DEF RedisTypeOK
  <2>2. \/ inflight'[t] = deadline /\ leases'[t] = issued'[t] /\ issued'[t] > issued[t]
        \/ UNCHANGED <<inflight[t], leases[t], issued[t]>>
    BY ZenonT(60), <1>2, ClaimBatchEffect
  <2>3. QED
    BY <2>1, <2>2 DEF NoLease
<1>3. ASSUME NEW t \in Task, LeaseExpires(t) PROVE LeaseTableAgrees'
  BY ZenonT(60), <1>3 DEF LeaseExpires, RedisTypeOK
<1>4. ASSUME NEW t \in Task, ComesDue(t) \/ PromoteTask(t) PROVE LeaseTableAgrees'
  BY ZenonT(60), <1>4 DEF ComesDue, PromoteTask
<1>5. ASSUME NEW t \in Task, NEW lease \in Nat, RequeueOrDead(t, lease)
      PROVE  LeaseTableAgrees'
  BY <1>5 DEF RequeueOrDead, RedisTypeOK, NoLease
<1>6. ASSUME NEW t \in Task, NEW lease \in Nat \ {NoLease}, Heartbeat(t, lease)
      PROVE  LeaseTableAgrees'
  BY ZenonT(60), <1>6 DEF Heartbeat, RedisTypeOK
<1>7. ASSUME NEW w \in Worker, AckBatch(acks[w]) PROVE LeaseTableAgrees'
  BY <1>7 DEF AckBatch, NoLease
<1>8. ASSUME NEW b \in BOOLEAN, SetPaused(b) PROVE LeaseTableAgrees'
  BY <1>8 DEF SetPaused
<1>9. QED
  BY ZenonT(60), <1>1, <1>2, <1>3, <1>4, <1>5, <1>6, <1>7, <1>8 DEF Command

LeaseInv == TypeInv /\ LeaseTableAgrees

(* Both are empty at the start. *)
LEMMA LeaseInit == Init => LeaseInv
  BY TypeInit DEF LeaseInv, Init, RedisInit, LeaseTableAgrees

(* LeaseInv is inductive: the gateway never touches leases, and of the     *)
(* scripts only claimBatch issues one.                                     *)
LEMMA LeaseStep == LeaseInv /\ [Next]_vars => LeaseInv'
<1> SUFFICES ASSUME LeaseInv, [Next]_vars PROVE LeaseTableAgrees'
  BY ZenonT(60), TypeStep DEF LeaseInv
<1>1. ASSUME NEW t \in Task, GatewayStep(t) PROVE LeaseTableAgrees'
  BY <1>1 DEF GatewayStep, JournalEnqueue, StoreBody, PushImmediate, PushScheduled,
              Materialize, SetBody, PushReady, AddScheduled, redisVars,
              LeaseInv, LeaseTableAgrees
<1>2. QED
  BY <1>1, StepIsCommand, CommandKeepsLeases DEF LeaseInv, TypeInv, TypeOK

(* So it is an invariant. *)
LEMMA LeaseInvariant == Spec => []LeaseInv
  BY LeaseInit, LeaseStep, PTL DEF Spec

(* queue:tasks:inflight and queue:tasks:leases always list the same tasks, *)
(* and the lease on record is the last one claimBatch issued, even if LPUSH *)
(* was applied twice: no older claim ever passes the fence of              *)
(* requeueOrDead, ackBatch or heartbeat.                                   *)
THEOREM LeasesAgree == Spec => []LeaseTableAgrees
  BY LeaseInvariant, PTL DEF LeaseInv
-----------------------------------------------------------------------------
(* No task is lost. *)

(* The tasks in the dead letters after a push of a body of u. *)
LEMMA DeadPush ==
  ASSUME dead \in Seq(DeadBody), NEW u \in Task, NEW n \in Nat,
         dead' = LPush(dead, [task |-> u, attempts |-> n]), NEW t
  PROVE  InDead(t)' <=> (InDead(t) \/ t = u)
<1> DEFINE d == [task |-> u, attempts |-> n]
<1>1. d \in DeadBody /\ d.task = u
  BY DEF DeadBody
<1> HIDE DEF d
<1>2. Range(dead') = Range(dead) \cup {d}
  BY <1>1, LPushRange DEF d
<1>3. InDead(t) <=> \E x \in Range(dead) : x.task = t
  BY DEF InDead, Range
<1>4. InDead(t)' <=> \E x \in Range(dead') : x.task = t
  BY ZenonT(60) DEF InDead, Range
<1>5. QED
  BY <1>1, <1>2, <1>3, <1>4

(* Only the gateway's SET creates a body. *)
LEMMA CommandCreatesNoBody ==
  ASSUME RedisTypeOK, Command, NEW t \in Task, body[t] = NoBody
  PROVE  body'[t] = NoBody
<1>1. ASSUME NEW u \in Task, NEW lease \in Nat, RequeueOrDead(u, lease)
      PROVE  body'[t] = NoBody
  BY ZenonT(60), <1>1 DEF RequeueOrDead, RequeueStatus, RedisTypeOK
<1>2. ASSUME NEW w \in Worker, AckBatch(acks[w]) PROVE body'[t] = NoBody
  BY ZenonT(60), <1>2 DEF AckBatch
<1>3. QED
  BY ZenonT(60), <1>1, <1>2 DEF Command, ClaimBatch, LeaseExpires, ComesDue, PromoteTask, Heartbeat,
                    SetPaused, redisVars

(* A task with a body leaves a structure only for another one: the script  *)
(* that removes it adds it elsewhere in the same step.                     *)
LEMMA CommandKeepsPlace ==
  ASSUME RedisTypeOK, Command, NEW t \in Task, body'[t] # NoBody, Places(t) # {}
  PROVE  Places(t)' # {}
<1> DEFINE P == \/ t \in Range(immediate) \/ inflight[t] # "none"
                \/ scheduled[t] # "none" \/ InDead(t)
<1>1. (Places(t) # {} <=> P) /\ (Places(t)' # {} <=> P')
  BY ZenonT(60) DEF Places
<1>2. body[t] # NoBody /\ P
  BY ZenonT(60), <1>1, CommandCreatesNoBody
<1> SUFFICES P'
  BY ZenonT(60), <1>1
<1> HIDE DEF P
<1>3. CASE UNCHANGED redisVars
  <2>1. UNCHANGED <<immediate, inflight, scheduled, dead>>
    BY ZenonT(60), <1>3 DEF redisVars
  <2>2. QED
    BY ZenonT(60), <1>2, <2>1 DEF P, InDead
<1>4. ASSUME NEW deadline \in {"live", "expired"}, ClaimBatch(BatchSize, deadline)
      PROVE  P'
  <2>1. UNCHANGED <<scheduled, dead>>
    BY ZenonT(60), <1>4 DEF ClaimBatch
  <2>2. QED
    BY ZenonT(60), <1>2, <1>4, <2>1, ClaimBatchEffect DEF P, InDead
<1>5. ASSUME NEW u \in Task, LeaseExpires(u) \/ ComesDue(u) PROVE P'
  BY ZenonT(60), <1>2, <1>5 DEF LeaseExpires, ComesDue, RedisTypeOK, P, InDead
<1>6. ASSUME NEW u \in Task, PromoteTask(u) PROVE P'
  BY SMTT(60), <1>2, <1>6, LPushRange DEF PromoteTask, RedisTypeOK, P, InDead
<1>7. ASSUME NEW u \in Task, NEW lease \in Nat, RequeueOrDead(u, lease) PROVE P'
  <2> DEFINE st == RequeueStatus(u, lease)
             d == [task |-> u, attempts |-> Counted(u)]
  <2>1. CASE st \in {"fenced", "gone", "renewed"}
    BY ZenonT(60), <1>2, <1>7, <2>1 DEF RequeueOrDead, P, InDead
  <2>2. CASE st = "scheduled"
    BY ZenonT(60), <1>2, <1>7, <2>2 DEF RequeueOrDead, RedisTypeOK, P, InDead
  <2>3. CASE st = "dead"
    <3>1. Counted(u) \in Nat
      BY SMTT(30), <2>3 DEF RequeueStatus, BudgetSpent, Counted, RedisTypeOK, NoBody
    <3>2. d \in DeadBody /\ dead \in Seq(DeadBody) /\ dead' = LPush(dead, d)
      BY SMTT(60), <1>7, <2>3, <3>1 DEF RequeueOrDead, RedisTypeOK, DeadBody
    <3>3. InDead(t)' <=> (InDead(t) \/ t = u)
      BY ZenonT(60), <3>1, <3>2, DeadPush
    <3>4. QED
      BY <1>2, <1>7, <2>3, <3>3 DEF RequeueOrDead, RedisTypeOK, P
  <2>4. CASE st = "no-body"
    <3>1. u # t
      BY <1>2, <2>4 DEF RequeueStatus, Renewed, BudgetSpent
    <3>2. QED
      BY <1>2, <1>7, <2>4, <3>1 DEF RequeueOrDead, RedisTypeOK, P, InDead
  <2>5. QED
    BY SMTT(60), <2>1, <2>2, <2>3, <2>4 DEF RequeueStatus, Renewed, BudgetSpent
<1>8. ASSUME NEW u \in Task, NEW lease \in Nat \ {NoLease}, Heartbeat(u, lease) PROVE P'
  BY SMTT(60), <1>2, <1>8 DEF Heartbeat, RedisTypeOK, P, InDead
<1>9. ASSUME NEW w \in Worker, AckBatch(acks[w]) PROVE P'
  BY ZenonT(60), <1>2, <1>9 DEF AckBatch, P, InDead
<1>10. ASSUME NEW b \in BOOLEAN, SetPaused(b) PROVE P'
  BY ZenonT(60), <1>2, <1>10 DEF SetPaused, P, InDead
<1>11. QED
  BY ZenonT(60), <1>3, <1>4, <1>5, <1>6, <1>7, <1>8, <1>9, <1>10 DEF Command

(* A task in the ready list is in a place, however it got there. *)
LEMMA GatewayKeepsPlaces ==
  ASSUME TypeInv, NEW u \in Task, GatewayStep(u), NEW t \in Task
  PROVE  /\ Places(t) # {} => Places(t)' # {}
         /\ ~Enqueued(t) /\ Enqueued(t)' => Places(t)' # {}
         /\ Enqueued(t) => Enqueued(t)' /\ body'[t] = body[t]
<1> USE DEF TypeInv, TypeOK, RedisTypeOK, GatewayTypeOK
<1>1. CASE JournalEnqueue(u) \/ Materialize(u)
  <2>1. UNCHANGED redisVars /\ (Enqueued(t)' <=> Enqueued(t))
    BY SMTT(60), <1>1 DEF JournalEnqueue, Materialize, Enqueued
  <2>2. Places(t)' = Places(t) /\ body'[t] = body[t]
    BY <2>1 DEF Places, InDead, redisVars
  <2>3. QED
    BY <2>1, <2>2
<1>2. ASSUME NEW reply \in GatewayReplies, StoreBody(u, reply)
      PROVE  /\ Places(t)' = Places(t) /\ Enqueued(t)' = Enqueued(t)
             /\ Enqueued(t) => body'[t] = body[t]
  BY SMTT(60), <1>2 DEF StoreBody, SetBody, Enqueued, Places, InDead, redisVars
<1>3. ASSUME NEW reply \in GatewayReplies, NEW copies \in 1..2, PushImmediate(u, reply, copies)
      PROVE  /\ Places(t) # {} => Places(t)' # {}
             /\ ~Enqueued(t) /\ Enqueued(t)' => Places(t)' # {}
             /\ Enqueued(t) => Enqueued(t)' /\ body'[t] = body[t]
  <2>1. CASE reply = "none"
    BY ZenonT(60), <1>3, <2>1 DEF PushImmediate, Enqueued, Places, InDead, redisVars
  <2>2. CASE reply # "none"
    <3>1. LPush(immediate, u) \in Seq(Task)
      BY ZenonT(60), LPushProperties
    <3>2. Range(immediate') = Range(immediate) \cup {u}
      BY <1>3, <2>2, <3>1, LPushRange DEF PushImmediate, PushReady
    <3>3. QED
      BY ZenonT(60), <1>3, <2>2, <3>2
         DEF PushImmediate, PushReady, Enqueued, Places, InDead
  <2>3. QED
    BY SMTT(60), <2>1, <2>2
<1>4. ASSUME NEW reply \in GatewayReplies, NEW score \in {"waiting", "due"},
             PushScheduled(u, reply, score)
      PROVE  /\ Places(t) # {} => Places(t)' # {}
             /\ ~Enqueued(t) /\ Enqueued(t)' => Places(t)' # {}
             /\ Enqueued(t) => Enqueued(t)' /\ body'[t] = body[t]
  <2>1. body' = body /\ (Enqueued(t) => Enqueued(t)')
    BY SMTT(60), <1>4 DEF PushScheduled, AddScheduled, Enqueued, redisVars
  <2>2. Places(t) # {} => Places(t)' # {}
    <3>1. /\ UNCHANGED <<immediate, inflight, dead>>
          /\ scheduled[t] # "none" => scheduled'[t] # "none"
      BY <1>4 DEF PushScheduled, AddScheduled, redisVars
    <3>2. QED
      BY ZenonT(60), <3>1 DEF Places, InDead
  <2>3. ~Enqueued(t) /\ Enqueued(t)' => scheduled'[t] # "none"
    BY <1>4 DEF PushScheduled, AddScheduled, Enqueued
  <2>4. scheduled'[t] # "none" => Places(t)' # {}
    BY ZenonT(60) DEF Places
  <2>5. QED
    BY ZenonT(60), <2>1, <2>2, <2>3, <2>4
<1>5. QED
  BY ZenonT(60), <1>1, <1>2, <1>3, <1>4 DEF GatewayStep

(* No step loses a task that has a place. *)
LEMMA PlaceKept ==
  ASSUME TypeInv, [Next]_vars, NEW t \in Task, Enqueued(t)', body'[t] # NoBody,
         Enqueued(t) /\ body[t] # NoBody => Places(t) # {}
  PROVE  Places(t)' # {}
<1>1. ASSUME NEW u \in Task, GatewayStep(u) PROVE Places(t)' # {}
  BY ZenonT(60), <1>1, GatewayKeepsPlaces
<1>2. ASSUME Command, UNCHANGED gw PROVE Places(t)' # {}
  <2>1. Enqueued(t) /\ body[t] # NoBody
    BY <1>2, CommandCreatesNoBody DEF Enqueued, TypeInv, TypeOK
  <2>2. QED
    BY ZenonT(60), <1>2, <2>1, CommandKeepsPlace DEF TypeInv, TypeOK
<1>3. QED
  BY <1>1, <1>2, StepIsCommand

(* A task that was put in the queue and not acknowledged stays in one of   *)
(* the ready list, the inflight set, the scheduled set and the dead        *)
(* letters, whatever answers are lost, pools die or pushes are repeated.   *)
THEOREM NothingLost == Spec => []NoTaskLost
<1> DEFINE I == TypeInv /\ NoTaskLost
<1>1. Init => I
  BY ZenonT(60), TypeInit DEF Init, GatewayInit, Enqueued, NoTaskLost
<1>2. I /\ [Next]_vars => I'
  BY ZenonT(60), TypeStep, PlaceKept DEF NoTaskLost
<1>3. QED
  BY <1>1, <1>2, PTL DEF Spec
-----------------------------------------------------------------------------
(* Only ackBatch deletes a body. *)
LEMMA DeleteStep ==
  ASSUME TypeInv, [Next]_vars, NEW t \in Task, body[t] # NoBody, body'[t] = NoBody
  PROVE  \E w \in Worker : AcksClaim(w, t)
<1> USE DEF TypeInv, TypeOK, RedisTypeOK
<1>1. ~ \E u \in Task : GatewayStep(u)
  BY DEF GatewayStep, JournalEnqueue, StoreBody, PushImmediate, PushScheduled,
         Materialize, SetBody, PushReady, AddScheduled, redisVars, NoBody
<1>2. ASSUME NEW u \in Task, NEW lease \in Nat, RequeueOrDead(u, lease) PROVE FALSE
  <2>1. body \in [Task -> Nat \cup {NoBody}]
    BY ZenonT(60)
  <2>2. body'[t] = body[t] \/ body'[t] = Counted(t)
    <3>1. body' = body \/ body' = [body EXCEPT ![u] = Counted(u)]
      BY ZenonT(60), <1>2 DEF RequeueOrDead
    <3>2. QED
      BY ZenonT(60), <2>1, <3>1
  <2>3. Counted(t) # NoBody
    <3> HIDE DEF TypeInv, TypeOK, RedisTypeOK
    <3>1. QED
      BY <2>1 DEF Counted, NoBody
  <2>4. QED
    BY ZenonT(60), <2>2, <2>3
<1>3. PICK w \in Worker : AckBatch(acks[w]) /\ \E reply \in PoolReplies : AckTasks(w, reply)
  <2>1. body' # body
    BY ZenonT(60)
  <2>2. Command
    BY ZenonT(60), <1>1, StepIsCommand
  <2>3. QED
    BY ZenonT(60), <1>2, <2>1, <2>2
    DEF Command, ClaimBatch, LeaseExpires, ComesDue, PromoteTask, Heartbeat, SetPaused, redisVars
<1>4. \E c \in acks[w] : c.task = t /\ c.lease = leases[t]
  <2>1. t \in {c.task : c \in Acked(acks[w])}
    BY ZenonT(60), <1>3 DEF AckBatch
  <2>2. QED
    BY ZenonT(60), <2>1 DEF Acked
<1>5. QED
  BY ZenonT(60), <1>3, <1>4 DEF AcksClaim

(* A task's body is deleted in the ackBatch of a worker alone, for a claim *)
(* of that worker's which the script has found under the current lease;    *)
(* that claim is one whose handler returned nil.                           *)
THEOREM OnlyOwnerDeletes == Spec => DeletedOnlyByOwner
<1> DEFINE A == \A t \in Task :
                  body[t] # NoBody /\ body'[t] = NoBody =>
                    \E w \in Worker : AcksClaim(w, t)
<1>1. TypeInv /\ [Next]_vars => [A]_vars
  BY DeleteStep
<1>2. QED
  BY <1>1, TypeInvariant, PTL DEF Spec, DeletedOnlyByOwner
=============================================================================
