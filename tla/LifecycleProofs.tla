-------------------------- MODULE LifecycleProofs ---------------------------
(***************************************************************************)
(* What each command does to each task: it leaves the task where it is     *)
(* (Same) or moves it along one edge of the life cycle.  From that, when   *)
(* no LPUSH is applied twice (ClientRetries is FALSE), every task is in    *)
(* one place and the system implements TaskLifecycle.                      *)
(***************************************************************************)
EXTENDS ForgeQueueProofs

Ready(t)   == t \in Range(immediate)
Claimed(t) == inflight[t] # "none"
Waiting(t) == scheduled[t] # "none"

OnlyReady(t)   == Ready(t)  /\ ~Claimed(t) /\ ~Waiting(t) /\ ~InDead(t)
OnlyClaimed(t) == ~Ready(t) /\ Claimed(t)  /\ ~Waiting(t) /\ ~InDead(t)
OnlyWaiting(t) == ~Ready(t) /\ ~Claimed(t) /\ Waiting(t)  /\ ~InDead(t)
OnlyDead(t)    == ~Ready(t) /\ ~Claimed(t) /\ ~Waiting(t) /\ InDead(t)
Nowhere(t)     == ~Ready(t) /\ ~Claimed(t) /\ ~Waiting(t) /\ ~InDead(t)

(* Each lease but the current one was paid for with an attempt. *)
Paid(t) ==
  t \notin Undecodable /\ body[t] # NoBody =>
    issued[t] = body[t] + (IF Claimed(t) THEN 1 ELSE 0)

(* What Paid asks of a task whose attempts were b under i leases, c saying *)
(* whether one is current, still holds when the task gets a lease, when it *)
(* gives one up for an attempt, and when nothing changes.                  *)
LEMMA LeasePaid ==
  ASSUME NEW b \in Nat \cup {NoBody}, NEW i \in Nat, NEW c \in BOOLEAN,
         NEW bb, NEW ii, NEW cc \in BOOLEAN,
         b # NoBody => i = b + (IF c THEN 1 ELSE 0), bb # NoBody,
         \/ bb = b /\ ii = i /\ (cc <=> c)
         \/ bb = b /\ ii = i + 1 /\ ~c /\ cc
         \/ bb = b + 1 /\ ii = i /\ c /\ ~cc /\ b # NoBody
  PROVE  ii = bb + (IF cc THEN 1 ELSE 0)
  OBVIOUS

(* A task that was just stored has paid for its leases: it had none. *)
LEMMA NothingOwed == 0 # NoBody /\ 0 = 0 + 0
  BY DEF NoBody

(* The inductive strengthening of SingleLocation and QueuedHasBody for one *)
(* task: before the gateway's push the task is nowhere and was never       *)
(* claimed, its body is written before the push, and its leases are paid   *)
(* for.                                                                    *)
TaskInv(t) ==
  /\ OnlyReady(t) \/ OnlyClaimed(t) \/ OnlyWaiting(t) \/ OnlyDead(t) \/ Nowhere(t)
  /\ ~Nowhere(t) => body[t] # NoBody
  /\ gw[t] \in {"new", "journaled", "stored"} => Nowhere(t) /\ issued[t] = 0
  /\ gw[t] \in {"new", "journaled"} => body[t] = NoBody
  /\ gw[t] = "stored" => body[t] # NoBody
  /\ Paid(t)

ListInv ==
  /\ \A i, j \in DOMAIN immediate : immediate[i] = immediate[j] => i = j
  /\ \A i, j \in DOMAIN dead : dead[i].task = dead[j].task => i = j

PlaceInv == LeaseInv /\ ListInv /\ \A t \in Task : TaskInv(t)

(* The step leaves t where it is. *)
Same(t) ==
  /\ Ready(t)'   <=> Ready(t)
  /\ Claimed(t)' <=> Claimed(t)
  /\ Waiting(t)' <=> Waiting(t)
  /\ InDead(t)'  <=> InDead(t)
  /\ body'[t] = body[t] /\ issued'[t] = issued[t]

(* The edges of the life cycle as the Redis keys show them. *)
HandsOut(t) ==
  OnlyReady(t) /\ OnlyClaimed(t)' /\ body'[t] = body[t] /\ issued'[t] = issued[t] + 1
Retries(t) ==
  /\ t \notin Undecodable /\ (MaxRetries[t] > 0 => body[t] + 1 < MaxRetries[t])
  /\ OnlyClaimed(t) /\ OnlyWaiting(t)' /\ body'[t] = body[t] + 1 /\ issued'[t] = issued[t]
Buries(t) ==
  /\ OnlyClaimed(t) /\ OnlyDead(t)' /\ issued'[t] = issued[t]
  /\ \/ t \in Undecodable /\ body'[t] = body[t]
     \/ /\ t \notin Undecodable /\ body'[t] = body[t] + 1
        /\ MaxRetries[t] > 0 /\ body[t] + 1 >= MaxRetries[t]
Completes(t) ==
  /\ t \notin Undecodable
  /\ OnlyClaimed(t) /\ Nowhere(t)' /\ body'[t] = NoBody /\ issued'[t] = issued[t]
Promotes(t) ==
  OnlyWaiting(t) /\ OnlyReady(t)' /\ body'[t] = body[t] /\ issued'[t] = issued[t]
Submits(t) ==
  /\ Nowhere(t) /\ (OnlyReady(t)' \/ OnlyWaiting(t)')
  /\ gw[t] = "stored" /\ body'[t] = body[t] /\ issued'[t] = issued[t]
Stores(t) ==
  /\ Nowhere(t) /\ Nowhere(t)' /\ gw[t] = "journaled"
  /\ body'[t] = 0 /\ issued'[t] = issued[t]

(* Only task u is moved, along the edge E. *)
OnlyTask(u, E) == E /\ \A t \in Task \ {u} : Same(t)

USE DEF LeaseInv, TypeInv, TypeOK
-----------------------------------------------------------------------------
(* LPUSH of a task that is not in a list without repetitions leaves none. *)
LEMMA LPushDistinct ==
  ASSUME NEW S, NEW s \in Seq(S), NEW x \in S, x \notin Range(s),
         \A i, j \in DOMAIN s : s[i] = s[j] => i = j
  PROVE  LET p == LPush(s, x) IN \A i, j \in DOMAIN p : p[i] = p[j] => i = j
<1> DEFINE p == LPush(s, x)
<1>1. /\ Len(s) \in Nat /\ DOMAIN s = 1..Len(s) /\ DOMAIN p = 1..Len(s) + 1
      /\ p[1] = x
      /\ \A i \in 2..Len(s) + 1 : p[i] = s[i - 1]
  BY LPushProperties, SeqFacts
<1> HIDE DEF p
<1>2. \A i \in 1..Len(s) : s[i] # x
  BY <1>1 DEF Range
<1>3. ASSUME NEW i \in DOMAIN p, NEW j \in DOMAIN p, p[i] = p[j] PROVE i = j
  <2>1. ASSUME NEW k \in DOMAIN p, k # 1 PROVE k - 1 \in 1..Len(s) /\ p[k] = s[k - 1] /\ k \in Nat
    BY <1>1, <2>1
  <2>2. CASE i = 1 \/ j = 1
    BY ZenonT(60), <1>1, <1>2, <1>3, <2>1, <2>2
  <2>3. CASE i # 1 /\ j # 1
    <3>1. i - 1 = j - 1
      BY <1>1, <1>3, <2>1, <2>3
    <3>2. QED
      BY SMTT(60), <2>1, <2>3, <3>1
  <2>4. QED
    BY <2>2, <2>3
<1>4. QED
  BY <1>3 DEF p

(* A dead letter for a task that had none leaves one for each task. *)
LEMMA DeadPushDistinct ==
  ASSUME NEW q \in Seq(DeadBody), NEW d \in DeadBody,
         \A i \in DOMAIN q : q[i].task # d.task,
         \A i, j \in DOMAIN q : q[i].task = q[j].task => i = j
  PROVE  LET p == LPush(q, d) IN \A i, j \in DOMAIN p : p[i].task = p[j].task => i = j
<1> DEFINE p == LPush(q, d)
<1>1. /\ Len(q) \in Nat /\ DOMAIN q = 1..Len(q) /\ DOMAIN p = 1..Len(q) + 1
      /\ p[1] = d
      /\ \A i \in 2..Len(q) + 1 : p[i] = q[i - 1]
  BY LPushProperties, SeqFacts
<1> HIDE DEF p
<1>2. ASSUME NEW i \in DOMAIN p, NEW j \in DOMAIN p, p[i].task = p[j].task PROVE i = j
  <2>1. ASSUME NEW k \in DOMAIN p, k # 1 PROVE k - 1 \in DOMAIN q /\ p[k] = q[k - 1] /\ k \in Nat
    BY <1>1, <2>1
  <2>2. CASE i = 1 \/ j = 1
    BY <1>1, <1>2, <2>1, <2>2
  <2>3. CASE i # 1 /\ j # 1
    <3>1. i - 1 = j - 1
      BY <1>2, <2>1, <2>3
    <3>2. QED
      BY <2>1, <2>3, <3>1
  <2>4. QED
    BY <2>2, <2>3
<1>3. QED
  BY <1>2 DEF p

(* claimBatch on a list without repetitions: one lease for each popped     *)
(* task, and none of them is left in the list.                             *)
LEMMA ClaimBatchDistinct ==
  ASSUME RedisTypeOK, ListInv, NEW deadline, ClaimBatch(BatchSize, deadline)
  PROVE  /\ ListInv'
         /\ \A t \in Task : t \in Range(Popped(BatchSize)) =>
              t \notin Range(immediate') /\ issued'[t] = issued[t] + 1
<1> DEFINE s == Popped(BatchSize)
           rest == SubSeq(immediate, Len(s) + 1, Len(immediate))
<1>1. /\ s \in Seq(Task) /\ rest \in Seq(Task) /\ Len(immediate) \in Nat
      /\ DOMAIN s = 1..Len(s) /\ DOMAIN rest = 1..Len(rest)
      /\ DOMAIN immediate = 1..Len(immediate)
      /\ Len(s) \in 0..Len(immediate)
      /\ \A i \in 1..Len(s) : s[i] = immediate[i]
      /\ Len(rest) = Len(immediate) - Len(s)
      /\ \A i \in 1..Len(rest) : rest[i] = immediate[Len(s) + i]
  BY ZenonT(60), PoppedProperties, SeqFacts DEF RedisTypeOK
<1>2. /\ immediate' = rest /\ dead' = dead
      /\ \A t \in Task : issued'[t] = issued[t] + Occurrences(s, t, Len(s))
  BY DEF ClaimBatch
<1> HIDE DEF s, rest
<1>3. \A i, j \in 1..Len(immediate) : immediate[i] = immediate[j] => i = j
  BY ZenonT(60), <1>1 DEF ListInv
<1>4. ASSUME NEW i \in 1..Len(rest)
      PROVE  Len(s) + i \in 1..Len(immediate) /\ Len(s) + i \notin 1..Len(s)
  BY <1>1
<1>5. ListInv'
  <2>1. ASSUME NEW i \in 1..Len(rest), NEW j \in 1..Len(rest), rest[i] = rest[j]
        PROVE  i = j
    <3>1. Len(s) + i = Len(s) + j
      BY ZenonT(60), <1>1, <1>3, <1>4, <2>1
    <3>2. QED
      BY <1>1, <3>1
  <2>2. QED
    BY <1>1, <1>2, <2>1 DEF ListInv
<1>6. ASSUME NEW t \in Task, t \in Range(s)
      PROVE  t \notin Range(rest) /\ issued'[t] = issued[t] + 1
  <2>1. PICK k \in 1..Len(s) : s[k] = t
    BY <1>1, <1>6 DEF Range
  <2>2. \A i \in 1..Len(rest) : rest[i] # t
    BY <1>1, <1>3, <1>4, <2>1
  <2>3. {i \in 1..Len(s) : s[i] = t} = {k}
    BY <1>1, <1>3, <2>1
  <2>4. Occurrences(s, t, Len(s)) = 1
    BY ZenonT(60), <2>3, FS_Singleton DEF Occurrences
  <2>5. QED
    BY <1>1, <1>2, <2>2, <2>4 DEF Range
<1>7. QED
  BY <1>2, <1>5, <1>6 DEF s
-----------------------------------------------------------------------------
(* What each script does to each task. *)

(* claimBatch hands out the popped tasks. *)
LEMMA ClaimBatchMoves ==
  ASSUME PlaceInv, NEW deadline \in {"live", "expired"}, ClaimBatch(BatchSize, deadline)
  PROVE  /\ ListInv'
         /\ \A t \in Task : IF t \in Range(Popped(BatchSize)) THEN HandsOut(t) ELSE Same(t)
<1> USE DEF PlaceInv
<1>1. ListInv'
  BY ClaimBatchDistinct
<1>2. UNCHANGED <<scheduled, dead, body>>
  BY DEF ClaimBatch
<1>3. ASSUME NEW t \in Task, t \in Range(Popped(BatchSize)) PROVE HandsOut(t)
  <2>1. /\ t \in Range(immediate) /\ inflight'[t] = deadline
        /\ t \notin Range(immediate') /\ issued'[t] = issued[t] + 1
    BY SMTT(60), <1>3, ClaimBatchEffect, ClaimBatchDistinct
  <2>2. OnlyReady(t)
    BY <2>1 DEF TaskInv, OnlyReady, OnlyClaimed, OnlyWaiting, OnlyDead, Nowhere, Ready
  <2>3. QED
    BY <1>2, <2>1, <2>2 DEF HandsOut, OnlyReady, OnlyClaimed, Ready, Claimed, Waiting, InDead
<1>4. ASSUME NEW t \in Task, t \notin Range(Popped(BatchSize)) PROVE Same(t)
  BY <1>2, <1>4, ClaimBatchEffect DEF Same, Ready, Claimed, Waiting, InDead
<1>5. QED
  BY <1>1, <1>3, <1>4

(* requeueOrDead retries or buries the one task it is given, or does       *)
(* nothing; it never finds a claimed task without its body.                *)
LEMMA RequeueOrDeadMoves ==
  ASSUME PlaceInv, NEW u \in Task, NEW lease \in Nat, RequeueOrDead(u, lease)
  PROVE  /\ ListInv'
         /\ OnlyTask(u, Same(u) \/ Retries(u) \/ Buries(u))
<1> USE DEF PlaceInv
<1> DEFINE st == RequeueStatus(u, lease)
           d == [task |-> u, attempts |-> Counted(u)]
<1>1. CASE st \in {"fenced", "gone", "renewed"}
  BY <1>1 DEF RequeueOrDead, ListInv, OnlyTask, Same, Ready, Claimed, Waiting, InDead
<1>2. CASE st \notin {"fenced", "gone", "renewed"}
  <2>1. Claimed(u)
    BY <1>2 DEF RequeueStatus, LeaseTableAgrees, Claimed
  <2>2. OnlyClaimed(u) /\ body[u] \in Nat
    BY <2>1 DEF TaskInv, OnlyReady, OnlyClaimed, OnlyWaiting, OnlyDead, Nowhere, RedisTypeOK
  <2>3. UNCHANGED <<immediate, issued>> /\ inflight' = [inflight EXCEPT ![u] = "none"]
    BY <1>2 DEF RequeueOrDead
  <2>4. \A t \in Task \ {u} : UNCHANGED <<inflight[t], scheduled[t], body[t]>>
    BY DEF RequeueOrDead, RedisTypeOK
  <2>5. CASE st = "scheduled"
    <3>1. /\ dead' = dead /\ scheduled'[u] = "waiting" /\ body'[u] = Counted(u)
          /\ inflight'[u] = "none"
      BY <2>5 DEF RequeueOrDead, RedisTypeOK
    <3>2. /\ u \notin Undecodable /\ (MaxRetries[u] > 0 => body[u] + 1 < MaxRetries[u])
          /\ Counted(u) = body[u] + 1
      <4>1. u \notin Undecodable /\ ~(MaxRetries[u] > 0 /\ body[u] + 1 >= MaxRetries[u])
        BY <2>5 DEF RequeueStatus, Renewed, BudgetSpent
      <4>2. MaxRetries[u] \in Int
        BY SMTT(60), TaskAssumption
      <4>3. QED
        BY <2>2, <4>1, <4>2 DEF Counted
    <3>3. Retries(u)
      BY ZenonT(60), <2>2, <2>3, <3>1, <3>2
         DEF Retries, OnlyClaimed, OnlyWaiting, Ready, Claimed, Waiting, InDead
    <3>4. QED
      BY ZenonT(60), <2>3, <2>4, <3>1, <3>3
         DEF OnlyTask, ListInv, Same, Ready, Claimed, Waiting, InDead
  <2>6. CASE st = "dead"
    <3>1. /\ dead' = LPush(dead, d) /\ scheduled' = scheduled /\ body'[u] = Counted(u)
          /\ inflight'[u] = "none"
      BY <2>6 DEF RequeueOrDead, RedisTypeOK
    <3>2. Counted(u) \in Nat
      BY <2>2 DEF Counted
    <3>3. d \in DeadBody /\ dead \in Seq(DeadBody)
      BY SMTT(60), <3>2 DEF DeadBody, RedisTypeOK
    <3>4. \A t \in Task : InDead(t)' <=> (InDead(t) \/ t = u)
      BY SMTT(60), <3>1, <3>2, <3>3, DeadPush
    <3>5. ListInv'
      <4>1. d.task = u /\ \A i \in DOMAIN dead : dead[i].task # u
        BY <2>2 DEF OnlyClaimed, InDead
      <4> HIDE DEF d
      <4>2. \A i, j \in DOMAIN dead' : dead'[i].task = dead'[j].task => i = j
        BY ZenonT(60), <3>1, <3>3, <4>1, DeadPushDistinct DEF ListInv
      <4>3. QED
        BY <2>3, <4>2 DEF ListInv
    <3>6. Buries(u)
      <4>1. \/ u \in Undecodable /\ Counted(u) = body[u]
            \/ /\ u \notin Undecodable /\ Counted(u) = body[u] + 1
               /\ MaxRetries[u] > 0 /\ body[u] + 1 >= MaxRetries[u]
        BY <2>6 DEF RequeueStatus, BudgetSpent, Counted
      <4>2. QED
        BY ZenonT(60), <2>2, <2>3, <3>1, <3>4, <4>1
           DEF Buries, OnlyClaimed, OnlyDead, Ready, Claimed, Waiting, InDead
    <3>7. QED
      BY ZenonT(60), <2>3, <2>4, <3>1, <3>4, <3>5, <3>6
         DEF OnlyTask, Same, Ready, Claimed, Waiting, InDead
  <2>7. st # "no-body"
    BY <2>2 DEF RequeueStatus, NoBody
  <2>8. QED
    BY SMTT(60), <1>2, <2>5, <2>6, <2>7 DEF RequeueStatus, Renewed, BudgetSpent
<1>3. QED
  BY SMTT(60), <1>1, <1>2

(* ackBatch completes the tasks it finds under the presented leases. *)
LEMMA AckBatchMoves ==
  ASSUME PlaceInv, NEW w \in Worker, AckBatch(acks[w])
  PROVE  /\ ListInv'
         /\ \A t \in Task : IF t \in {c.task : c \in Acked(acks[w])} THEN Completes(t) ELSE Same(t)
<1> USE DEF PlaceInv
<1>1. UNCHANGED <<immediate, scheduled, dead, issued>>
  BY DEF AckBatch
<1>2. ASSUME NEW t \in Task, t \in {c.task : c \in Acked(acks[w])} PROVE Completes(t)
  <2>1. PICK c \in acks[w] : c.task = t /\ leases[t] = c.lease
    BY <1>2 DEF Acked
  <2>2. t \notin Undecodable
    BY <2>1 DEF WorkerControl, Runnable
  <2>3. c \in Claim
    BY DEF PoolTypeOK
  <2>4. c.lease # NoLease
    BY SMTT(60), <2>3 DEF Claim
  <2>5. OnlyClaimed(t)
    BY ZenonT(60), <2>1, <2>4
       DEF LeaseTableAgrees, TaskInv, OnlyReady, OnlyClaimed, OnlyWaiting,
                      OnlyDead, Nowhere, Claimed
  <2>6. inflight'[t] = "none" /\ body'[t] = NoBody
    BY <1>2 DEF AckBatch
  <2>7. QED
    BY ZenonT(60), <1>1, <2>2, <2>5, <2>6
       DEF Completes, OnlyClaimed, Nowhere, Ready, Claimed, Waiting, InDead
<1>3. ASSUME NEW t \in Task, t \notin {c.task : c \in Acked(acks[w])} PROVE Same(t)
  BY SMTT(60), <1>1, <1>3 DEF AckBatch, Same, Ready, Claimed, Waiting, InDead
<1>4. ListInv'
  BY <1>1 DEF ListInv
<1>5. QED
  BY SMTT(60), <1>2, <1>3, <1>4

(* promoteTask moves the one task it is given, if it is due. *)
LEMMA PromoteTaskMoves ==
  ASSUME PlaceInv, NEW u \in Task, PromoteTask(u)
  PROVE  /\ ListInv'
         /\ OnlyTask(u, Same(u) \/ Promotes(u))
<1> USE DEF PlaceInv
<1>1. CASE scheduled[u] # "due"
  BY ZenonT(60), <1>1
     DEF PromoteTask, ListInv, OnlyTask, Same, Ready, Claimed, Waiting, InDead
<1>2. CASE scheduled[u] = "due"
  <2>1. OnlyWaiting(u)
    BY SMTT(60), <1>2
       DEF TaskInv, OnlyReady, OnlyClaimed, OnlyWaiting, OnlyDead, Nowhere, Waiting
  <2>2. /\ UNCHANGED <<inflight, dead, body, issued>>
        /\ immediate' = LPush(immediate, u)
        /\ scheduled' = [scheduled EXCEPT ![u] = "none"]
    BY <1>2 DEF PromoteTask
  <2>3. Range(immediate') = Range(immediate) \cup {u}
    BY <2>2, LPushRange DEF RedisTypeOK
  <2>4. ListInv'
    <3>1. u \notin Range(immediate) /\ immediate \in Seq(Task)
      BY <2>1 DEF OnlyWaiting, Ready, RedisTypeOK
    <3>2. \A i, j \in DOMAIN immediate' : immediate'[i] = immediate'[j] => i = j
      BY SMTT(60), <2>2, <3>1, LPushDistinct DEF ListInv
    <3>3. QED
      BY <2>2, <3>2 DEF ListInv
  <2>5. scheduled'[u] = "none" /\ \A t \in Task \ {u} : scheduled'[t] = scheduled[t]
    BY SMTT(60), <2>2 DEF RedisTypeOK
  <2>6. QED
    BY ZenonT(60), <2>1, <2>2, <2>3, <2>4, <2>5
       DEF Promotes, OnlyTask, OnlyWaiting, OnlyReady, Same, Ready, Claimed, Waiting, InDead
<1>3. QED
  BY SMTT(60), <1>1, <1>2

(* The other commands move nothing. *)
LEMMA OtherCommandsMoveNothing ==
  ASSUME PlaceInv,
         \/ UNCHANGED redisVars
         \/ \E t \in Task : \/ LeaseExpires(t) \/ ComesDue(t)
                            \/ \E lease \in Nat \ {NoLease} : Heartbeat(t, lease)
         \/ \E b \in BOOLEAN : SetPaused(b)
  PROVE  ListInv' /\ \A t \in Task : Same(t)
<1> USE DEF PlaceInv, ListInv, Same, Ready, Claimed, Waiting, InDead, RedisTypeOK
<1>1. CASE UNCHANGED redisVars \/ \E b \in BOOLEAN : SetPaused(b)
  BY SMTT(60), <1>1 DEF SetPaused, redisVars
<1>2. ASSUME NEW u \in Task, LeaseExpires(u) PROVE ListInv' /\ \A t \in Task : Same(t)
  BY SMTT(60), <1>2 DEF LeaseExpires
<1>3. ASSUME NEW u \in Task, ComesDue(u) PROVE ListInv' /\ \A t \in Task : Same(t)
  BY SMTT(60), <1>3 DEF ComesDue
<1>4. ASSUME NEW u \in Task, NEW lease \in Nat \ {NoLease}, Heartbeat(u, lease)
      PROVE  ListInv' /\ \A t \in Task : Same(t)
  <2>1. leases[u] = lease => inflight[u] # "none"
    BY SMTT(60) DEF LeaseTableAgrees
  <2>2. QED
    BY ZenonT(60), <1>4, <2>1 DEF Heartbeat
<1>5. QED
  BY ZenonT(60), <1>1, <1>2, <1>3, <1>4

(* The gateway writes the body of its own task and pushes it once. *)
LEMMA GatewayMoves ==
  ASSUME ClientRetries = FALSE, PlaceInv, NEW u \in Task, GatewayStep(u)
  PROVE  /\ ListInv'
         /\ OnlyTask(u, Same(u) \/ Stores(u) \/ Submits(u))
         /\ \A t \in Task \ {u} : gw'[t] = gw[t]
         /\ gw'[u] = "stored" => Stores(u)
         /\ gw'[u] \in {"new", "journaled"} => gw[u] = "new" /\ Same(u)
<1> USE DEF PlaceInv, GatewayTypeOK
<1> DEFINE Goal == /\ ListInv'
                   /\ OnlyTask(u, Same(u) \/ Stores(u) \/ Submits(u))
                   /\ \A t \in Task \ {u} : gw'[t] = gw[t]
                   /\ gw'[u] = "stored" => Stores(u)
                   /\ gw'[u] \in {"new", "journaled"} => gw[u] = "new" /\ Same(u)
<1>1. UNCHANGED redisVars => ListInv' /\ \A t \in Task : Same(t)
  BY ZenonT(60), OtherCommandsMoveNothing
<1>2. gw[u] \in {"journaled", "stored"} => Nowhere(u) /\ issued[u] = 0
  BY DEF TaskInv
<1>3. CASE JournalEnqueue(u) \/ Materialize(u)
  BY ZenonT(60), <1>1, <1>3 DEF JournalEnqueue, Materialize, OnlyTask
<1>4. ASSUME NEW reply \in GatewayReplies, StoreBody(u, reply) PROVE Goal
  <2>1. CASE reply = "none"
    BY SMTT(60), <1>1, <1>4, <2>1 DEF StoreBody, OnlyTask
  <2>2. CASE reply # "none"
    <3>1. /\ UNCHANGED <<immediate, inflight, scheduled, dead, issued>>
          /\ body'[u] = 0 /\ \A t \in Task \ {u} : body'[t] = body[t]
      BY ZenonT(60), <1>4, <2>2 DEF StoreBody, SetBody, RedisTypeOK
    <3>2. ListInv' /\ \A t \in Task \ {u} : Same(t)
      BY SMTT(60), <3>1 DEF ListInv, Same, Ready, Claimed, Waiting, InDead
    <3>3. Stores(u)
      BY ZenonT(60), <1>2, <1>4, <3>1
         DEF StoreBody, Stores, Nowhere, Ready, Claimed, Waiting, InDead
    <3>4. QED
      BY ZenonT(60), <1>4, <3>2, <3>3 DEF StoreBody, OnlyTask
  <2>3. QED
    BY <2>1, <2>2
<1>5. ASSUME NEW reply \in GatewayReplies, NEW copies \in 1..2, PushImmediate(u, reply, copies)
      PROVE  Goal
  <2>1. CASE reply = "none"
    BY ZenonT(60), <1>1, <1>5, <2>1 DEF PushImmediate, OnlyTask
  <2>2. CASE reply # "none"
    <3>1. copies = 1
      BY <1>5 DEF PushImmediate
    <3>2. /\ UNCHANGED <<inflight, scheduled, dead, body, issued>>
          /\ immediate' = LPush(immediate, u)
      BY ZenonT(60), <1>5, <2>2, <3>1 DEF PushImmediate, PushReady
    <3>3. immediate \in Seq(Task) /\ gw[u] = "stored" /\ Nowhere(u) /\ u \notin Range(immediate)
      BY <1>2, <1>5 DEF PushImmediate, RedisTypeOK, Nowhere, Ready
    <3>4. Range(immediate') = Range(immediate) \cup {u}
      BY SMTT(60), <3>2, <3>3, LPushRange
    <3>5. \A i, j \in DOMAIN immediate' : immediate'[i] = immediate'[j] => i = j
      BY SMTT(60), <3>2, <3>3, LPushDistinct DEF ListInv
    <3>6. ListInv'
      BY ZenonT(60), <3>2, <3>5 DEF ListInv
    <3>7. Submits(u) /\ \A t \in Task \ {u} : Same(t)
      BY ZenonT(60), <3>2, <3>3, <3>4
         DEF Submits, Same, Nowhere, OnlyReady, OnlyWaiting, Ready, Claimed, Waiting, InDead
    <3>8. QED
      BY ZenonT(60), <1>5, <3>6, <3>7 DEF PushImmediate, OnlyTask
  <2>3. QED
    BY SMTT(60), <2>1, <2>2
<1>6. ASSUME NEW reply \in GatewayReplies, NEW score \in {"waiting", "due"},
             PushScheduled(u, reply, score)
      PROVE  Goal
  <2>1. CASE reply = "none"
    BY ZenonT(60), <1>1, <1>6, <2>1 DEF PushScheduled, OnlyTask
  <2>2. CASE reply # "none"
    <3>1. /\ UNCHANGED <<immediate, inflight, dead, body, issued>>
          /\ scheduled'[u] = score /\ \A t \in Task \ {u} : scheduled'[t] = scheduled[t]
      BY SMTT(60), <1>6, <2>2 DEF PushScheduled, AddScheduled, RedisTypeOK
    <3>2. Nowhere(u) /\ gw[u] = "stored"
      BY ZenonT(60), <1>2, <1>6 DEF PushScheduled
    <3>3. Submits(u) /\ \A t \in Task \ {u} : Same(t)
      BY ZenonT(60), <3>1, <3>2
         DEF Submits, Same, Nowhere, OnlyReady, OnlyWaiting, Ready, Claimed, Waiting, InDead
    <3>4. ListInv'
      BY <3>1 DEF ListInv
    <3>5. QED
      BY ZenonT(60), <1>6, <3>3, <3>4 DEF PushScheduled, OnlyTask
  <2>3. QED
    BY <2>1, <2>2
<1>7. QED
  BY ZenonT(60), <1>3, <1>4, <1>5, <1>6 DEF GatewayStep
-----------------------------------------------------------------------------
(* The invariant. *)

(* Every edge of the life cycle keeps TaskInv, the gateway standing still. *)
LEMMA MoveKeepsTaskInv ==
  ASSUME RedisTypeOK, NEW t \in Task, TaskInv(t), gw'[t] = gw[t],
         Same(t) \/ HandsOut(t) \/ Retries(t) \/ Buries(t) \/ Completes(t) \/ Promotes(t)
  PROVE  TaskInv(t)'
<1>1. Paid(t) /\ body[t] \in Nat \cup {NoBody} /\ issued[t] \in Nat
  BY ZenonT(60) DEF RedisTypeOK, TaskInv
<1>2. body[t] # NoBody => body[t] + 1 # NoBody
  BY <1>1 DEF NoBody
<1>3. Paid(t)'
  <2>1. OnlyClaimed(t) => body[t] # NoBody /\ Claimed(t)
    BY ZenonT(60) DEF TaskInv, Nowhere, OnlyClaimed
  <2>2. \/ body'[t] = body[t] /\ issued'[t] = issued[t] /\ (Claimed(t)' <=> Claimed(t))
        \/ body'[t] = body[t] /\ issued'[t] = issued[t] + 1 /\ ~Claimed(t) /\ Claimed(t)'
        \/ /\ body'[t] = body[t] + 1 /\ issued'[t] = issued[t] /\ Claimed(t) /\ ~Claimed(t)'
           /\ body[t] # NoBody
        \/ t \in Undecodable \/ body'[t] = NoBody
    BY ZenonT(60), <2>1 DEF Same, HandsOut, Retries, Buries, Completes, Promotes,
                            OnlyReady, OnlyClaimed, OnlyWaiting, OnlyDead
  <2>3. Claimed(t) \in BOOLEAN /\ Claimed(t)' \in BOOLEAN
    BY ZenonT(60) DEF Claimed
  <2>4. QED
    BY ZenonT(60), <1>1, <2>2, <2>3, LeasePaid DEF Paid
<1> USE DEF TaskInv, OnlyReady, OnlyClaimed, OnlyWaiting, OnlyDead, Nowhere
<1>4. CASE Same(t)
  BY ZenonT(60), <1>3, <1>4 DEF Same
<1>5. CASE HandsOut(t) \/ Promotes(t)
  BY ZenonT(60), <1>3, <1>5 DEF HandsOut, Promotes
<1>6. CASE Retries(t) \/ Buries(t)
  BY ZenonT(60), <1>2, <1>3, <1>6 DEF Retries, Buries
<1>7. CASE Completes(t)
  BY ZenonT(60), <1>3, <1>7 DEF Completes
<1>8. QED
  BY ZenonT(60), <1>4, <1>5, <1>6, <1>7

(* Every command moves every task along an edge or not at all. *)
LEMMA CommandMoves ==
  ASSUME PlaceInv, Command
  PROVE  /\ ListInv'
         /\ \A t \in Task : \/ Same(t) \/ HandsOut(t) \/ Retries(t) \/ Buries(t)
                            \/ Completes(t) \/ Promotes(t)
<1>1. CASE \E deadline \in {"live", "expired"} : ClaimBatch(BatchSize, deadline)
  BY <1>1, ClaimBatchMoves
<1>2. CASE \E t \in Task : PromoteTask(t)
  BY <1>2, PromoteTaskMoves DEF OnlyTask
<1>3. CASE \E t \in Task : \E lease \in Nat : RequeueOrDead(t, lease)
  BY ZenonT(60), <1>3, RequeueOrDeadMoves DEF OnlyTask
<1>4. CASE \E w \in Worker : AckBatch(acks[w])
  BY ZenonT(60), <1>4, AckBatchMoves
<1>5. QED
  BY ZenonT(60), <1>1, <1>2, <1>3, <1>4, OtherCommandsMoveNothing DEF Command

(* Every step preserves PlaceInv, provided the client library does not     *)
(* resend commands.                                                        *)
LEMMA PlaceStep ==
  ASSUME ClientRetries = FALSE, PlaceInv, LeaseInv', [Next]_vars
  PROVE  PlaceInv'
<1>1. ASSUME NEW u \in Task, GatewayStep(u) PROVE PlaceInv'
  <2>1. ASSUME NEW t \in Task \ {u} PROVE TaskInv(t)'
    BY ZenonT(60), <1>1, <2>1, GatewayMoves, MoveKeepsTaskInv DEF PlaceInv, OnlyTask
  <2>2. TaskInv(u)'
    <3> USE DEF TaskInv, OnlyReady, OnlyClaimed, OnlyWaiting, OnlyDead, Nowhere
    <3>1. TaskInv(u) /\ body[u] \in Nat \cup {NoBody} /\ issued[u] \in Nat
      BY DEF PlaceInv, RedisTypeOK
    <3>2. /\ Same(u) \/ Stores(u) \/ Submits(u)
          /\ gw'[u] = "stored" => Stores(u)
          /\ gw'[u] \in {"new", "journaled"} => gw[u] = "new" /\ Same(u)
      BY ZenonT(60), <1>1, GatewayMoves DEF OnlyTask
    <3>3. CASE Same(u)
      <4>1. gw'[u] \notin {"new", "journaled", "stored"} \/ gw[u] = "new" \/ Stores(u)
        BY ZenonT(60), <3>2
      <4>2. Stores(u) => FALSE
        <5>1. Stores(u) => body'[u] = 0 /\ body[u] = NoBody
          BY ZenonT(60), <3>1 DEF Stores
        <5>2. body'[u] = body[u]
          BY ZenonT(60), <3>3 DEF Same
        <5>3. 0 # NoBody
          BY DEF NoBody
        <5>4. QED
          BY ZenonT(60), <5>1, <5>2, <5>3
      <4>3. Paid(u)'
        <5>1. body'[u] = body[u] /\ issued'[u] = issued[u] /\ (Claimed(u)' <=> Claimed(u))
          BY ZenonT(60), <3>3 DEF Same
        <5>2. QED
          BY ZenonT(60), <3>1, <5>1 DEF Paid, Claimed
      <4>4. QED
        BY ZenonT(60), <3>1, <3>2, <3>3, <4>1, <4>2, <4>3 DEF Same
    <3>4. CASE Stores(u)
      <4>1. issued'[u] = 0 /\ body'[u] = 0 /\ body'[u] # NoBody /\ Nowhere(u)'
        BY ZenonT(60), <3>1, <3>4, NothingOwed DEF Stores
      <4>2. gw'[u] \notin {"new", "journaled"}
        BY ZenonT(60), <3>2, <3>4 DEF Stores
      <4>3. Paid(u)'
        <5>1. ~Claimed(u)'
          BY ZenonT(60), <4>1
        <5>2. QED
          BY ZenonT(60), <4>1, <5>1, NothingOwed DEF Paid
      <4>4. QED
        BY ZenonT(60), <4>1, <4>2, <4>3
    <3>5. CASE Submits(u)
      <4>1. body'[u] = body[u] /\ issued'[u] = issued[u] /\ ~Claimed(u) /\ ~Claimed(u)'
        BY ZenonT(60), <3>5 DEF Submits
      <4>2. Paid(u)'
        BY ZenonT(60), <3>1, <4>1 DEF Paid
      <4>3. QED
        BY ZenonT(60), <3>1, <3>2, <3>5, <4>2 DEF Submits, Same, Stores
    <3>6. QED
      BY ZenonT(60), <3>2, <3>3, <3>4, <3>5
  <2>3. QED
    BY ZenonT(60), <1>1, <2>1, <2>2, GatewayMoves DEF PlaceInv
<1>2. ASSUME Command, UNCHANGED gw PROVE PlaceInv'
  BY <1>2, CommandMoves, MoveKeepsTaskInv DEF PlaceInv
<1>3. QED
  BY <1>1, <1>2, StepIsCommand DEF PlaceInv

(* PlaceInv holds as long as no command is applied twice. *)
LEMMA PlaceInvariant == ASSUME ClientRetries = FALSE PROVE Spec => []PlaceInv
<1>1. Init => LeaseInv /\ PlaceInv
  <2> SUFFICES ASSUME Init PROVE LeaseInv /\ PlaceInv
    OBVIOUS
  <2>1. LeaseInv
    BY TypeInit DEF Init, RedisInit, LeaseTableAgrees
  <2>2. /\ immediate = <<>> /\ dead = <<>> /\ DOMAIN immediate = {} /\ DOMAIN dead = {}
    BY DEF Init, RedisInit
  <2>3. \A t \in Task : TaskInv(t)
    BY ZenonT(60), <2>2 DEF Init, RedisInit, GatewayInit, TaskInv, Paid, Nowhere, Ready,
                            Claimed, Waiting, InDead, Range
  <2>4. QED
    BY <2>1, <2>2, <2>3 DEF PlaceInv, ListInv
<1>2. PlaceInv /\ LeaseInv' /\ [Next]_vars => PlaceInv'
  BY ZenonT(60), PlaceStep
<1>3. QED
  BY <1>1, <1>2, LeaseInvariant, PTL DEF Spec

(* PlaceInv in terms of Places. *)
LEMMA PlaceInvMeans == PlaceInv => SingleLocation /\ QueuedHasBody
<1> SUFFICES ASSUME PlaceInv PROVE SingleLocation /\ QueuedHasBody
  BY ZenonT(60)
<1>1. ASSUME NEW t \in Task
      PROVE  /\ \A x, y \in Places(t) : x = y
             /\ Places(t) # {} => body[t] # NoBody
  BY DEF PlaceInv, TaskInv, OnlyReady, OnlyClaimed, OnlyWaiting, OnlyDead, Nowhere,
         Ready, Claimed, Waiting, Places
<1>2. QED
  BY <1>1 DEF SingleLocation, QueuedHasBody, PlaceInv, ListInv

(* If no LPUSH is applied twice, every task is at any time in at most one  *)
(* of the ready list, the inflight set, the scheduled set and the dead     *)
(* letters, and once in a list: no interleaving of claims, retries,        *)
(* recovery, promotion and ACKs duplicates a task.                         *)
THEOREM OnePlace == ASSUME ClientRetries = FALSE PROVE Spec => []SingleLocation
  BY PlaceInvariant, PlaceInvMeans, PTL

(* If no LPUSH is applied twice, whatever is queued, claimed, delayed or   *)
(* dead-lettered has its body: the ACK deletes a body only together with   *)
(* the last trace of the task.                                             *)
THEOREM BodyKept == ASSUME ClientRetries = FALSE PROVE Spec => []QueuedHasBody
  BY PlaceInvariant, PlaceInvMeans, PTL
-----------------------------------------------------------------------------
(* If no LPUSH is applied twice, a live lease is ended in a step of its    *)
(* holder only: recovery finds it renewed, a stale worker is fenced, and   *)
(* claimBatch never pops a task that is claimed.                           *)
THEOREM LiveLeaseKept == ASSUME ClientRetries = FALSE PROVE Spec => LiveLeaseRespected
<1> DEFINE A == \A t \in Task :
                  inflight[t] = "live" /\ leases'[t] # leases[t] =>
                    \E w \in Worker : AcksClaim(w, t) \/ FailsClaim(w, t)
<1>1. PlaceInv /\ [Next]_vars => [A]_vars
  <2> SUFFICES ASSUME PlaceInv, [Next]_vars, NEW t \in Task,
                      inflight[t] = "live", leases'[t] # leases[t]
               PROVE  \E w \in Worker : AcksClaim(w, t) \/ FailsClaim(w, t)
    BY ZenonT(60)
  <2> USE DEF PlaceInv
  <2>1. ASSUME NEW u \in Task, GatewayStep(u) PROVE FALSE
    BY <2>1 DEF GatewayStep, JournalEnqueue, StoreBody, PushImmediate, PushScheduled,
                Materialize, SetBody, PushReady, AddScheduled, redisVars
  <2>2. ASSUME Environment PROVE FALSE
    BY SMTT(60), <2>2 DEF Environment, LeaseExpires, ComesDue, SetPaused
  <2>3. ASSUME NEW w \in Worker, WorkerStep(w) PROVE AcksClaim(w, t) \/ FailsClaim(w, t)
    <3>1. ASSUME NEW reply \in PoolReplies, NEW deadline \in {"live", "expired"},
                 ClaimTasks(w, reply, deadline)
          PROVE  FALSE
      <4>1. t \in Range(immediate)
        BY ZenonT(60), <3>1, ClaimBatchEffect DEF ClaimTasks
      <4>2. QED
        BY ZenonT(60), <4>1
           DEF TaskInv, OnlyReady, OnlyClaimed, OnlyWaiting, OnlyDead, Nowhere, Ready, Claimed
    <3>2. ASSUME NEW reply \in PoolReplies, HandlerFails(w, reply)
          PROVE  FailsClaim(w, t)
      <4> DEFINE c == Head(batch[w])
      <4>1. batch[w] # <<>> /\ batch[w] \in Seq(Claim)
        BY <3>2 DEF HandlerFails, WorkerControl, Busy, PoolTypeOK
      <4>2. c \in Claim /\ 1 \in DOMAIN batch[w] /\ batch[w][1] = c
        BY <4>1
      <4>3. c.task \in Task /\ c.lease # NoLease
        BY <4>2 DEF Claim
      <4>4. RequeueOrDead(c.task, c.lease)
        BY ZenonT(60), <3>2 DEF HandlerFails, redisVars
      <4> HIDE DEF c
      <4>5. t = c.task /\ RequeueStatus(c.task, c.lease) \notin {"fenced", "gone", "renewed"}
        BY <4>3, <4>4 DEF RequeueOrDead, RedisTypeOK
      <4>6. leases[t] = c.lease
        BY ZenonT(60), <4>3, <4>5 DEF RequeueStatus, Renewed, BudgetSpent
      <4>7. QED
        BY ZenonT(60), <3>2, <4>1, <4>5, <4>6 DEF FailsClaim, c
    <3>3. ASSUME NEW reply \in PoolReplies, AckTasks(w, reply)
          PROVE  AcksClaim(w, t)
      <4>1. \E c \in acks[w] : c.task = t /\ c.lease = leases[t]
        BY SMTT(60), <3>3 DEF AckTasks, AckBatch, Acked, redisVars
      <4>2. QED
        BY ZenonT(60), <3>3, <4>1 DEF AcksClaim
    <3>4. QED
      BY ZenonT(60), <2>3, <3>1, <3>2, <3>3
         DEF WorkerStep, IdlePass, SkipClaim, StartHandler, HandlerSucceeds, WorkerReports,
             WorkerRecords, FinishBatch, redisVars
  <2>4. ASSUME NEW b \in beats, BeatStep(b) PROVE FALSE
    BY ZenonT(60), <2>4 DEF BeatStep, BeatTicks, BeatExits, Heartbeat, redisVars
  <2>5. ASSUME NEW p \in Pool, LoopStep(p) PROVE FALSE
    <3>1. ASSUME NEW u \in Task, RequeueOrDead(u, NoLease) PROVE FALSE
      <4>1. t = u /\ RequeueStatus(u, NoLease) \notin {"fenced", "gone", "renewed"}
        BY ZenonT(60), <3>1 DEF RequeueOrDead, RedisTypeOK
      <4>2. QED
        BY ZenonT(60), <4>1 DEF RequeueStatus, Renewed, BudgetSpent
    <3>2. QED
      BY ZenonT(60), <2>5, <3>1
         DEF LoopStep, FindExpiredTasks, RecoverTask, RecoveryReports, FindDueTasks,
                        PromoteDueTask, PromoteTask, redisVars
  <2>6. ASSUME NEW p \in Pool, PoolStep(p) PROVE FALSE
    BY ZenonT(60), <2>6
       DEF PoolStep, StopPool, Drained, DrainTimesOut, Crash, Vanish, StartPool, redisVars
  <2>7. QED
    BY ZenonT(60), <2>1, <2>2, <2>3, <2>4, <2>5, <2>6 DEF Next, PoolNext, vars, redisVars
<1>2. QED
  BY <1>1, PlaceInvariant, PTL DEF Spec, LiveLeaseRespected
-----------------------------------------------------------------------------
(* The refinement. *)

(* PhaseOf reads the one place a task is in. *)
LEMMA PhaseOfPlace ==
  ASSUME NEW t
  PROVE  /\ OnlyReady(t)   => PhaseOf(t) = "ready"
         /\ OnlyClaimed(t) => PhaseOf(t) = "running"
         /\ OnlyWaiting(t) => PhaseOf(t) = "delayed"
         /\ OnlyDead(t)    => PhaseOf(t) = "dead"
         /\ Nowhere(t) /\ issued[t] > 0 /\ body[t] = NoBody    => PhaseOf(t) = "done"
         /\ Nowhere(t) /\ ~(issued[t] > 0 /\ body[t] = NoBody) => PhaseOf(t) = "absent"
  BY ZenonT(60) DEF PhaseOf, OnlyReady, OnlyClaimed, OnlyWaiting, OnlyDead, Nowhere, Ready,
                    Claimed, Waiting

(* A task a step leaves where it is keeps its phase and its attempts. *)
LEMMA SameMeans ==
  ASSUME NEW t, Same(t)
  PROVE  PhaseOf(t)' = PhaseOf(t) /\ AttemptsOf(t)' = AttemptsOf(t)
  BY SMTT(60) DEF Same, PhaseOf, AttemptsOf, Ready, Claimed, Waiting, InDead

(* Each edge changes phase and attempts as TaskLifecycle says. *)
LEMMA MovesMean ==
  ASSUME RedisTypeOK, LeaseTableAgrees, NEW t \in Task, TaskInv(t)
  PROVE  /\ HandsOut(t)  => /\ PhaseOf(t) = "ready" /\ PhaseOf(t)' = "running"
                            /\ AttemptsOf(t)' = AttemptsOf(t)
         /\ Completes(t) => /\ PhaseOf(t) = "running" /\ PhaseOf(t)' = "done"
                            /\ AttemptsOf(t)' = AttemptsOf(t)
         /\ Promotes(t)  => /\ PhaseOf(t) = "delayed" /\ PhaseOf(t)' = "ready"
                            /\ AttemptsOf(t)' = AttemptsOf(t)
         /\ Retries(t)   => /\ PhaseOf(t) = "running" /\ PhaseOf(t)' = "delayed"
                            /\ AttemptsOf(t) = body[t] /\ AttemptsOf(t)' = body'[t]
         /\ Buries(t)    => /\ PhaseOf(t) = "running" /\ PhaseOf(t)' = "dead"
                            /\ AttemptsOf(t) = body[t] /\ AttemptsOf(t)' = body'[t]
<1>1. body[t] \in Nat \cup {NoBody} /\ issued[t] \in Nat
  BY DEF RedisTypeOK
<1>2. ASSUME ~Nowhere(t)
      PROVE  /\ body[t] \in Nat /\ AttemptsOf(t) = body[t]
             /\ body[t] # NoBody /\ body[t] + 1 # NoBody
  <2>1. body[t] # NoBody
    BY ZenonT(60), <1>2 DEF TaskInv
  <2>2. QED
    BY <1>1, <2>1 DEF AttemptsOf, NoBody
<1>3. OnlyClaimed(t) => issued[t] > 0
  <2>1. Claimed(t) => leases[t] = issued[t] /\ issued[t] # 0
    BY SMTT(60) DEF LeaseTableAgrees, Claimed, NoLease
  <2>2. QED
    BY SMTT(60), <1>1, <2>1 DEF OnlyClaimed
<1>4. ASSUME HandsOut(t)
      PROVE  /\ PhaseOf(t) = "ready" /\ PhaseOf(t)' = "running"
             /\ AttemptsOf(t)' = AttemptsOf(t)
  <2>1. ~Nowhere(t)
    BY ZenonT(60), <1>4 DEF HandsOut, OnlyReady, Nowhere
  <2>2. AttemptsOf(t)' = body'[t]
    BY ZenonT(60), <1>2, <1>4, <2>1 DEF HandsOut, AttemptsOf
  <2>3. QED
    BY ZenonT(60), <1>2, <1>4, <2>1, <2>2
       DEF HandsOut, PhaseOf, OnlyReady, OnlyClaimed, Ready, Claimed, Waiting, InDead
<1>5. ASSUME Completes(t)
      PROVE  /\ PhaseOf(t) = "running" /\ PhaseOf(t)' = "done"
             /\ AttemptsOf(t)' = AttemptsOf(t)
  <2>1. ~Nowhere(t) /\ Claimed(t) /\ issued'[t] > 0
    BY ZenonT(60), <1>3, <1>5 DEF Completes, OnlyClaimed, Nowhere
  <2>2. AttemptsOf(t)' = issued[t] - 1
    BY ZenonT(60), <1>5, <2>1 DEF Completes, AttemptsOf
  <2>3. issued[t] - 1 = body[t]
    <3>1. t \notin Undecodable /\ Paid(t)
      BY ZenonT(60), <1>5 DEF Completes, TaskInv
    <3>2. QED
      BY <1>1, <1>2, <2>1, <3>1 DEF Paid
  <2>4. QED
    BY ZenonT(60), <1>2, <1>5, <2>1, <2>2, <2>3
       DEF Completes, PhaseOf, Nowhere, OnlyClaimed, Ready, Claimed, Waiting, InDead
<1>6. ASSUME Promotes(t)
      PROVE  /\ PhaseOf(t) = "delayed" /\ PhaseOf(t)' = "ready"
             /\ AttemptsOf(t)' = AttemptsOf(t)
  <2>1. ~Nowhere(t)
    BY ZenonT(60), <1>6 DEF Promotes, OnlyWaiting, Nowhere
  <2>2. AttemptsOf(t)' = body'[t]
    BY ZenonT(60), <1>2, <1>6, <2>1 DEF Promotes, AttemptsOf
  <2>3. QED
    BY ZenonT(60), <1>2, <1>6, <2>1, <2>2
       DEF Promotes, PhaseOf, OnlyReady, OnlyWaiting, Ready, Claimed, Waiting, InDead
<1>7. ASSUME Retries(t)
      PROVE  /\ PhaseOf(t) = "running" /\ PhaseOf(t)' = "delayed"
             /\ AttemptsOf(t) = body[t] /\ AttemptsOf(t)' = body'[t]
  <2>1. ~Nowhere(t)
    BY ZenonT(60), <1>7 DEF Retries, OnlyClaimed, Nowhere
  <2>2. AttemptsOf(t)' = body'[t]
    BY ZenonT(60), <1>2, <1>7, <2>1 DEF Retries, AttemptsOf
  <2>3. QED
    BY ZenonT(60), <1>2, <1>7, <2>1, <2>2
       DEF Retries, PhaseOf, OnlyClaimed, OnlyWaiting, Ready, Claimed, Waiting, InDead
<1>8. ASSUME Buries(t)
      PROVE  /\ PhaseOf(t) = "running" /\ PhaseOf(t)' = "dead"
             /\ AttemptsOf(t) = body[t] /\ AttemptsOf(t)' = body'[t]
  <2>1. ~Nowhere(t)
    BY ZenonT(60), <1>8 DEF Buries, OnlyClaimed, Nowhere
  <2>2. AttemptsOf(t)' = body'[t]
    BY ZenonT(60), <1>2, <1>8, <2>1 DEF Buries, AttemptsOf
  <2>3. QED
    BY ZenonT(60), <1>2, <1>8, <2>1, <2>2
       DEF Buries, PhaseOf, OnlyClaimed, OnlyDead, Ready, Claimed, Waiting, InDead
<1>9. QED
  BY ZenonT(60), <1>4, <1>5, <1>6, <1>7, <1>8

(* So do the edges the gateway takes. *)
LEMMA GatewayMovesMean ==
  ASSUME RedisTypeOK, NEW t \in Task, TaskInv(t)
  PROVE  /\ Submits(t) => /\ PhaseOf(t) = "absent" /\ PhaseOf(t)' \in {"ready", "delayed"}
                          /\ AttemptsOf(t)' = AttemptsOf(t)
         /\ Stores(t)  => PhaseOf(t)' = PhaseOf(t) /\ AttemptsOf(t)' = AttemptsOf(t)
<1>1. ASSUME Submits(t)
      PROVE  /\ PhaseOf(t) = "absent" /\ PhaseOf(t)' \in {"ready", "delayed"}
             /\ AttemptsOf(t)' = AttemptsOf(t)
  <2>1. issued[t] = 0 /\ Nowhere(t)
    BY ZenonT(60), <1>1 DEF Submits, TaskInv
  <2>2. AttemptsOf(t)' = AttemptsOf(t)
    BY ZenonT(60), <1>1 DEF Submits, AttemptsOf
  <2>3. QED
    <3>1. PhaseOf(t) = "absent"
      BY <2>1 DEF PhaseOf, Nowhere, Ready, Claimed, Waiting, InDead
    <3>2. OnlyReady(t)' \/ OnlyWaiting(t)'
      BY ZenonT(60), <1>1 DEF Submits
    <3>3. PhaseOf(t)' \in {"ready", "delayed"}
      BY ZenonT(60), <3>2 DEF PhaseOf, OnlyReady, OnlyWaiting, Ready, Claimed, Waiting, InDead
    <3>4. QED
      BY ZenonT(60), <2>2, <3>1, <3>3
<1>2. ASSUME Stores(t)
      PROVE  PhaseOf(t)' = PhaseOf(t) /\ AttemptsOf(t)' = AttemptsOf(t)
  <2>1. /\ issued[t] = 0 /\ issued'[t] = 0 /\ body[t] = NoBody /\ body'[t] = 0
        /\ Nowhere(t) /\ Nowhere(t)'
    BY ZenonT(60), <1>2 DEF Stores, TaskInv
  <2>2. AttemptsOf(t)' = AttemptsOf(t)
    BY SMTT(30), <2>1 DEF AttemptsOf, NoBody
  <2>3. PhaseOf(t) = "absent" /\ PhaseOf(t)' = "absent"
    BY <2>1 DEF PhaseOf, Nowhere, Ready, Claimed, Waiting, InDead
  <2>4. QED
    BY ZenonT(60), <2>2, <2>3
<1>3. QED
  BY ZenonT(60), <1>1, <1>2

(* Every step of the system is a step of TaskLifecycle or leaves phases    *)
(* and attempts as they are.                                               *)
LEMMA LifeStep ==
  ASSUME ClientRetries = FALSE, PlaceInv, [Next]_vars
  PROVE  [Life!LifeNext]_(Life!lifeVars)
<1> DEFINE ph == [t \in Task |-> PhaseOf(t)]
           at == [t \in Task |-> AttemptsOf(t)]
<1> USE DEF PlaceInv
<1>1. ASSUME \A t \in Task : Same(t) PROVE UNCHANGED <<ph, at>>
  BY SMTT(60), <1>1, SameMeans
<1>2. ASSUME NEW deadline \in {"live", "expired"}, ClaimBatch(BatchSize, deadline)
      PROVE  Life!LifeNext
  <2> DEFINE S == Range(Popped(BatchSize)) \cap Task
  <2>1. \A t \in S : PhaseOf(t) = "ready" /\ PhaseOf(t)' = "running" /\ AttemptsOf(t)' = AttemptsOf(t)
    BY ZenonT(60), <1>2, ClaimBatchMoves, MovesMean
  <2>2. \A t \in Task \ S : PhaseOf(t)' = PhaseOf(t) /\ AttemptsOf(t)' = AttemptsOf(t)
    BY ZenonT(60), <1>2, ClaimBatchMoves, SameMeans
  <2> HIDE DEF S
  <2>3. Life!HandOut(S)
    BY ZenonT(60), <2>1, <2>2 DEF Life!HandOut, Life!Move, S
  <2>4. QED
    BY SMTT(60), <2>3 DEF Life!LifeNext, S
<1>3. ASSUME NEW w \in Worker, AckBatch(acks[w]) PROVE Life!LifeNext
  <2> DEFINE S == {c.task : c \in Acked(acks[w])} \cap Task
  <2>1. \A t \in S : PhaseOf(t) = "running" /\ PhaseOf(t)' = "done" /\ AttemptsOf(t)' = AttemptsOf(t)
    BY ZenonT(60), <1>3, AckBatchMoves, MovesMean
  <2>2. \A t \in Task \ S : PhaseOf(t)' = PhaseOf(t) /\ AttemptsOf(t)' = AttemptsOf(t)
    BY ZenonT(60), <1>3, AckBatchMoves, SameMeans
  <2> HIDE DEF S
  <2>3. Life!Complete(S)
    BY ZenonT(60), <2>1, <2>2 DEF Life!Complete, Life!Move, S
  <2>4. QED
    BY ZenonT(60), <2>3 DEF Life!LifeNext, S
<1>4. ASSUME NEW u \in Task, PromoteTask(u) PROVE Life!LifeNext \/ UNCHANGED <<ph, at>>
  <2>1. CASE Same(u)
    BY ZenonT(60), <1>1, <1>4, <2>1, PromoteTaskMoves DEF OnlyTask
  <2>2. CASE Promotes(u)
    <3>1. \A t \in Task \ {u} : PhaseOf(t)' = PhaseOf(t) /\ AttemptsOf(t)' = AttemptsOf(t)
      BY ZenonT(60), <1>4, PromoteTaskMoves, SameMeans DEF OnlyTask
    <3>2. PhaseOf(u) = "delayed" /\ PhaseOf(u)' = "ready" /\ AttemptsOf(u)' = AttemptsOf(u)
      BY ZenonT(60), <2>2, MovesMean
    <3>3. Life!Promote(u)
      BY ZenonT(60), <3>1, <3>2 DEF Life!Promote, Life!Move
    <3>4. QED
      BY <3>3 DEF Life!LifeNext
  <2>3. QED
    BY ZenonT(60), <1>4, <2>1, <2>2, PromoteTaskMoves DEF OnlyTask
<1>5. ASSUME NEW u \in Task, NEW lease \in Nat, RequeueOrDead(u, lease)
      PROVE  Life!LifeNext \/ UNCHANGED <<ph, at>>
  <2>0. \A t \in Task \ {u} : PhaseOf(t)' = PhaseOf(t) /\ AttemptsOf(t)' = AttemptsOf(t)
    BY ZenonT(60), <1>5, RequeueOrDeadMoves, SameMeans DEF OnlyTask
  <2>1. CASE Same(u)
    BY ZenonT(60), <1>1, <1>5, <2>1, RequeueOrDeadMoves DEF OnlyTask
  <2>2. CASE Retries(u)
    <3>1. /\ PhaseOf(u) = "running" /\ PhaseOf(u)' = "delayed"
          /\ AttemptsOf(u)' = AttemptsOf(u) + 1
          /\ u \notin Undecodable /\ (MaxRetries[u] > 0 => AttemptsOf(u) + 1 < MaxRetries[u])
      <4>1. /\ PhaseOf(u) = "running" /\ PhaseOf(u)' = "delayed"
            /\ AttemptsOf(u) = body[u] /\ AttemptsOf(u)' = body'[u]
        BY ZenonT(60), <2>2, MovesMean
      <4>2. /\ body'[u] = body[u] + 1
            /\ u \notin Undecodable /\ (MaxRetries[u] > 0 => body[u] + 1 < MaxRetries[u])
        BY ZenonT(60), <2>2 DEF Retries
      <4>3. QED
        BY ZenonT(60), <4>1, <4>2
    <3>2. Life!Retry(u)
      BY ZenonT(60), <2>0, <3>1 DEF Life!Retry, Life!Move
    <3>3. QED
      BY SMTT(60), <3>2 DEF Life!LifeNext
  <2>3. CASE Buries(u)
    <3>1. /\ PhaseOf(u) = "running" /\ PhaseOf(u)' = "dead"
          /\ \/ u \in Undecodable /\ AttemptsOf(u)' = AttemptsOf(u)
             \/ /\ u \notin Undecodable
                /\ MaxRetries[u] > 0 /\ AttemptsOf(u) + 1 >= MaxRetries[u]
                /\ AttemptsOf(u)' = AttemptsOf(u) + 1
      BY ZenonT(60), <2>3, MovesMean DEF Buries
    <3>2. Life!Bury(u)
      BY ZenonT(60), <2>0, <3>1 DEF Life!Bury, Life!Move
    <3>3. QED
      BY SMTT(60), <3>2 DEF Life!LifeNext
  <2>4. QED
    BY ZenonT(60), <1>5, <2>1, <2>2, <2>3, RequeueOrDeadMoves DEF OnlyTask
<1>6. ASSUME NEW u \in Task, GatewayStep(u) PROVE Life!LifeNext \/ UNCHANGED <<ph, at>>
  <2>1. \A t \in Task \ {u} : PhaseOf(t)' = PhaseOf(t) /\ AttemptsOf(t)' = AttemptsOf(t)
    BY ZenonT(60), <1>6, GatewayMoves, SameMeans DEF OnlyTask
  <2>2. CASE Same(u) \/ Stores(u)
    BY ZenonT(60), <2>1, <2>2, SameMeans, GatewayMovesMean
  <2>3. CASE Submits(u)
    <3>1. /\ PhaseOf(u) = "absent" /\ PhaseOf(u)' \in {"ready", "delayed"}
          /\ AttemptsOf(u)' = AttemptsOf(u)
      BY ZenonT(60), <2>3, GatewayMovesMean
    <3>2. Life!Submit(u)
      BY ZenonT(60), <2>1, <3>1 DEF Life!Submit, Life!Move
    <3>3. QED
      BY <3>2 DEF Life!LifeNext
  <2>4. QED
    BY ZenonT(60), <1>6, <2>2, <2>3, GatewayMoves DEF OnlyTask
<1>7. Command => Life!LifeNext \/ UNCHANGED <<ph, at>>
  BY ZenonT(60), <1>1, <1>2, <1>3, <1>4, <1>5, OtherCommandsMoveNothing DEF Command
<1>8. QED
  BY ZenonT(60), <1>6, <1>7, StepIsCommand DEF Life!lifeVars

(* If no LPUSH is applied twice, the scripts, loops, workers and gateway   *)
(* implement TaskLifecycle: an attempt is counted exactly when a task      *)
(* leaves "running" without an ACK, it is retried or dead-lettered as its  *)
(* budget says, and "done" and "dead" are final.                           *)
THEOREM RefinesLifecycle ==
  ASSUME ClientRetries = FALSE PROVE Spec => ImplementsLifecycle
<1>1. Init => Life!LifeInit
  <2> SUFFICES ASSUME Init PROVE Life!LifeInit
    OBVIOUS
  <2>1. ASSUME NEW t \in Task PROVE PhaseOf(t) = "absent" /\ AttemptsOf(t) = 0
    BY DEF Init, RedisInit, PhaseOf, AttemptsOf, InDead, Range
  <2>2. QED
    BY <2>1 DEF Life!LifeInit
<1>2. PlaceInv /\ [Next]_vars => [Life!LifeNext]_(Life!lifeVars)
  BY ZenonT(60), LifeStep
<1>3. QED
  BY <1>1, <1>2, PlaceInvariant, PTL DEF Spec, ImplementsLifecycle, Life!LifeSpec

=============================================================================
