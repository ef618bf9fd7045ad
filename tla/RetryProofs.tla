---------------------------- MODULE RetryProofs -----------------------------
(***************************************************************************)
(* The retries of a task: how often a handler is started for it, and how   *)
(* long it waits in between.  Every claim is started at most once and      *)
(* every claim has a lease of its own, so a task is started at most as     *)
(* often as leases were issued for it; if no LPUSH is applied twice, each  *)
(* lease but the current one was paid for with an attempt.  The two        *)
(* backoff computations agree until the doubled base overflows, for every  *)
(* width of a time.Duration, every base and every cap.                     *)
(***************************************************************************)
EXTENDS LifecycleProofs, Backoff

USE DEF LeaseInv, TypeInv, TypeOK
-----------------------------------------------------------------------------
(* The arithmetic of the budget. *)

(* A dead letter carries the attempts that used up its task's budget. *)
DeadSpent(d) ==
  \/ d.task \in Undecodable
  \/ MaxRetries[d.task] > 0 /\ d.attempts = MaxRetries[d.task]

(* The attempt that spends the budget makes such a dead letter. *)
LEMMA LastAttempt ==
  ASSUME NEW u \in Task, NEW b \in Nat, NEW n, n = IF u \in Undecodable THEN b ELSE b + 1,
         u \in Undecodable \/ (MaxRetries[u] > 0 /\ b + 1 >= MaxRetries[u]),
         u \notin Undecodable => b < MaxRetries[u] /\ MaxRetries[u] \in Int
  PROVE  LET d == [task |-> u, attempts |-> n] IN d \in DeadBody /\ DeadSpent(d)
  BY DEF DeadBody, DeadSpent

(* A task without a lease that has an attempt left can be given one. *)
LEMMA OneMoreLease ==
  ASSUME NEW m \in Int, NEW b \in Nat, NEW i \in Nat, i = b + 0, b < m
  PROVE  i + 1 <= m
  OBVIOUS

(* A budget has room for a first attempt. *)
LEMMA FirstAttempt == ASSUME NEW m \in Int, m > 0 PROVE 0 < m /\ 0 <= m
  OBVIOUS

(* A number of starts stays below a number of leases that has grown, one   *)
(* start more if it has grown by one.                                      *)
LEMMA StillBelow ==
  ASSUME NEW r \in Nat, NEW c \in Nat, NEW cc \in Nat, r <= c
  PROVE  (c <= cc => r <= cc) /\ (c + 1 <= cc => r + 1 <= cc)
  OBVIOUS

(* LPUSH moves the letters of a list up by one and puts the new one first. *)
LEMMA PushedLetter ==
  ASSUME NEW q \in Seq(DeadBody), NEW x \in DeadBody
  PROVE  /\ Len(q) \in Nat /\ DOMAIN q = 1..Len(q) /\ DOMAIN LPush(q, x) = 1..Len(q) + 1
         /\ LPush(q, x)[1] = x
         /\ \A j \in 2..Len(q) + 1 : LPush(q, x)[j] = q[j - 1]
<1>1. /\ LPush(q, x) \in Seq(DeadBody) /\ Len(LPush(q, x)) = Len(q) + 1
      /\ LPush(q, x)[1] = x
      /\ \A j \in 2..Len(q) + 1 : LPush(q, x)[j] = q[j - 1]
  BY ZenonT(60), LPushProperties
<1>2. Len(q) \in Nat /\ DOMAIN q = 1..Len(q) /\ DOMAIN LPush(q, x) = 1..Len(q) + 1
  BY ZenonT(60), <1>1, SeqFacts
<1>3. QED
  BY ZenonT(60), <1>1, <1>2

(* An index into a list that has grown at the head is the first one, or    *)
(* one more than an index into the list before.                            *)
LEMMA FirstOrLater ==
  ASSUME NEW n \in Nat, NEW i \in 1..n + 1
  PROVE  i = 1 \/ (i \in 2..n + 1 /\ i - 1 \in 1..n)
  OBVIOUS

-----------------------------------------------------------------------------
(* How often a handler is started. *)

(* The claim at place i of w's batch has not been given to a handler yet. *)
Unstarted(w, i) == i > 1 \/ pc[w] = "next"

Pending(t, lease) ==
  \E w \in Worker : \E i \in DOMAIN batch[w] :
    batch[w][i].task = t /\ batch[w][i].lease = lease /\ Unstarted(w, i)

(* The leases of t that no handler will be started under any more. *)
Spent(t) == {lease \in 1..issued[t] : ~Pending(t, lease)}

(* The claims in the batches are under different leases, all of them       *)
(* issued.                                                                 *)
ClaimsApart ==
  /\ \A w \in Worker : \A i \in DOMAIN batch[w] :
       batch[w][i].lease <= issued[batch[w][i].task]
  /\ \A v, w \in Worker : \A i \in DOMAIN batch[v] : \A j \in DOMAIN batch[w] :
       batch[v][i].task = batch[w][j].task /\ batch[v][i].lease = batch[w][j].lease
         => v = w /\ i = j

StartInv ==
  /\ ClaimsApart
  /\ \A t \in Task : runs[t] <= Cardinality(Spent(t))

(* The step drops at most the first claim of w's batch and brings no claim *)
(* back that was started.                                                  *)
Shrinks(w) ==
  \E k \in 0..1 : \A i \in DOMAIN batch'[w] :
    /\ i + k \in DOMAIN batch[w] /\ batch'[w][i] = batch[w][i + k]
    /\ Unstarted(w, i)' => Unstarted(w, i + k)

-----------------------------------------------------------------------------
(* A longer prefix has at least as many occurrences, and more if it ends   *)
(* in one.                                                                 *)
LEMMA OccurrencesGrow ==
  ASSUME NEW s, NEW t, NEW m \in Nat, NEW n \in Nat, m <= n
  PROVE  /\ Occurrences(s, t, m) <= Occurrences(s, t, n)
         /\ m < n /\ s[n] = t => Occurrences(s, t, m) < Occurrences(s, t, n)
<1> DEFINE O(k) == {i \in 1..k : s[i] = t}
<1>1. IsFiniteSet(O(n)) /\ O(m) \subseteq O(n)
  <2>1. IsFiniteSet(1..n)
    BY FS_Interval
  <2>2. QED
    BY <2>1, FS_Subset
<1>2. Cardinality(O(m)) <= Cardinality(O(n)) /\ (O(m) # O(n) => Cardinality(O(m)) # Cardinality(O(n)))
  <2> HIDE DEF O
  <2> QED BY <1>1, FS_Subset
<1>3. m < n /\ s[n] = t => n \in O(n) /\ n \notin O(m)
  OBVIOUS
<1>4. Occurrences(s, t, m) \in Nat /\ Occurrences(s, t, n) \in Nat
  BY OccurrencesProperties
<1>5. Occurrences(s, t, m) = Cardinality(O(m)) /\ Occurrences(s, t, n) = Cardinality(O(n))
  BY DEF Occurrences
<1> HIDE DEF O
<1>6. QED
  BY <1>2, <1>3, <1>4, <1>5

(* claimBatch returns each claim under a lease of its own, issued in that  *)
(* very step.                                                              *)
LEMMA ClaimsFresh ==
  ASSUME RedisTypeOK, NEW deadline, ClaimBatch(BatchSize, deadline)
  PROVE  LET c == Claims(BatchSize)
         IN  /\ \A i \in DOMAIN c : /\ c[i].task \in Task
                                    /\ c[i].lease > issued[c[i].task]
                                    /\ c[i].lease <= issued'[c[i].task]
             /\ \A i, j \in DOMAIN c : c[i].task = c[j].task /\ c[i].lease = c[j].lease => i = j
<1> DEFINE s == Popped(BatchSize)
           c == Claims(BatchSize)
<1>1. s \in Seq(Task) /\ Len(s) \in Nat /\ \A i \in 1..Len(s) : s[i] \in Task /\ issued[s[i]] \in Nat
  <2>1. s \in Seq(Task) /\ Len(s) \in Nat
    BY PoppedProperties, SeqFacts
  <2> HIDE DEF s
  <2>2. QED
    BY <2>1, SeqFacts DEF RedisTypeOK
<1>2. /\ DOMAIN c = 1..Len(s)
      /\ \A i \in 1..Len(s) : /\ c[i].task = s[i]
                              /\ c[i].lease = issued[s[i]] + Occurrences(s, s[i], i)
  BY DEF Claims
<1>3. \A t \in Task : issued'[t] = issued[t] + Occurrences(s, t, Len(s))
  BY DEF ClaimBatch
<1> HIDE DEF s, c
<1>4. ASSUME NEW i \in 1..Len(s)
      PROVE  /\ c[i].task \in Task /\ c[i].lease > issued[c[i].task]
             /\ c[i].lease <= issued'[c[i].task]
  <2>1. i \in Nat /\ i <= Len(s) /\ i \in 1..i
    BY <1>1
  <2>2. Occurrences(s, s[i], i) \in Nat /\ Occurrences(s, s[i], i) >= 1
    BY <2>1, OccurrencesProperties
  <2>3. /\ Occurrences(s, s[i], Len(s)) \in Nat
        /\ Occurrences(s, s[i], i) <= Occurrences(s, s[i], Len(s))
    BY ZenonT(60), <1>1, <2>1, OccurrencesProperties, OccurrencesGrow
  <2>4. issued'[s[i]] = issued[s[i]] + Occurrences(s, s[i], Len(s))
    BY <1>1, <1>3
  <2>5. QED
    BY SMTT(30), <1>1, <1>2, <2>2, <2>3, <2>4
<1>5. ASSUME NEW i \in 1..Len(s), NEW j \in 1..Len(s), i < j, s[i] = s[j]
      PROVE  c[i].lease # c[j].lease
  <2>1. i \in Nat /\ j \in Nat /\ i <= j
    BY <1>1, <1>5
  <2>2. /\ Occurrences(s, s[j], i) < Occurrences(s, s[j], j)
        /\ Occurrences(s, s[j], i) \in Nat /\ Occurrences(s, s[j], j) \in Nat
    BY ZenonT(60), <1>5, <2>1, OccurrencesGrow, OccurrencesProperties
  <2>3. QED
    BY SMTT(30), <1>1, <1>2, <1>5, <2>2
<1>6. ASSUME NEW i \in 1..Len(s), NEW j \in 1..Len(s),
             c[i].task = c[j].task, c[i].lease = c[j].lease
      PROVE  i = j
  <2>1. s[i] = s[j]
    BY <1>2, <1>6
  <2>2. ~(i < j) /\ ~(j < i)
    BY ZenonT(60), <1>5, <1>6, <2>1
  <2>3. QED
    BY <1>1, <2>2
<1>7. QED
  BY ZenonT(60), <1>2, <1>4, <1>6 DEF c
-----------------------------------------------------------------------------
(* What the steps do to the batches. *)

(* A batch that stays, a batch without its first claim and an empty one. *)
LEMMA ShrinksWhen ==
  ASSUME NEW w \in Worker, batch[w] \in Seq(Claim),
         \/ batch'[w] = batch[w] /\ (pc'[w] = "next" => pc[w] = "next")
         \/ batch[w] # <<>> /\ batch'[w] = Tail(batch[w])
         \/ batch'[w] = <<>>
  PROVE  Shrinks(w)
<1>1. CASE batch'[w] = batch[w] /\ (pc'[w] = "next" => pc[w] = "next")
  <2>1. \A i \in DOMAIN batch[w] : i + 0 = i
    BY SeqFacts
  <2>2. QED
    BY <1>1, <2>1 DEF Shrinks, Unstarted
<1>2. CASE batch[w] # <<>> /\ batch'[w] = Tail(batch[w])
  <2>1. \A i \in DOMAIN batch'[w] :
          /\ i + 1 \in DOMAIN batch[w] /\ batch'[w][i] = batch[w][i + 1]
          /\ i + 1 > 1
    BY <1>2, TailFacts, SeqFacts
  <2>2. QED
    BY <2>1 DEF Shrinks, Unstarted
<1>3. CASE batch'[w] = <<>>
  BY <1>3 DEF Shrinks
<1>4. QED
  BY ZenonT(60), <1>1, <1>2, <1>3

(* No step of workerLoop but a claim adds to a batch. *)
LEMMA WorkerShrinks ==
  ASSUME TypeInv, NEW w \in Worker, WorkerStep(w), NEW v \in Worker
  PROVE  \/ Shrinks(v)
         \/ \E deadline \in {"live", "expired"} : ClaimTasks(w, "ok", deadline)
<1> USE DEF PoolTypeOK
<1>1. batch[v] \in Seq(Claim)
  OBVIOUS
<1>2. ASSUME NEW reply \in PoolReplies, NEW deadline \in {"live", "expired"},
             ClaimTasks(w, reply, deadline), reply # "ok"
      PROVE  Shrinks(v)
  BY ZenonT(60), <1>1, <1>2, ShrinksWhen, TopType DEF ClaimTasks
<1>3. CASE IdlePass(w) \/ FinishBatch(w)
  BY ZenonT(60), <1>1, <1>3, ShrinksWhen, TopType DEF IdlePass, FinishBatch
<1>4. CASE SkipClaim(w)
  BY ZenonT(60), <1>1, <1>4, ShrinksWhen DEF SkipClaim
<1>5. CASE StartHandler(w)
  BY <1>1, <1>5, ShrinksWhen DEF StartHandler
<1>6. CASE HandlerSucceeds(w)
  BY ZenonT(60), <1>1, <1>6, ShrinksWhen DEF HandlerSucceeds, WorkerControl, Busy
<1>7. ASSUME NEW reply \in PoolReplies, HandlerFails(w, reply) PROVE Shrinks(v)
  BY ZenonT(60), <1>1, <1>7, ShrinksWhen DEF HandlerFails, WorkerControl, Busy
<1>8. CASE WorkerReports(w)
  BY ZenonT(60), <1>1, <1>8, ShrinksWhen DEF WorkerReports, WorkerControl, Busy
<1>9. ASSUME NEW reply \in PoolReplies, AckTasks(w, reply) PROVE Shrinks(v)
  BY <1>1, <1>9, ShrinksWhen DEF AckTasks
<1>10. ASSUME NEW c \in acks[w], WorkerRecords(w, c) PROVE Shrinks(v)
  BY <1>1, <1>10, ShrinksWhen DEF WorkerRecords
<1>11. QED
  BY ZenonT(60), <1>2, <1>3, <1>4, <1>5, <1>6, <1>7, <1>8, <1>9, <1>10 DEF WorkerStep

(* So no step of the system does. *)
LEMMA BatchesShrink ==
  ASSUME TypeInv, [Next]_vars
  PROVE  \/ \A v \in Worker : Shrinks(v)
         \/ \E w \in Worker, deadline \in {"live", "expired"} : ClaimTasks(w, "ok", deadline)
<1>1. \A v \in Worker : batch[v] \in Seq(Claim)
  BY DEF PoolTypeOK
<1>2. UNCHANGED <<batch, pc>> => \A v \in Worker : Shrinks(v)
  BY <1>1, ShrinksWhen
<1>3. CASE UNCHANGED vars
  BY <1>2, <1>3 DEF vars, poolVars, workerVars
<1>4. CASE (\E t \in Task : GatewayStep(t)) /\ UNCHANGED poolVars
  BY <1>2, <1>4 DEF poolVars, workerVars
<1>5. CASE Environment /\ UNCHANGED <<gw, poolVars>>
  BY <1>2, <1>5 DEF poolVars, workerVars
<1>6. ASSUME NEW w \in Worker, WorkerStep(w)
      PROVE  \/ \A v \in Worker : Shrinks(v)
             \/ \E deadline \in {"live", "expired"} : ClaimTasks(w, "ok", deadline)
  BY <1>6, WorkerShrinks
<1>7. ASSUME NEW b \in beats, BeatStep(b) PROVE \A v \in Worker : Shrinks(v)
  BY ZenonT(60), <1>2, <1>7 DEF BeatStep, BeatTicks, BeatExits
<1>8. ASSUME NEW p \in Pool, LoopStep(p) PROVE \A v \in Worker : Shrinks(v)
  BY ZenonT(60), <1>2, <1>8 DEF LoopStep, FindExpiredTasks, RecoverTask, RecoveryReports, FindDueTasks,
                    PromoteDueTask, workerVars
<1>9. ASSUME NEW p \in Pool, PoolStep(p), NEW v \in Worker PROVE Shrinks(v)
  <2>1. CASE StopPool(p)
    BY <1>2, <2>1 DEF StopPool, workerVars
  <2>2. CASE Vanish(p)
    BY ZenonT(60), <1>1, <2>2, ShrinksWhen DEF Vanish
  <2>3. CASE StartPool(p)
    BY ZenonT(60), <1>1, <2>3, ShrinksWhen DEF StartPool
  <2>4. QED
    BY ZenonT(60), <1>9, <2>1, <2>2, <2>3 DEF PoolStep, Drained, DrainTimesOut, Crash
<1>10. QED
  BY ZenonT(60), <1>3, <1>4, <1>5, <1>6, <1>7, <1>8, <1>9 DEF Next, PoolNext
-----------------------------------------------------------------------------
(* Every claim is started at most once. *)

(* Leases are never taken back. *)
LEMMA IssuedGrows ==
  ASSUME TypeInv, [Next]_vars, NEW t \in Task
  PROVE  issued'[t] >= issued[t]
<1>1. issued[t] \in Nat
  BY ZenonT(60) DEF RedisTypeOK
<1>2. CASE \E u \in Task : GatewayStep(u)
  BY SMTT(30), <1>1, <1>2 DEF GatewayStep, JournalEnqueue, StoreBody, PushImmediate, PushScheduled,
                    Materialize, SetBody, PushReady, AddScheduled, redisVars
<1>3. ASSUME NEW deadline \in {"live", "expired"}, ClaimBatch(BatchSize, deadline)
      PROVE  issued'[t] >= issued[t]
  <2>1. issued'[t] = issued[t] + Occurrences(Popped(BatchSize), t, Len(Popped(BatchSize)))
    BY <1>3 DEF ClaimBatch
  <2>2. Len(Popped(BatchSize)) \in Nat
    BY PoppedProperties, SeqFacts
  <2>3. QED
    BY SMTT(30), <1>1, <2>1, <2>2, OccurrencesProperties
<1>4. CASE Command
  <2>2. CASE \E deadline \in {"live", "expired"} : ClaimBatch(BatchSize, deadline)
    BY <1>3, <2>2
  <2>3. CASE ~ \E deadline \in {"live", "expired"} : ClaimBatch(BatchSize, deadline)
    <3>1. UNCHANGED issued
      BY ZenonT(60), <1>4, <2>3 DEF Command, LeaseExpires, ComesDue, PromoteTask, RequeueOrDead, Heartbeat,
                        AckBatch, SetPaused, redisVars
    <3>2. QED
      BY <1>1, <3>1
  <2>4. QED
    BY <2>2, <2>3
<1>5. QED
  BY ZenonT(60), <1>2, <1>4, StepIsCommand

(* Batches that shrink keep their claims apart, and nothing that was       *)
(* started is pending again.                                               *)
LEMMA ShrinkKeeps ==
  ASSUME TypeInv, TypeInv', ClaimsApart, \A v \in Worker : Shrinks(v),
         \A t \in Task : issued'[t] >= issued[t]
  PROVE  ClaimsApart' /\ \A t \in Task : \A l : Pending(t, l)' => Pending(t, l)
<1>1. ASSUME NEW v \in Worker, NEW i \in DOMAIN batch'[v]
      PROVE  i \in Nat /\ batch'[v][i] \in Claim /\ batch'[v][i].task \in Task
             /\ batch'[v][i].lease \in Nat
  <2>1. batch'[v] \in Seq(Claim)
    BY DEF PoolTypeOK
  <2>2. i \in 1..Len(batch'[v]) /\ Len(batch'[v]) \in Nat
    BY <2>1, SeqFacts
  <2>3. batch'[v][i] \in Claim
    BY ZenonT(60), <2>1, <2>2, SeqFacts
  <2>4. QED
    BY <2>2, <2>3 DEF Claim
<1>2. ASSUME NEW v \in Worker, NEW i \in DOMAIN batch'[v]
      PROVE  batch'[v][i].lease <= issued'[batch'[v][i].task]
  <2>1. PICK k \in 0..1 : i + k \in DOMAIN batch[v] /\ batch'[v][i] = batch[v][i + k]
    BY DEF Shrinks
  <2>2. batch'[v][i].lease <= issued[batch'[v][i].task]
    BY ZenonT(60), <2>1 DEF ClaimsApart
  <2>3. issued[batch'[v][i].task] \in Nat /\ issued'[batch'[v][i].task] \in Nat
    BY ZenonT(60), <1>1 DEF RedisTypeOK
  <2>4. QED
    BY SMTT(30), <1>1, <2>2, <2>3
<1>3. ASSUME NEW v \in Worker, NEW w \in Worker,
             NEW i \in DOMAIN batch'[v], NEW j \in DOMAIN batch'[w],
             batch'[v][i].task = batch'[w][j].task, batch'[v][i].lease = batch'[w][j].lease
      PROVE  v = w /\ i = j
  <2>1. v = w
    BY <1>3 DEF Shrinks, ClaimsApart
  <2>2. PICK k \in 0..1 : \A n \in DOMAIN batch'[v] :
                            n + k \in DOMAIN batch[v] /\ batch'[v][n] = batch[v][n + k]
    BY DEF Shrinks
  <2>3. i + k = j + k
    BY <1>3, <2>1, <2>2 DEF ClaimsApart
  <2>4. i \in Nat /\ j \in Nat
    BY ZenonT(60), <1>1
  <2>5. QED
    BY SMTT(30), <2>1, <2>3, <2>4
<1>4. ASSUME NEW t \in Task, NEW l, Pending(t, l)' PROVE Pending(t, l)
  BY ZenonT(60), <1>4 DEF Pending, Shrinks
<1>5. QED
  BY SMTT(30), <1>2, <1>3, <1>4 DEF ClaimsApart

(* A claim brings new leases only. *)
LEMMA ClaimKeeps ==
  ASSUME TypeInv, TypeInv', ClaimsApart, NEW w \in Worker, NEW deadline \in {"live", "expired"},
         ClaimTasks(w, "ok", deadline), \A t \in Task : issued'[t] >= issued[t]
  PROVE  /\ ClaimsApart'
         /\ \A t \in Task : \A l \in 1..issued[t] : Pending(t, l)' => Pending(t, l)
<1> DEFINE c == Claims(BatchSize)
<1>1. /\ \A i \in DOMAIN c : /\ c[i].task \in Task
                              /\ c[i].lease > issued[c[i].task]
                              /\ c[i].lease <= issued'[c[i].task]
      /\ \A i, j \in DOMAIN c : c[i].task = c[j].task /\ c[i].lease = c[j].lease => i = j
  BY ZenonT(60), ClaimsFresh DEF ClaimTasks
<1>2. batch' = [batch EXCEPT ![w] = c] /\ pc' = [pc EXCEPT ![w] = "next"]
  BY DEF ClaimTasks
<1> HIDE DEF c
<1>3. batch'[w] = c /\ \A v \in Worker \ {w} : batch'[v] = batch[v] /\ pc'[v] = pc[v]
  BY ZenonT(60), <1>2 DEF PoolTypeOK
<1>4. ASSUME NEW v \in Worker, NEW i \in DOMAIN batch[v]
      PROVE  /\ batch[v][i].lease <= issued[batch[v][i].task]
             /\ batch[v][i].task \in Task /\ batch[v][i].lease \in Nat
  <2>1. batch[v] \in Seq(Claim)
    BY DEF PoolTypeOK
  <2>2. batch[v][i] \in Claim
    BY <2>1, SeqFacts
  <2>3. QED
    BY ZenonT(60), <2>2 DEF Claim, ClaimsApart
<1>5. \A t \in Task : issued[t] \in Nat /\ issued'[t] \in Nat
  BY DEF RedisTypeOK
<1>6. ASSUME NEW v \in Worker, NEW i \in DOMAIN batch'[v]
      PROVE  batch'[v][i].lease <= issued'[batch'[v][i].task]
  <2>1. CASE v = w
    BY ZenonT(60), <1>1, <1>3, <2>1
  <2>2. CASE v # w
    <3>1. /\ batch'[v][i].lease <= issued[batch'[v][i].task]
          /\ batch'[v][i].task \in Task /\ batch'[v][i].lease \in Nat
      BY ZenonT(60), <1>3, <1>4, <2>2
    <3>2. QED
      BY <1>5, <3>1
  <2>3. QED
    BY ZenonT(60), <2>1, <2>2
<1>7. ASSUME NEW v \in Worker \ {w}, NEW i \in DOMAIN batch[v], NEW j \in DOMAIN c,
             batch[v][i].task = c[j].task
      PROVE  batch[v][i].lease # c[j].lease
  <2>1. batch[v][i].lease <= issued[c[j].task] /\ issued[c[j].task] < c[j].lease
        /\ issued[c[j].task] \in Nat /\ batch[v][i].lease \in Nat
    BY ZenonT(60), <1>1, <1>4, <1>5, <1>7
  <2>2. QED
    BY <2>1
<1>8. ASSUME NEW u \in Worker, NEW v \in Worker,
             NEW i \in DOMAIN batch'[u], NEW j \in DOMAIN batch'[v],
             batch'[u][i].task = batch'[v][j].task, batch'[u][i].lease = batch'[v][j].lease
      PROVE  u = v /\ i = j
  <2>1. CASE u = w /\ v = w
    BY ZenonT(60), <1>1, <1>3, <1>8, <2>1
  <2>2. CASE u = w /\ v # w
    BY SMTT(30), <1>3, <1>7, <1>8, <2>2
  <2>3. CASE u # w /\ v = w
    BY SMTT(30), <1>3, <1>7, <1>8, <2>3
  <2>4. CASE u # w /\ v # w
    BY SMTT(30), <1>3, <1>8, <2>4 DEF ClaimsApart
  <2>5. QED
    BY ZenonT(60), <2>1, <2>2, <2>3, <2>4
<1>9. ASSUME NEW t \in Task, NEW l \in 1..issued[t], Pending(t, l)' PROVE Pending(t, l)
  <2>1. PICK v \in Worker : \E i \in DOMAIN batch'[v] :
          batch'[v][i].task = t /\ batch'[v][i].lease = l /\ Unstarted(v, i)'
    BY ZenonT(60), <1>9 DEF Pending
  <2>2. v # w
    BY SMTT(30), <1>1, <1>3, <1>5, <2>1
  <2>3. QED
    BY ZenonT(60), <1>3, <2>1, <2>2 DEF Pending, Unstarted
<1>10. QED
  BY <1>6, <1>8, <1>9 DEF ClaimsApart

(* Only StartHandler counts a start. *)
LEMMA RunsChange ==
  ASSUME TypeInv, [Next]_vars
  PROVE  UNCHANGED runs \/ \E w \in Worker : StartHandler(w)
<1>1. ASSUME NEW w \in Worker, WorkerStep(w)
      PROVE  UNCHANGED runs \/ StartHandler(w)
  BY ZenonT(60), <1>1 DEF WorkerStep, ClaimTasks, IdlePass, SkipClaim, HandlerSucceeds, HandlerFails,
              WorkerReports, FinishBatch, AckTasks, WorkerRecords
<1>2. ASSUME NEW b \in beats, BeatStep(b) PROVE UNCHANGED runs
  BY ZenonT(60), <1>2 DEF BeatStep, BeatTicks, BeatExits
<1>3. ASSUME NEW p \in Pool, LoopStep(p) PROVE UNCHANGED runs
  BY ZenonT(60), <1>3 DEF LoopStep, FindExpiredTasks, RecoverTask, RecoveryReports, FindDueTasks,
              PromoteDueTask, workerVars
<1>4. ASSUME NEW p \in Pool, PoolStep(p) PROVE UNCHANGED runs
  BY <1>4 DEF PoolStep, StopPool, StartPool, Drained, DrainTimesOut, Crash, Vanish, workerVars
<1>5. CASE UNCHANGED poolVars \/ UNCHANGED vars
  BY <1>5 DEF vars, poolVars, workerVars
<1>6. QED
  BY ZenonT(60), <1>1, <1>2, <1>3, <1>4, <1>5 DEF Next, PoolNext

(* The leases of a task are finitely many, spent ones and pending ones. *)
LEMMA SpentFinite ==
  ASSUME NEW t \in Task, issued[t] \in Nat
  PROVE  IsFiniteSet(Spent(t)) /\ Cardinality(Spent(t)) \in Nat
         /\ Cardinality(Spent(t)) <= issued[t]
<1>1. IsFiniteSet(1..issued[t]) /\ Cardinality(1..issued[t]) = issued[t]
  BY SMTT(30), FS_Interval
<1>2. Spent(t) \subseteq 1..issued[t]
  BY DEF Spent
<1>3. QED
  BY ZenonT(60), <1>1, <1>2, FS_Subset, FS_CardinalityType

(* A step keeps the claims apart, takes no lease out of Spent, and starts  *)
(* a handler only under a lease that was pending and is spent by it.       *)
LEMMA StartStep ==
  ASSUME TypeInv, TypeInv', StartInv, [Next]_vars
  PROVE  StartInv'
<1>1. /\ ClaimsApart'
      /\ \A t \in Task : \A l \in 1..issued[t] : Pending(t, l)' => Pending(t, l)
  BY ZenonT(60), BatchesShrink, IssuedGrows, ShrinkKeeps, ClaimKeeps DEF StartInv
<1>2. ASSUME NEW t \in Task PROVE runs'[t] <= Cardinality(Spent(t)')
  <2>1. /\ issued[t] \in Nat /\ issued'[t] \in Nat /\ issued'[t] >= issued[t]
        /\ runs[t] \in Nat /\ runs[t] <= Cardinality(Spent(t))
    BY ZenonT(60), IssuedGrows DEF RedisTypeOK, PoolTypeOK, StartInv
  <2>2. Spent(t) \subseteq Spent(t)'
    BY <1>1, <2>1 DEF Spent
  <2>3. IsFiniteSet(Spent(t)) /\ Cardinality(Spent(t)) \in Nat
    BY ZenonT(60), <2>1, SpentFinite
  <2>4. IsFiniteSet(Spent(t)') /\ Cardinality(Spent(t)') \in Nat
    <3>1. \A n \in Nat : IsFiniteSet(1..n)
      BY FS_Interval
    <3>2. Spent(t)' \subseteq 1..issued'[t]
      BY ZenonT(60) DEF Spent
    <3>3. QED
      BY ZenonT(60), <2>1, <3>1, <3>2, FS_Subset, FS_CardinalityType
  <2>5. CASE runs'[t] = runs[t]
    <3>1. Cardinality(Spent(t)) <= Cardinality(Spent(t)')
      BY ZenonT(60), <2>2, <2>4, FS_Subset
    <3>2. QED
      BY ZenonT(60), <2>1, <2>3, <2>4, <2>5, <3>1, StillBelow
  <2>6. ASSUME NEW w \in Worker, StartHandler(w), runs'[t] # runs[t]
        PROVE  runs'[t] <= Cardinality(Spent(t)')
    <3> PICK l : l = batch[w][1].lease
      BY ZenonT(60)
    <3>1. batch[w] \in Seq(Claim) /\ batch[w] # <<>>
      BY <2>6 DEF StartHandler, PoolTypeOK
    <3>2. Head(batch[w]) = batch[w][1] /\ 1 \in DOMAIN batch[w] /\ batch[w][1] \in Claim
      BY SMTT(30), <3>1, TailFacts, SeqFacts, EmptyFacts
    <3>3. t = batch[w][1].task /\ runs'[t] = runs[t] + 1
      BY ZenonT(60), <2>6, <3>2 DEF StartHandler, PoolTypeOK, Claim
    <3>4. l \in Nat \ {0} /\ l <= issued[t]
      BY ZenonT(60), <3>2, <3>3 DEF Claim, StartInv, ClaimsApart, NoLease
    <3>5. Pending(t, l)
      BY ZenonT(60), <2>6, <3>2, <3>3 DEF StartHandler, Pending, Unstarted
    <3>6. ~Pending(t, l)'
      <4>1. batch' = batch /\ pc'[w] = "handle"
        BY ZenonT(60), <2>6 DEF StartHandler, PoolTypeOK
      <4>2. \A v \in Worker : \A i \in DOMAIN batch[v] :
              batch[v][i].task = t /\ batch[v][i].lease = l => v = w /\ i = 1
        BY SMTT(30), <3>2, <3>3 DEF StartInv, ClaimsApart
      <4>3. QED
        BY <4>1, <4>2 DEF Pending, Unstarted
    <3>7. l \notin Spent(t) /\ l \in Spent(t)'
      BY SMTT(30), <2>1, <3>4, <3>5, <3>6 DEF Spent
    <3>8. Cardinality(Spent(t) \cup {l}) = Cardinality(Spent(t)) + 1
      BY ZenonT(60), <2>3, <3>7, FS_AddElement
    <3>9. Spent(t) \cup {l} \subseteq Spent(t)'
      BY ZenonT(60), <2>2, <3>7
    <3>10. Cardinality(Spent(t) \cup {l}) <= Cardinality(Spent(t)')
      BY <2>4, <3>9, FS_Subset
    <3>11. Cardinality(Spent(t)) + 1 <= Cardinality(Spent(t)')
      BY ZenonT(60), <3>8, <3>10
    <3>12. runs[t] + 1 <= Cardinality(Spent(t)')
      BY ZenonT(60), <2>1, <2>3, <2>4, <3>11, StillBelow
    <3>13. QED
      BY ZenonT(60), <3>3, <3>12
  <2>7. QED
    BY ZenonT(60), <2>5, <2>6, RunsChange
<1>3. QED
  BY <1>1, <1>2 DEF StartInv

(* A handler is started for a task at most once per lease issued for it:   *)
(* WorkerPool gives a claim of its batch to the handler once and drops it, *)
(* and claimBatch draws a new token for every ID it pops, also when an ID  *)
(* is in the list twice because an LPUSH was resent.                       *)
StartsLeased == \A t \in Task : runs[t] <= issued[t]

THEOREM StartsHaveLeases == Spec => []StartsLeased
<1>1. Init => StartInv
  <2> SUFFICES ASSUME Init PROVE StartInv
    OBVIOUS
  <2>1. /\ \A w \in Worker : DOMAIN batch[w] = {}
        /\ \A t \in Task : issued[t] = 0 /\ runs[t] = 0
    BY SMTT(30), EmptyFacts, SeqFacts DEF Init, PoolInit, RedisInit
  <2>2. \A t \in Task : Cardinality(Spent(t)) \in Nat
    BY <2>1, SpentFinite
  <2>3. QED
    BY <2>1, <2>2 DEF StartInv, ClaimsApart
<1>2. TypeInv /\ TypeInv' /\ StartInv /\ [Next]_vars => StartInv'
  BY ZenonT(60), StartStep
<1>3. TypeInv /\ StartInv => StartsLeased
  <2> SUFFICES ASSUME TypeInv, StartInv, NEW t \in Task PROVE runs[t] <= issued[t]
    BY DEF StartsLeased
  <2>1. issued[t] \in Nat /\ runs[t] \in Nat
    BY ZenonT(60) DEF RedisTypeOK, PoolTypeOK
  <2>2. QED
    BY <2>1, SpentFinite DEF StartInv
<1>4. QED
  BY <1>1, <1>2, <1>3, TypeInvariant, PTL DEF Spec
-----------------------------------------------------------------------------
(* The retry budget. *)

(* The inductive strengthening for one task with a budget: an attempt is   *)
(* left as long as the task is not dead-lettered.                          *)
Affordable(t) ==
  t \notin Undecodable /\ MaxRetries[t] > 0 =>
    /\ issued[t] <= MaxRetries[t]
    /\ body[t] # NoBody => /\ body[t] <= MaxRetries[t]
                           /\ ~InDead(t) => body[t] < MaxRetries[t]

BudgetInv ==
  /\ \A t \in Task : Affordable(t)
  /\ \A t \in Undecodable : runs[t] = 0
  /\ \A i \in DOMAIN dead : DeadSpent(dead[i])

(* Every edge of the life cycle keeps the task within its budget: the      *)
(* attempt that would use it up buries the task.                           *)
LEMMA MoveAffordable ==
  ASSUME PlaceInv, NEW t \in Task, Affordable(t),
         \/ Same(t) \/ HandsOut(t) \/ Retries(t) \/ Buries(t) \/ Completes(t) \/ Promotes(t)
         \/ Submits(t) \/ Stores(t)
  PROVE  Affordable(t)'
<1> SUFFICES ASSUME t \notin Undecodable, MaxRetries[t] > 0
             PROVE  /\ issued'[t] <= MaxRetries[t]
                    /\ body'[t] # NoBody => /\ body'[t] <= MaxRetries[t]
                                            /\ ~InDead(t)' => body'[t] < MaxRetries[t]
  BY ZenonT(60) DEF Affordable
<1>1. /\ issued[t] \in Nat /\ body[t] \in Nat \cup {NoBody} /\ MaxRetries[t] \in Int
      /\ issued[t] <= MaxRetries[t]
      /\ body[t] # NoBody => /\ body[t] <= MaxRetries[t]
                             /\ ~InDead(t) => body[t] < MaxRetries[t]
  BY ZenonT(60), TaskAssumption DEF PlaceInv, RedisTypeOK, Affordable
<1>2. /\ ~Nowhere(t) => body[t] # NoBody
      /\ body[t] # NoBody => issued[t] = body[t] + (IF Claimed(t) THEN 1 ELSE 0)
  BY ZenonT(60) DEF PlaceInv, TaskInv, Paid
<1>3. CASE Same(t)
  BY ZenonT(60), <1>1, <1>3 DEF Same
<1>4. CASE HandsOut(t)
  <2>1. /\ issued'[t] = issued[t] + 1 /\ body'[t] = body[t]
        /\ ~InDead(t) /\ ~Claimed(t) /\ body[t] # NoBody
    BY ZenonT(60), <1>2, <1>4 DEF HandsOut, OnlyReady, Nowhere
  <2>2. issued[t] = body[t] + 0 /\ body[t] \in Nat
    BY ZenonT(60), <1>1, <1>2, <2>1
  <2>3. issued[t] + 1 <= MaxRetries[t]
    BY ZenonT(60), <1>1, <2>1, <2>2, OneMoreLease
  <2>4. QED
    BY ZenonT(60), <1>1, <2>1, <2>3
<1>5. CASE Retries(t)
  BY ZenonT(60), <1>1, <1>2, <1>5 DEF Retries, OnlyClaimed, OnlyWaiting, Nowhere
<1>6. CASE Buries(t)
  BY ZenonT(60), <1>1, <1>2, <1>6 DEF Buries, OnlyClaimed, OnlyDead, Nowhere
<1>7. CASE Completes(t)
  BY ZenonT(60), <1>1, <1>7 DEF Completes
<1>8. CASE Promotes(t)
  BY ZenonT(60), <1>1, <1>8 DEF Promotes, OnlyWaiting, OnlyReady
<1>9. CASE Submits(t)
  BY ZenonT(60), <1>1, <1>9 DEF Submits, Nowhere
<1>10. CASE Stores(t)
  BY ZenonT(60), <1>1, <1>10, FirstAttempt DEF Stores
<1>11. QED
  BY ZenonT(60), <1>3, <1>4, <1>5, <1>6, <1>7, <1>8, <1>9, <1>10

(* Only requeueOrDead adds a dead letter, and only for a task under an     *)
(* attempt that is its last.                                               *)
LEMMA DeadLetterSpent ==
  ASSUME PlaceInv, BudgetInv, Command, NEW i \in DOMAIN dead'
  PROVE  DeadSpent(dead'[i])
<1>1. CASE dead' = dead
  BY ZenonT(60), <1>1 DEF BudgetInv
<1>2. ASSUME NEW u \in Task, NEW lease \in Nat, RequeueOrDead(u, lease), dead' # dead
      PROVE  DeadSpent(dead'[i])
  <2> DEFINE d == [task |-> u, attempts |-> Counted(u)]
  <2>1. RequeueStatus(u, lease) = "dead" /\ dead' = LPush(dead, d)
    BY <1>2 DEF RequeueOrDead
  <2>2. Claimed(u)
    BY ZenonT(60), <2>1 DEF PlaceInv, RequeueStatus, LeaseTableAgrees, Claimed
  <2>3. ~InDead(u) /\ body[u] \in Nat /\ dead \in Seq(DeadBody)
    BY <2>2 DEF PlaceInv, TaskInv, OnlyReady, OnlyClaimed, OnlyWaiting, OnlyDead, Nowhere, RedisTypeOK
  <2>4. u \in Undecodable \/ (MaxRetries[u] > 0 /\ body[u] + 1 >= MaxRetries[u])
    BY ZenonT(60), <2>1 DEF RequeueStatus, BudgetSpent
  <2>5. u \notin Undecodable => body[u] < MaxRetries[u] /\ MaxRetries[u] \in Int
    BY SMTT(30), <2>3, <2>4, TaskAssumption DEF BudgetInv, Affordable, NoBody
  <2>6. d \in DeadBody /\ DeadSpent(d)
    BY ZenonT(60), <2>3, <2>4, <2>5, LastAttempt DEF Counted
  <2> HIDE DEF d
  <2>7. \/ dead'[i] = d
        \/ i - 1 \in DOMAIN dead /\ dead'[i] = dead[i - 1]
    <3>1. /\ Len(dead) \in Nat /\ DOMAIN dead = 1..Len(dead)
          /\ DOMAIN LPush(dead, d) = 1..Len(dead) + 1
          /\ LPush(dead, d)[1] = d
          /\ \A j \in 2..Len(dead) + 1 : LPush(dead, d)[j] = dead[j - 1]
      BY ZenonT(60), <2>3, <2>6, PushedLetter
    <3>2. i = 1 \/ (i \in 2..Len(dead) + 1 /\ i - 1 \in 1..Len(dead))
      BY ZenonT(60), <2>1, <3>1, FirstOrLater
    <3>3. QED
      BY ZenonT(60), <2>1, <3>1, <3>2
  <2>8. QED
    BY ZenonT(60), <2>6, <2>7 DEF BudgetInv
<1>3. CASE dead' # dead
  BY ZenonT(60), <1>2, <1>3 DEF Command, ClaimBatch, LeaseExpires, ComesDue, PromoteTask, Heartbeat,
                    AckBatch, SetPaused, redisVars
<1>4. QED
  BY <1>1, <1>3

(* Every step keeps every task within its budget. *)
LEMMA BudgetStep ==
  ASSUME ClientRetries = FALSE, PlaceInv, PlaceInv', BudgetInv, [Next]_vars
  PROVE  BudgetInv'
<1>1. \A t \in Task : Affordable(t)'
  <2>1. CASE Command
    BY ZenonT(60), <2>1, CommandMoves, MoveAffordable DEF BudgetInv
  <2>2. ASSUME NEW u \in Task, GatewayStep(u), NEW t \in Task PROVE Affordable(t)'
    <3>1. Same(t) \/ Stores(t) \/ Submits(t)
      BY ZenonT(60), <2>2, GatewayMoves DEF OnlyTask
    <3>2. QED
      BY ZenonT(60), <3>1, MoveAffordable DEF BudgetInv
  <2>3. QED
    BY ZenonT(60), <2>1, <2>2, StepIsCommand DEF PlaceInv
<1>2. \A t \in Undecodable : runs'[t] = 0
  <2>1. CASE UNCHANGED runs
    BY <2>1 DEF BudgetInv
  <2>2. ASSUME NEW w \in Worker, StartHandler(w), NEW t \in Undecodable PROVE runs'[t] = 0
    <3>1. t # Head(batch[w]).task
      BY ZenonT(60), <2>2 DEF StartHandler, Runnable
    <3>2. t \in Task /\ runs \in [Task -> Nat] /\ runs[t] = 0
      BY TaskAssumption DEF PlaceInv, PoolTypeOK, BudgetInv
    <3>3. QED
      BY ZenonT(60), <2>2, <3>1, <3>2 DEF StartHandler
  <2>3. QED
    BY ZenonT(60), <2>1, <2>2, RunsChange DEF PlaceInv
<1>3. \A i \in DOMAIN dead' : DeadSpent(dead'[i])
  <2>1. CASE Command
    BY <2>1, DeadLetterSpent
  <2>2. CASE \E u \in Task : GatewayStep(u)
    <3>1. dead' = dead
      BY <2>2 DEF GatewayStep, JournalEnqueue, StoreBody, PushImmediate, PushScheduled,
                  Materialize, SetBody, PushReady, AddScheduled, redisVars
    <3>2. QED
      BY ZenonT(60), <3>1 DEF BudgetInv
  <2>3. QED
    BY ZenonT(60), <2>1, <2>2, StepIsCommand DEF PlaceInv
<1>4. QED
  BY ZenonT(60), <1>1, <1>2, <1>3 DEF BudgetInv, DeadSpent

(* If no LPUSH is applied twice, no task is handed to a handler more often *)
(* than its max_retries allows, whatever crashes, stale workers, lost      *)
(* replies and expired leases do, and a task is dead-lettered with exactly *)
(* that many attempts, or because its body cannot be decoded.              *)
THEOREM BudgetKept == ASSUME ClientRetries = FALSE PROVE Spec => []RetryBudget
<1>1. Init => BudgetInv
  <2> SUFFICES ASSUME Init PROVE BudgetInv
    OBVIOUS
  <2>1. \A t \in Task : issued[t] = 0 /\ runs[t] = 0 /\ body[t] = NoBody
    BY DEF Init, PoolInit, RedisInit
  <2>2. DOMAIN dead = {}
    BY SMTT(30), EmptyFacts, SeqFacts DEF Init, RedisInit
  <2>3. \A t \in Task : MaxRetries[t] \in Int
    BY TaskAssumption
  <2>4. Undecodable \subseteq Task
    BY TaskAssumption
  <2>5. QED
    BY SMTT(30), <2>1, <2>2, <2>3, <2>4 DEF BudgetInv, Affordable
<1>2. PlaceInv /\ PlaceInv' /\ BudgetInv /\ [Next]_vars => BudgetInv'
  BY ZenonT(60), BudgetStep
<1>3. PlaceInv /\ StartsLeased /\ BudgetInv => RetryBudget
  <2> SUFFICES ASSUME PlaceInv, StartsLeased, BudgetInv PROVE RetryBudget
    OBVIOUS
  <2>1. ASSUME NEW t \in Task, MaxRetries[t] > 0 PROVE runs[t] <= MaxRetries[t]
    <3>1. runs[t] \in Nat /\ issued[t] \in Nat /\ MaxRetries[t] \in Int
      BY ZenonT(60), TaskAssumption DEF PlaceInv, PoolTypeOK, RedisTypeOK
    <3>2. t \notin Undecodable => issued[t] <= MaxRetries[t]
      BY <2>1 DEF BudgetInv, Affordable
    <3>3. t \in Undecodable => runs[t] = 0
      BY DEF BudgetInv
    <3>4. QED
      BY SMTT(30), <2>1, <3>1, <3>2, <3>3 DEF StartsLeased
  <2>2. QED
    BY <2>1 DEF RetryBudget, BudgetInv, DeadSpent
<1>4. QED
  BY <1>1, <1>2, <1>3, PlaceInvariant, StartsHaveLeases, PTL DEF Spec
-----------------------------------------------------------------------------
(* The backoff. *)

(* A number in the range of the type is not changed by the wrap.           *)
LEMMA WrapKeeps ==
  ASSUME NEW n \in Nat, n < Half
  PROVE  Wrap(n) = n
<1>1. n + Half \in 0..(2 * Half - 1) /\ 2 * Half \in Nat \ {0}
  BY BackoffAssumption
<1>2. (n + Half) % (2 * Half) = n + Half
  BY <1>1
<1>3. QED
  BY <1>2, BackoffAssumption DEF Wrap

(* What is left of the doubling after a wrap is in the range of the type.  *)
LEMMA WrapInRange ==
  ASSUME NEW n \in Int
  PROVE  Wrap(n) \in -Half..(Half - 1)
<1>1. n + Half \in Int /\ 2 * Half \in Nat \ {0}
  BY BackoffAssumption
<1>2. (n + Half) % (2 * Half) \in 0..(2 * Half - 1)
  BY <1>1
<1>3. QED
  BY <1>2, BackoffAssumption DEF Wrap

(* Before the cap is applied, the loops have the same result until the     *)
(* doubled base no longer fits.                                            *)
BackoffInv == BackoffTypeOK /\ (lua < Half => go = lua)

(* The invariant holds of every attempt: backoffDelay's loop, wrapping,    *)
(* follows the script's loop, which does not wrap, as long as it can.      *)
THEOREM BackoffInvariant == BackoffSpec => []BackoffInv
<1>1. BackoffInit => BackoffInv
  BY BackoffAssumption DEF BackoffInit, BackoffInv, BackoffTypeOK
<1>2. BackoffInv /\ [FailsAgain]_backoffVars => BackoffInv'
  <2> SUFFICES ASSUME BackoffInv, [FailsAgain]_backoffVars
               PROVE  BackoffInv'
    OBVIOUS
  <2>1. CASE FailsAgain
    <3>1. lua * 2 \in Nat /\ go * 2 \in Int
      BY BackoffAssumption DEF BackoffInv, BackoffTypeOK
    <3>2. BackoffTypeOK'
      BY <2>1, <3>1, WrapInRange DEF FailsAgain, BackoffInv, BackoffTypeOK
    <3>3. ASSUME lua' < Half PROVE go' = lua'
      <4>1. lua * 2 < Half /\ go = lua
        BY SMTT(30), <2>1, <3>3, BackoffAssumption DEF FailsAgain, BackoffInv, BackoffTypeOK
      <4>2. Wrap(lua * 2) = lua * 2
        BY ZenonT(60), <3>1, <4>1, WrapKeeps
      <4>3. QED
        BY ZenonT(60), <2>1, <4>1, <4>2 DEF FailsAgain
    <3>4. QED
      BY ZenonT(60), <3>2, <3>3 DEF BackoffInv
  <2>2. CASE UNCHANGED backoffVars
    BY <2>2 DEF backoffVars, BackoffInv, BackoffTypeOK
  <2>3. QED
    BY <2>1, <2>2
<1>3. QED
  BY <1>1, <1>2, PTL DEF BackoffSpec

(* Neither computation leaves the range of its type, past the overflow of  *)
(* backoffDelay's doubling too.                                            *)
THEOREM BackoffTypeCorrect == BackoffSpec => []BackoffTypeOK
<1>1. BackoffInv => BackoffTypeOK
  BY DEF BackoffInv
<1>2. QED
  BY <1>1, BackoffInvariant, PTL

(* The delay reportRetry journals is the delay requeueOrDead applied, for  *)
(* as long as the doubled base fits a time.Duration.                       *)
THEOREM BackoffsAgree == BackoffSpec => []InSyncUntilOverflow
<1>1. BackoffInv => InSyncUntilOverflow
  BY DEF BackoffInv, InSyncUntilOverflow
<1>2. QED
  BY <1>1, BackoffInvariant, PTL
=============================================================================
