--------------------------- MODULE OperatedProofs ---------------------------
(***************************************************************************)
(* The queue under the control API, for any number of requests under way   *)
(* at the same time, each cut into its Redis commands.                     *)
(***************************************************************************)
EXTENDS OperatedQueue, ForgeQueueProofs

(* Where a request can stand. *)
StopsOf(cmd) ==
  {"cut"} \cup
  CASE cmd = "retry"   -> {"scan", "take", "check", "restore", "read", "reset", "push"}
    [] cmd = "requeue" -> {"scan", "take", "check", "restore", "push"}
    [] cmd = "delete"  -> {"scan", "take", "delete"}
    [] cmd = "promote" -> {"delayed", "promote"}

(* What a request knows is true of its task, and what it needs next it has. *)
TaskRequestOK(r) ==
  /\ r \in TaskRequest /\ r.at \in StopsOf(r.cmd) /\ Known(r.task)
  /\ \A i \in DOMAIN r.found : r.found[i].task = r.task
  /\ r.at = "take" => r.found # <<>>
  /\ r.at = "restore" => r.kept # NoBody

RequestOK(r) == TaskRequestOK(r) \/ r \in PurgeRequest

RequestInv == made \in Nat /\ \A r \in requests : RequestOK(r)

OperatedInv == LeaseInv /\ RequestInv

USE DEF LeaseInv, TypeInv, TypeOK
-----------------------------------------------------------------------------
(* What the list commands of the control API return. *)

(* LPUSH of one or two copies. *)
LEMMA PushedProperties ==
  ASSUME immediate \in Seq(Task), NEW t \in Task, NEW copies \in 1..2
  PROVE  /\ Pushed(t, copies) \in Seq(Task)
         /\ Range(Pushed(t, copies)) = Range(immediate) \cup {t}
<1> DEFINE c == [i \in 1..copies |-> t]
           q == c \o immediate
<1>1. c \in Seq(Task) /\ Len(c) = copies /\ copies \in Nat /\ \A i \in 1..copies : c[i] = t
  OBVIOUS
<1> HIDE DEF c
<1>2. Len(immediate) \in Nat /\ DOMAIN immediate = 1..Len(immediate)
  BY SeqFacts
<1>3. /\ q \in Seq(Task) /\ DOMAIN q = 1..copies + Len(immediate)
      /\ \A i \in 1..copies + Len(immediate) :
           q[i] = IF i <= copies THEN t ELSE immediate[i - copies]
  BY <1>1, <1>2, ConcatFacts, SeqFacts
<1> HIDE DEF q
<1>4. ASSUME NEW i \in 1..copies + Len(immediate) PROVE q[i] \in Range(immediate) \cup {t}
  <2>1. CASE i <= copies
    BY <1>3, <2>1
  <2>2. CASE i > copies
    <3>1. i - copies \in 1..Len(immediate) /\ q[i] = immediate[i - copies]
      BY <1>1, <1>2, <1>3, <2>2
    <3>2. QED
      BY <1>2, <3>1 DEF Range
  <2>3. QED
    BY <1>1, <1>2, <2>1, <2>2
<1>5. t \in Range(q)
  <2>1. 1 \in 1..copies + Len(immediate) /\ q[1] = t
    BY <1>1, <1>2, <1>3
  <2>2. QED
    BY <1>3, <2>1 DEF Range
<1>6. ASSUME NEW i \in 1..Len(immediate) PROVE immediate[i] \in Range(q)
  <2>1. i + copies \in 1..copies + Len(immediate) /\ q[i + copies] = immediate[i]
    BY <1>1, <1>2, <1>3
  <2>2. QED
    BY Zenon, <1>3, <2>1 DEF Range
<1>7. QED
  BY Zenon, <1>2, <1>3, <1>4, <1>5, <1>6 DEF Range, Pushed, q, c
-----------------------------------------------------------------------------
(* Where a request goes from here. *)

(* The records the commands of a purge make. *)
LEMMA PurgeRecord ==
  ASSUME NEW r \in PurgeRequest, NEW S \in SUBSET Task,
         NEW a \in {"list", "purge", "purged", "cut"}
  PROVE  /\ [r EXCEPT !.at = a] \in PurgeRequest
         /\ [r EXCEPT !.at = a].at = a /\ [r EXCEPT !.at = a].ids = r.ids
         /\ [r EXCEPT !.at = a, !.ids = S] \in PurgeRequest
         /\ [r EXCEPT !.at = a, !.ids = S].at = a
BY Zenon DEF PurgeRequest

(* n is what r has become. *)
Follows(n, r) ==
  /\ TaskRequestOK(n) /\ n.cmd = r.cmd /\ n.task = r.task /\ n.at # "scan"
  /\ Continue(r, n)

(* takeDead removes entries of its own task only. *)
LEMMA DeadEntriesProperties ==
  ASSUME RedisTypeOK, NEW t \in Task
  PROVE  /\ DeadEntries(t) \in Seq(DeadBody)
         /\ \A i \in DOMAIN DeadEntries(t) : DeadEntries(t)[i].task = t
<1> DEFINE S == {d \in Range(dead) : d.task = t /\ d.task \notin Undecodable}
           f == DeadEntries(t)
<1>1. f \in Seq(DeadBody) /\ Range(f) = Range(dead) \cap S
  BY FilterProperties DEF DeadEntries, RedisTypeOK
<1> HIDE DEF f
<1>2. ASSUME NEW i \in DOMAIN f PROVE f[i].task = t
  <2>1. f[i] \in Range(f)
    BY DEF Range
  <2>2. QED
    BY <1>1, <2>1
<1>3. QED
  BY <1>1, <1>2 DEF f

(* ScanDead and TakeEntry. *)
LEMMA TakeDeadFollows ==
  ASSUME RedisTypeOK, NEW r \in requests, TaskRequestOK(r), ScanDead(r) \/ TakeEntry(r)
  PROVE  \E n : Follows(n, r)
<1>1. /\ r \in TaskRequest /\ r.task \in Task /\ r.found \in Seq(DeadBody)
      /\ r.kept \in Nat \cup {NoBody} /\ r.cmd \in TaskCommand /\ r.at \in StopsOf(r.cmd)
  BY DEF TaskRequestOK, TaskRequest
<1>2. r.cmd \in {"retry", "requeue", "delete"}
  BY <1>1 DEF ScanDead, TakeEntry, StopsOf, TaskCommand
<1>3. ASSUME NEW f \in Seq(DeadBody)
      PROVE  /\ AfterTake(r.cmd, f) \in StopsOf(r.cmd) \ {"scan", "cut", "restore"}
             /\ AfterTake(r.cmd, f) = "take" => f # <<>>
             /\ AfterTake(r.cmd, f) \in {"take", "check", "delete"}
  BY <1>2 DEF AfterTake, StopsOf
<1>4. CASE ScanDead(r)
  <2> DEFINE f == DeadEntries(r.task)
             k == IF f = <<>> THEN NoBody ELSE Head(f).attempts
             n == [r EXCEPT !.found = f, !.kept = k, !.at = AfterTake(r.cmd, f)]
  <2>1. f \in Seq(DeadBody) /\ \A i \in DOMAIN f : f[i].task = r.task
    BY <1>1, DeadEntriesProperties
  <2>2. Continue(r, n)
    BY <1>4 DEF ScanDead
  <2> HIDE DEF f
  <2>3. k \in Nat \cup {NoBody}
    <3>1. CASE f = <<>>
      BY <3>1
    <3>2. CASE f # <<>>
      <4>1. Head(f) \in DeadBody
        BY <2>1, <3>2, TailFacts
      <4>2. QED
        BY <3>2, <4>1 DEF DeadBody
    <3>3. QED
      BY <3>1, <3>2
  <2> HIDE DEF k
  <2>4. /\ n \in TaskRequest /\ n.at = AfterTake(r.cmd, f) /\ n.cmd = r.cmd
        /\ n.task = r.task /\ n.found = f
    BY Zenon, <1>1, <1>3, <2>1, <2>3 DEF TaskRequest
  <2> HIDE DEF n
  <2>5. Follows(n, r)
    BY <1>3, <2>1, <2>2, <2>4 DEF Follows, TaskRequestOK
  <2>6. QED
    BY <2>5
<1>5. CASE TakeEntry(r)
  <2> DEFINE f == Tail(r.found)
             n == [r EXCEPT !.found = f, !.at = AfterTake(r.cmd, f)]
  <2>1. r.found # <<>> /\ \A i \in DOMAIN r.found : r.found[i].task = r.task
    BY <1>5 DEF TakeEntry, TaskRequestOK
  <2>2. /\ f \in Seq(DeadBody) /\ Len(f) = Len(r.found) - 1 /\ Len(r.found) \in Nat
        /\ \A i \in 1..Len(f) : f[i] = r.found[i + 1]
    BY <1>1, <2>1, TailFacts, SeqFacts
  <2>3. \A i \in DOMAIN f : f[i].task = r.task
    <3> HIDE DEF f
    <3>1. DOMAIN f = 1..Len(f) /\ DOMAIN r.found = 1..Len(r.found)
      BY <1>1, <2>2, SeqFacts
    <3>2. ASSUME NEW i \in 1..Len(f) PROVE f[i].task = r.task
      <4>1. i + 1 \in DOMAIN r.found
        BY <2>2, <3>1
      <4>2. QED
        BY <2>1, <2>2, <4>1
    <3>3. QED
      BY <3>1, <3>2
  <2>4. Continue(r, n)
    BY <1>5 DEF TakeEntry
  <2> HIDE DEF f
  <2>5. /\ n \in TaskRequest /\ n.at = AfterTake(r.cmd, f) /\ n.cmd = r.cmd
        /\ n.task = r.task /\ n.found = f
    BY Zenon, <1>1, <1>3, <2>2 DEF TaskRequest
  <2> HIDE DEF n
  <2>6. Follows(n, r)
    BY ZenonT(60), <1>3, <2>2, <2>3, <2>4, <2>5 DEF Follows, TaskRequestOK
  <2>7. QED
    BY <2>6
<1>6. QED
  BY <1>4, <1>5

(* The commands that only change where the request stands. *)
LEMMA AtFollows ==
  ASSUME NEW r \in requests, TaskRequestOK(r), NEW a,
         a \in StopsOf(r.cmd) \ {"scan", "take"}, a = "restore" => r.kept # NoBody,
         Continue(r, [r EXCEPT !.at = a])
  PROVE  Follows([r EXCEPT !.at = a], r)
<1> DEFINE n == [r EXCEPT !.at = a]
<1>1. r \in TaskRequest /\ r.cmd \in TaskCommand
  BY DEF TaskRequestOK, TaskRequest
<1>2. a \in {"check", "restore", "read", "reset", "push", "delete", "delayed", "promote", "cut"}
  BY <1>1 DEF StopsOf, TaskCommand
<1>3. /\ n \in TaskRequest /\ n.at = a /\ n.cmd = r.cmd
      /\ n.task = r.task /\ n.found = r.found /\ n.kept = r.kept
  BY <1>1, <1>2 DEF TaskRequest
<1> HIDE DEF n
<1>4. n.at # "take" /\ n.at # "scan"
  BY <1>2, <1>3
<1>5. Follows(n, r)
  BY <1>3, <1>4 DEF Follows, TaskRequestOK, n
<1>6. QED
  BY <1>5 DEF n

(* A request whose work is done, or that found nothing to do. *)
Finishes(r) ==
  /\ Finish(r)
  /\ \/ r.at \in {"push", "delete", "delayed", "promote"}
     \/ r.at = "check" /\ body[r.task] = NoBody

(* Every command takes a request on a task to its next stop or ends it. *)
LEMMA TaskStepFollows ==
  ASSUME RedisTypeOK, NEW r \in requests, TaskRequestOK(r), RequestStep(r) \/ Abandon(r)
  PROVE  (\E n : Follows(n, r)) \/ Finishes(r)
<1>1. /\ r \in TaskRequest /\ r.task \in Task /\ r.cmd \in TaskCommand /\ r.at \in StopsOf(r.cmd)
  BY DEF TaskRequestOK, TaskRequest
<1>2. ASSUME NEW error \in BOOLEAN, CheckBody(r, error) PROVE (\E n : Follows(n, r)) \/ Finishes(r)
  <2>1. r.cmd \in {"retry", "requeue"}
    BY <1>1, <1>2 DEF CheckBody, StopsOf, TaskCommand
  <2>2. AfterCheck(r) \in StopsOf(r.cmd) \ {"scan", "take", "restore"}
    BY <2>1 DEF AfterCheck, StopsOf
  <2>3. CASE Continue(r, [r EXCEPT !.at = AfterCheck(r)])
    BY <2>2, <2>3, AtFollows
  <2>4. CASE Continue(r, [r EXCEPT !.at = "restore"]) /\ r.kept # NoBody
    <3>1. "restore" \in StopsOf(r.cmd) \ {"scan", "take"}
      BY <2>1 DEF StopsOf
    <3>2. QED
      BY <2>4, <3>1, AtFollows
  <2>5. CASE Finish(r) /\ body[r.task] = NoBody
    BY <1>2, <2>5 DEF CheckBody, Finishes
  <2>6. QED
    BY <1>2, <2>3, <2>4, <2>5 DEF CheckBody
<1>3. ASSUME RestoreBody(r) PROVE \E n : Follows(n, r)
  <2>1. r.cmd \in {"retry", "requeue"}
    BY <1>1, <1>3 DEF RestoreBody, StopsOf, TaskCommand
  <2>2. AfterCheck(r) \in StopsOf(r.cmd) \ {"scan", "take", "restore"}
    BY <2>1 DEF AfterCheck, StopsOf
  <2>3. QED
    BY <1>3, <2>2, AtFollows DEF RestoreBody
<1>4. ASSUME NEW error \in BOOLEAN, ReadBody(r, error) \/ ResetAttempts(r, error)
      PROVE  \E n : Follows(n, r)
  <2>1. r.cmd = "retry"
    BY <1>1, <1>4 DEF ReadBody, ResetAttempts, StopsOf, TaskCommand
  <2>2. {"push", "reset"} \subseteq StopsOf(r.cmd) \ {"scan", "take", "restore"}
    BY <2>1 DEF StopsOf
  <2>3. \E a \in {"push", "reset"} : Continue(r, [r EXCEPT !.at = a])
    BY <1>4 DEF ReadBody, ResetAttempts
  <2>4. QED
    BY <2>2, <2>3, AtFollows
<1>5. ASSUME CheckDelayed(r) PROVE (\E n : Follows(n, r)) \/ Finishes(r)
  <2>1. r.cmd = "promote"
    BY <1>1, <1>5 DEF CheckDelayed, StopsOf, TaskCommand
  <2>2. "promote" \in StopsOf(r.cmd) \ {"scan", "take", "restore"}
    BY <2>1 DEF StopsOf
  <2>3. QED
    BY <1>5, <2>2, AtFollows DEF CheckDelayed, Finishes
<1>6. ASSUME Abandon(r) PROVE \E n : Follows(n, r)
  <2>1. "cut" \in StopsOf(r.cmd) \ {"scan", "take", "restore"}
    BY DEF StopsOf
  <2>2. QED
    BY <1>6, <2>1, AtFollows DEF Abandon
<1>7. ASSUME \/ \E copies \in 1..2 : PushBack(r, copies) \/ PromoteDelayed(r, copies)
             \/ DeleteTask(r)
      PROVE  Finishes(r)
  BY <1>7 DEF PushBack, PromoteDelayed, DeleteTask, Finishes
<1>8. ~ListIDs(r) /\ ~Purge(r)
  BY <1>1 DEF ListIDs, Purge, StopsOf, TaskCommand
<1>9. QED
  BY ZenonT(60), <1>2, <1>3, <1>4, <1>5, <1>6, <1>7, <1>8, TakeDeadFollows DEF RequestStep

(* A purge is either listing or purging, cut short or done. *)
LEMMA PurgeStepFollows ==
  ASSUME RedisTypeOK, NEW r \in requests, r \in PurgeRequest, RequestStep(r) \/ Abandon(r)
  PROVE  /\ ListIDs(r) \/ Purge(r) \/ Abandon(r)
         /\ \E n \in PurgeRequest : Continue(r, n) /\ (Purge(r) => n.at = "purged" /\ n.ids = r.ids)
<1>1. r.at \in {"list", "purge", "purged", "cut"}
  BY DEF PurgeRequest
<1>2. ListIDs(r) \/ Purge(r) \/ Abandon(r)
  BY Zenon, <1>1 DEF RequestStep, ScanDead, TakeEntry, CheckBody, RestoreBody, ReadBody,
              ResetAttempts, PushBack, PromoteDelayed, DeleteTask, CheckDelayed
<1>3. CASE ListIDs(r)
  <2>1. PICK S : /\ S = IF r.cmd = "purgeQueue" THEN Range(immediate)
                        ELSE {d.task : d \in Range(dead)} \ Undecodable
                 /\ Continue(r, [r EXCEPT !.at = "purge", !.ids = S])
    BY Zenon, <1>3 DEF ListIDs
  <2>2. S \in SUBSET Task
    <3>1. Range(immediate) \subseteq Task /\ Range(dead) \subseteq DeadBody
      BY DEF Range, RedisTypeOK
    <3>2. QED
      BY <2>1, <3>1 DEF DeadBody
  <2>3. ~Purge(r)
    BY <1>3 DEF ListIDs, Purge
  <2>4. QED
    BY Zenon, <1>2, <2>1, <2>2, <2>3, PurgeRecord
<1>4. CASE Purge(r)
  <2>1. Continue(r, [r EXCEPT !.at = "purged"])
    BY <1>4 DEF Purge
  <2>2. /\ [r EXCEPT !.at = "purged"] \in PurgeRequest
        /\ [r EXCEPT !.at = "purged"].at = "purged" /\ [r EXCEPT !.at = "purged"].ids = r.ids
    BY Zenon, PurgeRecord
  <2>3. QED
    BY Zenon, <1>2, <2>1, <2>2
<1>5. CASE Abandon(r) /\ ~Purge(r)
  BY Zenon, <1>2, <1>5, PurgeRecord DEF Abandon
<1>6. QED
  BY <1>2, <1>3, <1>4, <1>5
-----------------------------------------------------------------------------
(* The inductive invariant. *)

(* The commands of the control API keep the Redis keys well-formed, and    *)
(* those that take a task out of the inflight set drop its lease in the    *)
(* same transaction.                                                       *)
LEMMA RequestKeepsKeys ==
  ASSUME LeaseInv, NEW r \in requests, RequestOK(r), RequestStep(r) \/ Abandon(r)
  PROVE  RedisTypeOK' /\ LeaseTableAgrees'
<1> DEFINE Good == RedisTypeOK' /\ LeaseTableAgrees'
<1>1. RedisTypeOK /\ LeaseTableAgrees
  OBVIOUS
<1>2. ASSUME UNCHANGED redisVars PROVE Good
  BY <1>1, <1>2 DEF redisVars, RedisTypeOK, LeaseTableAgrees
<1>3. CASE r \in PurgeRequest
  <2>1. CASE ListIDs(r) \/ Abandon(r)
    BY <1>2, <2>1 DEF ListIDs, Abandon
  <2>2. CASE Purge(r)
    <3>1. /\ immediate' \in Seq(Task) /\ dead' \in Seq(DeadBody)
          /\ body' \in [Task -> Nat \cup {NoBody}]
          /\ UNCHANGED <<inflight, leases, scheduled, paused, issued>>
      BY <1>1, <2>2 DEF Purge, RedisTypeOK
    <3>2. QED
      BY <1>1, <3>1 DEF RedisTypeOK, LeaseTableAgrees
  <2>3. QED
    BY ZenonT(60), <1>1, <1>3, <2>1, <2>2, PurgeStepFollows
<1>4. CASE TaskRequestOK(r)
  <2>1. r.task \in Task /\ r.kept \in Nat \cup {NoBody}
    BY <1>4 DEF TaskRequestOK, TaskRequest
  <2>2. CASE \/ ScanDead(r) \/ CheckDelayed(r) \/ Abandon(r)
             \/ \E error \in BOOLEAN : CheckBody(r, error) \/ ReadBody(r, error)
    BY Zenon, <1>2, <2>2 DEF ScanDead, CheckDelayed, Abandon, CheckBody, ReadBody
  <2>3. CASE TakeEntry(r)
    <3>1. dead' \in Seq(DeadBody)
      BY ZenonT(60), <1>1, <2>3, LRemProperties DEF TakeEntry, RedisTypeOK
    <3>2. QED
      BY <1>1, <2>3, <3>1 DEF TakeEntry, RedisTypeOK, LeaseTableAgrees
  <2>4. CASE RestoreBody(r) \/ \E error \in BOOLEAN : ResetAttempts(r, error)
    <3>1. /\ body' \in [Task -> Nat \cup {NoBody}]
          /\ UNCHANGED <<immediate, inflight, leases, scheduled, dead, paused, issued>>
      <4>1. body \in [Task -> Nat \cup {NoBody}]
        BY <1>1 DEF RedisTypeOK
      <4>2. body' \in {body, [body EXCEPT ![r.task] = 0], [body EXCEPT ![r.task] = r.kept]}
        BY <2>4 DEF RestoreBody, ResetAttempts
      <4>3. UNCHANGED <<immediate, inflight, leases, scheduled, dead, paused, issued>>
        BY <2>4 DEF RestoreBody, ResetAttempts
      <4>4. QED
        BY SMTT(30), <2>1, <4>1, <4>2, <4>3
    <3>2. QED
      BY <1>1, <3>1 DEF RedisTypeOK, LeaseTableAgrees
  <2>5. ASSUME Release(r.task)
        PROVE  /\ LeaseTableAgrees' <=> (\A t \in Task : leases'[t] \in {NoLease, issued'[t]})
               /\ scheduled' \in [Task -> {"none", "waiting", "due"}]
               /\ inflight' \in [Task -> {"none", "live", "expired"}]
               /\ leases' \in [Task -> Nat]
               /\ issued' = issued => LeaseTableAgrees'
    BY ZenonT(60), <1>1, <2>1, <2>5 DEF Release, RedisTypeOK, LeaseTableAgrees, NoLease
  <2>6. ASSUME NEW copies \in 1..2, PushBack(r, copies) PROVE Good
    <3>1. immediate' \in Seq(Task)
      BY ZenonT(60), <1>1, <2>1, <2>6, PushedProperties DEF PushBack, RedisTypeOK
    <3>2. Release(r.task) /\ UNCHANGED <<dead, body, paused, issued>>
      BY <2>6 DEF PushBack
    <3>3. QED
      BY ZenonT(60), <1>1, <2>5, <3>1, <3>2 DEF RedisTypeOK
  <2>7. ASSUME NEW copies \in 1..2, PromoteDelayed(r, copies) PROVE Good
    <3>1. immediate' \in Seq(Task)
      BY ZenonT(60), <1>1, <2>1, <2>7, PushedProperties DEF PromoteDelayed, RedisTypeOK
    <3>2. QED
      BY ZenonT(60), <1>1, <2>1, <2>7, <3>1 DEF PromoteDelayed, RedisTypeOK, LeaseTableAgrees
  <2>8. CASE DeleteTask(r)
    <3>1. immediate' \in Seq(Task)
      BY <1>1, <2>8, FilterProperties DEF DeleteTask, RedisTypeOK
    <3>2. Release(r.task) /\ UNCHANGED <<dead, paused, issued>>
      BY <2>8 DEF DeleteTask
    <3>3. body' \in [Task -> Nat \cup {NoBody}]
      BY <1>1, <2>1, <2>8 DEF DeleteTask, RedisTypeOK
    <3>4. QED
      BY ZenonT(60), <1>1, <2>5, <3>1, <3>2, <3>3 DEF RedisTypeOK
  <2>9. ~ListIDs(r) /\ ~Purge(r)
    BY <1>4 DEF ListIDs, Purge, TaskRequestOK, TaskRequest
  <2>10. QED
    BY ZenonT(60), <2>2, <2>3, <2>4, <2>6, <2>7, <2>8, <2>9 DEF RequestStep
<1>5. QED
  BY <1>3, <1>4 DEF RequestOK

(* A request ends, stops somewhere else, or begins. *)
LEMMA ControlKeepsRequests ==
  ASSUME OperatedInv, ControlStep, UNCHANGED gw
  PROVE  RequestInv'
<1> USE DEF RequestInv
<1>1. RedisTypeOK /\ made \in Nat /\ \A r \in requests : RequestOK(r)
  BY DEF OperatedInv
<1>2. ASSUME NEW r PROVE RequestOK(r) => RequestOK(r)'
  BY DEF RequestOK, TaskRequestOK, Known
<1>3. ASSUME NEW cmd \in TaskCommand, NEW t \in Task, AskTask(cmd, t) PROVE RequestInv'
  <2> DEFINE a == IF cmd = "promote" THEN "delayed" ELSE "scan"
  <2>1. PICK m \in Nat : m = made' /\ m = made + 1
    BY <1>1, <1>3 DEF AskTask
  <2> DEFINE n == [id |-> m, cmd |-> cmd, task |-> t, found |-> <<>>, kept |-> NoBody, at |-> a]
  <2>2. requests' = requests \cup {n} /\ Known(t)
    BY <1>3, <2>1 DEF AskTask
  <2>3. a \in {"scan", "delayed"} /\ a \in StopsOf(cmd)
    BY DEF StopsOf, TaskCommand
  <2>4. n \in TaskRequest
    BY <2>3 DEF TaskRequest
  <2>5. TaskRequestOK(n)
    BY SMTT(30), <2>2, <2>3, <2>4 DEF TaskRequestOK
  <2>6. QED
    BY ZenonT(60), <1>1, <1>2, <2>1, <2>2, <2>5 DEF RequestOK
<1>4. ASSUME NEW cmd \in PurgeCommand, AskPurge(cmd) PROVE RequestInv'
  <2>1. PICK m \in Nat : m = made' /\ m = made + 1
    BY <1>1, <1>4 DEF AskPurge
  <2> DEFINE n == [id |-> m, cmd |-> cmd, ids |-> {}, at |-> "list"]
  <2>2. requests' = requests \cup {n}
    BY <1>4, <2>1 DEF AskPurge
  <2>3. n \in PurgeRequest
    BY DEF PurgeRequest
  <2>4. QED
    BY ZenonT(60), <1>1, <1>2, <2>1, <2>2, <2>3 DEF RequestOK
<1>5. ASSUME NEW r \in requests, RequestStep(r) \/ Abandon(r) PROVE RequestInv'
  <2>1. UNCHANGED made
    BY Zenon, <1>5 DEF RequestStep, ScanDead, TakeEntry, CheckBody, RestoreBody, ReadBody,
                ResetAttempts, PushBack, PromoteDelayed, DeleteTask, CheckDelayed,
                ListIDs, Purge, Abandon
  <2>2. requests' \subseteq requests \/ \E n : RequestOK(n) /\ requests' = (requests \ {r}) \cup {n}
    <3>1. CASE TaskRequestOK(r)
      BY ZenonT(60), <1>1, <1>5, <3>1, TaskStepFollows DEF Follows, Finishes, Finish, Continue, RequestOK
    <3>2. CASE r \in PurgeRequest
      BY ZenonT(60), <1>1, <1>5, <3>2, PurgeStepFollows DEF Continue, RequestOK
    <3>3. QED
      BY ZenonT(60), <1>1, <3>1, <3>2 DEF RequestOK
  <2>3. QED
    BY ZenonT(60), <1>1, <1>2, <2>1, <2>2
<1>6. QED
  BY <1>3, <1>4, <1>5 DEF ControlStep

(* The gateway never takes an answer back. *)
LEMMA KnownStays ==
  ASSUME TypeInv, [Next]_vars, NEW t \in Task, Known(t)
  PROVE  Known(t)'
<1>1. ASSUME NEW u \in Task, GatewayStep(u) PROVE Known(t)'
  BY <1>1 DEF GatewayStep, JournalEnqueue, StoreBody, PushImmediate, PushScheduled,
              Materialize, GatewayTypeOK, Known
<1>2. QED
  BY <1>1, StepIsCommand DEF Known

(* Nothing is wrong at the start. *)
LEMMA OperatedStart == OperatedInit => OperatedInv
  BY LeaseInit DEF OperatedInit, ControlInit, OperatedInv, RequestInv

(* OperatedInv is inductive. *)
LEMMA OperatedStep == OperatedInv /\ [OperatedNext]_operatedVars => OperatedInv'
<1> SUFFICES ASSUME OperatedInv, [OperatedNext]_operatedVars PROVE OperatedInv'
  OBVIOUS
<1>1. LeaseInv /\ RequestInv
  BY DEF OperatedInv
<1>2. ASSUME [Next]_vars, UNCHANGED controlVars PROVE OperatedInv'
  <2>1. LeaseInv'
    BY ZenonT(60), <1>1, <1>2, LeaseStep
  <2>2. ASSUME NEW r \in requests PROVE RequestOK(r)'
    <3>1. RequestOK(r) /\ (TaskRequestOK(r) => r.task \in Task)
      BY ZenonT(60), <1>1 DEF RequestInv, TaskRequestOK, TaskRequest
    <3>2. TaskRequestOK(r) => Known(r.task)'
      BY ZenonT(60), <1>1, <1>2, <3>1, KnownStays DEF TaskRequestOK
    <3>3. QED
      BY <3>1, <3>2 DEF RequestOK, TaskRequestOK
  <2>3. QED
    BY <1>1, <1>2, <2>1, <2>2 DEF OperatedInv, RequestInv, controlVars
<1>3. ASSUME ControlStep, UNCHANGED <<gw, poolVars>> PROVE OperatedInv'
  <2>1. RequestInv'
    BY ZenonT(60), <1>3, ControlKeepsRequests
  <2>2. RedisTypeOK' /\ LeaseTableAgrees'
    <3>1. ASSUME UNCHANGED redisVars PROVE RedisTypeOK' /\ LeaseTableAgrees'
      BY <1>1, <3>1 DEF redisVars, RedisTypeOK, LeaseTableAgrees
    <3>2. ASSUME NEW r \in requests, RequestStep(r) \/ Abandon(r)
          PROVE  RedisTypeOK' /\ LeaseTableAgrees'
      BY ZenonT(60), <1>1, <3>2, RequestKeepsKeys DEF RequestInv
    <3>3. QED
      BY ZenonT(60), <1>3, <3>1, <3>2 DEF ControlStep, AskTask, AskPurge
  <2>3. (GatewayTypeOK /\ PoolTypeOK /\ WorkerControl)'
    BY <1>1, <1>3 DEF GatewayTypeOK, PoolTypeOK, WorkerControl, Busy, poolVars, workerVars, loopVars
  <2>4. QED
    BY <2>1, <2>2, <2>3 DEF OperatedInv
<1>4. QED
  BY <1>2, <1>3 DEF OperatedNext, operatedVars

(* So it is an invariant. *)
LEMMA OperatedInvariant == OperatedSpec => []OperatedInv
  BY OperatedStart, OperatedStep, PTL DEF OperatedSpec

(* The Redis keys, the workers and the requests stay well-formed under any *)
(* interleaving of the control API's commands with the scripts: a take     *)
(* always has an entry left to take, and the IDs a purge carries are IDs.  *)
THEOREM OperatedTypeCorrect == OperatedSpec => []OperatedTypeOK
<1>1. OperatedInv => OperatedTypeOK
  BY DEF OperatedInv, OperatedTypeOK, RequestInv, ControlTypeOK, RequestOK, TaskRequestOK
<1>2. QED
  BY <1>1, OperatedInvariant, PTL

(* Requeues, deletes, promotions and purges from the console leave the     *)
(* inflight set and the leases hash listing the same tasks, each under the *)
(* last lease issued: a request never lets an older claim pass a fence.    *)
THEOREM OperatedLeasesAgree == OperatedSpec => []LeaseTableAgrees
<1>1. OperatedInv => LeaseTableAgrees
  BY ZenonT(60) DEF OperatedInv
<1>2. QED
  BY <1>1, OperatedInvariant, PTL
-----------------------------------------------------------------------------
(* Bodies and places under the commands of a request. *)

(* Only the two SETs of requeue create a body, and only deleteTask and the *)
(* purges delete one.                                                      *)
LEMMA RequestBodies ==
  ASSUME OperatedInv, NEW r \in requests, RequestStep(r) \/ Abandon(r), NEW t \in Task
  PROVE  /\ body[t] = NoBody /\ body'[t] # NoBody =>
              /\ TaskRequestOK(r) /\ r.task = t
              /\ RestoreBody(r) \/ \E error \in BOOLEAN : ResetAttempts(r, error)
         /\ body[t] # NoBody /\ body'[t] = NoBody =>
              \/ DeleteTask(r) /\ r.task = t
              \/ Purge(r) /\ t \in r.ids
<1>1. RedisTypeOK /\ RequestOK(r)
  BY DEF OperatedInv, RequestInv
<1>2. body \in [Task -> Nat \cup {NoBody}]
  BY <1>1 DEF RedisTypeOK
<1>3. CASE r \in PurgeRequest
  <2>1. ListIDs(r) \/ Purge(r) \/ Abandon(r)
    BY <1>1, <1>3, PurgeStepFollows
  <2>2. QED
    BY <1>2, <2>1 DEF ListIDs, Purge, Abandon, redisVars
<1>4. CASE TaskRequestOK(r)
  <2>1. r.task \in Task /\ r.kept \in Nat \cup {NoBody} /\ (r.at = "restore" => r.kept # NoBody)
    BY <1>4 DEF TaskRequestOK, TaskRequest
  <2>2. ASSUME RestoreBody(r)
        PROVE  body'[t] = (IF t = r.task THEN r.kept ELSE body[t]) /\ r.kept # NoBody
    BY <1>2, <2>1, <2>2 DEF RestoreBody
  <2>3. ASSUME NEW error \in BOOLEAN, ResetAttempts(r, error)
        PROVE  body'[t] = IF error \/ t # r.task THEN body[t] ELSE 0
    BY <1>2, <2>1, <2>3 DEF ResetAttempts
  <2>4. ASSUME DeleteTask(r)
        PROVE  body'[t] = IF t = r.task THEN NoBody ELSE body[t]
    BY ZenonT(60), <1>2, <2>1, <2>4 DEF DeleteTask
  <2>5. ASSUME \/ ScanDead(r) \/ TakeEntry(r) \/ CheckDelayed(r) \/ Abandon(r)
               \/ \E error \in BOOLEAN : CheckBody(r, error) \/ ReadBody(r, error)
               \/ \E copies \in 1..2 : PushBack(r, copies) \/ PromoteDelayed(r, copies)
        PROVE  body' = body
    BY ZenonT(60), <2>5 DEF ScanDead, TakeEntry, CheckDelayed, Abandon, CheckBody, ReadBody, PushBack,
                PromoteDelayed, redisVars
  <2>6. ~ListIDs(r) /\ ~Purge(r)
    BY <1>4 DEF ListIDs, Purge, TaskRequestOK, TaskRequest
  <2>7. CASE RestoreBody(r)
    BY ZenonT(60), <1>4, <2>2, <2>7
  <2>8. CASE \E error \in BOOLEAN : ResetAttempts(r, error)
    BY SMTT(30), <1>4, <2>3, <2>8 DEF NoBody
  <2>9. CASE DeleteTask(r)
    BY <2>4, <2>9
  <2>10. CASE body' = body
    BY ZenonT(60), <2>10
  <2>11. QED
    BY Zenon, <2>5, <2>6, <2>7, <2>8, <2>9, <2>10 DEF RequestStep
<1>5. QED
  BY <1>1, <1>3, <1>4 DEF RequestOK

(* A task in one of the four structures stays in one of them, but for the  *)
(* one takeDead takes and those a purge empties the list of.               *)
LEMMA RequestPlaces ==
  ASSUME OperatedInv, NEW r \in requests, RequestStep(r) \/ Abandon(r), NEW t \in Task,
         Places(t) # {}, body'[t] # NoBody
  PROVE  \/ Places(t)' # {}
         \/ TaskRequestOK(r) /\ r.task = t /\ TakeEntry(r)
         \/ r \in PurgeRequest /\ Purge(r) /\ t \notin r.ids
<1> DEFINE P == \/ t \in Range(immediate) \/ inflight[t] # "none"
                \/ scheduled[t] # "none" \/ InDead(t)
<1>1. (Places(t) # {} <=> P) /\ (Places(t)' # {} <=> P')
  BY ZenonT(60) DEF Places
<1>2. P
  BY <1>1
<1>3. RedisTypeOK /\ RequestOK(r)
  BY DEF OperatedInv, RequestInv
<1> HIDE DEF P
<1>4. ASSUME UNCHANGED redisVars PROVE P'
  BY ZenonT(60), <1>2, <1>4 DEF redisVars, P, InDead
<1>5. CASE r \in PurgeRequest
  <2>1. CASE ListIDs(r) \/ Abandon(r)
    BY ZenonT(60), <1>1, <1>4, <2>1 DEF ListIDs, Abandon
  <2>2. CASE Purge(r)
    <3>1. t \notin r.ids
      BY ZenonT(60), <2>2 DEF Purge
    <3>2. QED
      BY <1>5, <2>2, <3>1
  <2>3. QED
    BY ZenonT(60), <1>3, <1>5, <2>1, <2>2, PurgeStepFollows
<1>6. CASE TaskRequestOK(r)
  <2>1. r.task \in Task /\ r.found \in Seq(DeadBody)
    BY <1>6 DEF TaskRequestOK, TaskRequest
  <2>2. CASE \/ ScanDead(r) \/ CheckDelayed(r) \/ Abandon(r)
             \/ \E error \in BOOLEAN : CheckBody(r, error) \/ ReadBody(r, error)
    BY ZenonT(60), <1>1, <1>4, <2>2 DEF ScanDead, CheckDelayed, Abandon, CheckBody, ReadBody
  <2>3. CASE RestoreBody(r) \/ \E error \in BOOLEAN : ResetAttempts(r, error)
    <3>1. UNCHANGED <<immediate, inflight, scheduled, dead>>
      BY <2>3 DEF RestoreBody, ResetAttempts
    <3>2. QED
      BY <1>1, <1>2, <3>1 DEF P, InDead
  <2>4. ASSUME TakeEntry(r), r.task # t PROVE P'
    <3>1. Head(r.found).task = r.task
      <4>1. r.found # <<>> /\ \A i \in DOMAIN r.found : r.found[i].task = r.task
        BY <1>6, <2>4 DEF TaskRequestOK, TakeEntry
      <4>2. Head(r.found) = r.found[1] /\ 1 \in DOMAIN r.found
        BY <2>1, <4>1
      <4>3. QED
        BY <4>1, <4>2
    <3>2. Range(dead) \ {Head(r.found)} \subseteq Range(dead')
      BY ZenonT(60), <1>3, <2>4, LRemProperties DEF TakeEntry, RedisTypeOK
    <3>3. InDead(t) => InDead(t)'
      <4>1. ASSUME NEW i \in DOMAIN dead, dead[i].task = t PROVE dead[i] \in Range(dead')
        BY ZenonT(60), <2>4, <3>1, <3>2, <4>1 DEF Range
      <4>2. QED
        BY <4>1 DEF InDead, Range
    <3>4. QED
      BY ZenonT(60), <1>2, <2>4, <3>3 DEF TakeEntry, P
  <2>5. ASSUME NEW copies \in 1..2, PushBack(r, copies) \/ PromoteDelayed(r, copies) PROVE P'
    <3>1. Range(immediate') = Range(immediate) \cup {r.task}
      BY ZenonT(60), <1>3, <2>1, <2>5, PushedProperties DEF PushBack, PromoteDelayed, RedisTypeOK
    <3>2. t # r.task => UNCHANGED <<inflight[t], scheduled[t], dead>>
      BY ZenonT(60), <1>3, <2>1, <2>5 DEF PushBack, PromoteDelayed, Release, RedisTypeOK
    <3>3. QED
      BY ZenonT(60), <1>2, <3>1, <3>2 DEF P, InDead
  <2>6. ASSUME DeleteTask(r) PROVE P'
    <3>1. t # r.task
      BY ZenonT(60), <1>3, <2>1, <2>6 DEF DeleteTask, RedisTypeOK
    <3>2. Range(immediate') = Range(immediate) \cap (Task \ {r.task})
      BY SMTT(30), <1>3, <2>6, FilterProperties DEF DeleteTask, RedisTypeOK
    <3>3. UNCHANGED <<inflight[t], scheduled[t], dead>>
      BY ZenonT(60), <1>3, <2>1, <2>6, <3>1 DEF DeleteTask, Release, RedisTypeOK
    <3>4. QED
      BY ZenonT(60), <1>2, <3>1, <3>2, <3>3 DEF P, InDead
  <2>7. ~ListIDs(r) /\ ~Purge(r)
    BY ZenonT(60), <1>6 DEF ListIDs, Purge, TaskRequestOK, TaskRequest
  <2>8. QED
    BY ZenonT(60), <1>1, <1>6, <2>2, <2>3, <2>4, <2>5, <2>6, <2>7 DEF RequestStep
<1>7. QED
  BY ZenonT(60), <1>3, <1>5, <1>6 DEF RequestOK
-----------------------------------------------------------------------------
(* Between them, the requests lose nothing. *)

(* A request that is settling a task puts it back, deletes it, goes on     *)
(* settling it, or is cut short.                                           *)
LEMMA SettlingStep ==
  ASSUME OperatedInv, NEW r \in requests, RequestStep(r) \/ Abandon(r), NEW t \in Task,
         TaskRequestOK(r), r.task = t, r.cmd \in {"retry", "requeue", "delete"},
         r.at # "scan" \/ TakeEntry(r), body[t] # NoBody \/ r.at # "check", body'[t] # NoBody
  PROVE  Places(t)' # {} \/ Forsaken(t)' \/ \E q \in requests' : Settling(q, t)
<1>1. RedisTypeOK
  BY ZenonT(60) DEF OperatedInv
<1>2. CASE \E n : Follows(n, r)
  <2>1. PICK n : n \in requests' /\ n.cmd = r.cmd /\ n.task = r.task /\ n.at # "scan"
    BY ZenonT(60), <1>2 DEF Follows, Continue
  <2>2. CASE n.at = "cut"
    BY ZenonT(60), <2>1, <2>2 DEF Forsaken
  <2>3. CASE n.at # "cut"
    BY ZenonT(60), <2>1, <2>3 DEF Settling
  <2>4. QED
    BY ZenonT(60), <2>2, <2>3
<1>3. CASE Finishes(r) /\ RequestStep(r)
  <2>1. r.at \in StopsOf(r.cmd)
    BY DEF TaskRequestOK
  <2>2. r.at \in {"push", "delete"}
    BY <1>3, <2>1 DEF Finishes, StopsOf
  <2>3. CASE r.at = "delete"
    <3>1. DeleteTask(r)
      BY ZenonT(60), <1>3, <2>3 DEF RequestStep, ScanDead, TakeEntry, CheckBody, RestoreBody, ReadBody,
              ResetAttempts, PushBack, PromoteDelayed, CheckDelayed, ListIDs, Purge
    <3>2. QED
      BY ZenonT(60), <1>1, <3>1 DEF DeleteTask, RedisTypeOK
  <2>4. CASE r.at = "push"
    <3>1. \E copies \in 1..2 : PushBack(r, copies)
      BY ZenonT(60), <1>3, <2>4 DEF RequestStep, ScanDead, TakeEntry, CheckBody, RestoreBody, ReadBody,
              ResetAttempts, PromoteDelayed, DeleteTask, CheckDelayed, ListIDs, Purge
    <3>2. t \in Range(immediate')
      BY <1>1, <3>1, PushedProperties DEF PushBack, RedisTypeOK
    <3>3. QED
      BY ZenonT(60), <3>2 DEF Places
  <2>5. QED
    BY ZenonT(60), <2>2, <2>3, <2>4
<1>4. CASE Abandon(r)
  <2>1. [r EXCEPT !.at = "cut"] \in requests'
    BY <1>4 DEF Abandon, Continue
  <2>2. /\ [r EXCEPT !.at = "cut"].at = "cut" /\ [r EXCEPT !.at = "cut"].cmd = r.cmd
        /\ [r EXCEPT !.at = "cut"].task = r.task
    BY DEF TaskRequestOK, TaskRequest
  <2>3. QED
    BY ZenonT(60), <2>1, <2>2 DEF Forsaken
<1>5. QED
  BY ZenonT(60), <1>1, <1>2, <1>3, <1>4, TaskStepFollows

(* A request that no longer acts stays on record. *)
LEMMA ForsakenStays ==
  ASSUME OperatedInv, NEW r \in requests, RequestStep(r) \/ Abandon(r), NEW t \in Task, Forsaken(t)
  PROVE  Forsaken(t)'
<1>1. r.at \notin {"cut", "purged"}
  BY ZenonT(60) DEF RequestStep, Abandon, ScanDead, TakeEntry, CheckBody, RestoreBody, ReadBody,
         ResetAttempts, PushBack, PromoteDelayed, DeleteTask, CheckDelayed, ListIDs, Purge
<1>2. requests \ {r} \subseteq requests'
  BY ZenonT(60) DEF RequestStep, Abandon, ScanDead, TakeEntry, CheckBody, RestoreBody, ReadBody,
         ResetAttempts, PushBack, PromoteDelayed, DeleteTask, CheckDelayed, ListIDs, Purge,
         Continue, Finish
<1>3. QED
  BY <1>1, <1>2 DEF Forsaken

(* No command of a request loses a task. *)
LEMMA RequestKeepsTask ==
  ASSUME OperatedInv, RequestsKeepTasks, NEW r \in requests, RequestStep(r) \/ Abandon(r),
         UNCHANGED gw, NEW t \in Task, Enqueued(t)', body'[t] # NoBody
  PROVE  Places(t)' # {} \/ Forsaken(t)' \/ \E q \in requests' : Settling(q, t)
<1>1. RedisTypeOK /\ RequestOK(r) /\ Enqueued(t) /\ \A q \in requests : RequestOK(q)
  BY ZenonT(60) DEF OperatedInv, RequestInv, Enqueued
<1>2. requests \ {r} \subseteq requests'
  BY ZenonT(60) DEF RequestStep, Abandon, ScanDead, TakeEntry, CheckBody, RestoreBody, ReadBody,
         ResetAttempts, PushBack, PromoteDelayed, DeleteTask, CheckDelayed, ListIDs, Purge,
         Continue, Finish
<1>3. CASE body[t] = NoBody
  <2>1. /\ TaskRequestOK(r) /\ r.task = t
        /\ RestoreBody(r) \/ \E error \in BOOLEAN : ResetAttempts(r, error)
    BY <1>3, RequestBodies
  <2>2. r.at \in {"restore", "reset"}
    BY <2>1 DEF RestoreBody, ResetAttempts
  <2>3. r.cmd \in {"retry", "requeue"}
    BY ZenonT(60), <2>1, <2>2 DEF TaskRequestOK, TaskRequest, TaskCommand, StopsOf
  <2>4. QED
    BY ZenonT(60), <2>1, <2>2, <2>3, SettlingStep
<1>4. CASE body[t] # NoBody /\ Places(t) # {}
  <2>1. CASE TaskRequestOK(r) /\ r.task = t /\ TakeEntry(r)
    <3>1. r.at = "take"
      BY <2>1 DEF TakeEntry
    <3>2. r.cmd \in {"retry", "requeue", "delete"}
      BY ZenonT(60), <2>1, <3>1 DEF TaskRequestOK, TaskRequest, TaskCommand, StopsOf
    <3>3. QED
      BY ZenonT(60), <2>1, <3>1, <3>2, SettlingStep
  <2>2. CASE r \in PurgeRequest /\ Purge(r) /\ t \notin r.ids
    <3>1. \E n \in requests' : n.at = "purged" /\ n.ids = r.ids
      BY ZenonT(60), <1>1, <2>2, PurgeStepFollows DEF Continue
    <3>2. QED
      BY ZenonT(60), <2>2, <3>1 DEF Forsaken
  <2>3. QED
    BY ZenonT(60), <1>4, <2>1, <2>2, RequestPlaces
<1>5. CASE Forsaken(t)
  BY <1>5, ForsakenStays
<1>6. ASSUME body[t] # NoBody, NEW q \in requests, Settling(q, t)
      PROVE  Places(t)' # {} \/ Forsaken(t)' \/ \E x \in requests' : Settling(x, t)
  <2>1. CASE q # r
    BY ZenonT(60), <1>2, <1>6, <2>1
  <2>2. CASE q = r
    <3>1. r.cmd \in {"retry", "requeue", "delete"} /\ r.task = t /\ r.at # "scan"
      BY ZenonT(60), <1>6, <2>2 DEF Settling
    <3>2. TaskRequestOK(r)
      BY <1>1, <3>1 DEF RequestOK, PurgeRequest, PurgeCommand
    <3>3. QED
      BY ZenonT(60), <1>6, <3>1, <3>2, SettlingStep
  <2>3. QED
    BY ZenonT(60), <2>1, <2>2
<1>7. QED
  BY ZenonT(60), <1>1, <1>3, <1>4, <1>5, <1>6 DEF RequestsKeepTasks

(* Whatever requests run at the same time as the scripts and as each       *)
(* other, and wherever they are cut short, a task with a body is in one of *)
(* the four structures or in the hands of a request that has yet to put it *)
(* back or delete it; the two ways to drop one are the two Forsaken names. *)
THEOREM RequestsLoseNothing == OperatedSpec => []RequestsKeepTasks
<1> DEFINE I == OperatedInv /\ RequestsKeepTasks
<1>1. OperatedInit => I
  BY OperatedStart DEF OperatedInit, Init, GatewayInit, Enqueued, RequestsKeepTasks
<1>2. I /\ [OperatedNext]_operatedVars => I'
  <2> SUFFICES ASSUME OperatedInv, RequestsKeepTasks, [OperatedNext]_operatedVars
               PROVE  RequestsKeepTasks'
    BY ZenonT(60), OperatedStep
  <2> SUFFICES ASSUME NEW t \in Task, Enqueued(t)', body'[t] # NoBody
               PROVE  Places(t)' # {} \/ Forsaken(t)' \/ \E q \in requests' : Settling(q, t)
    BY DEF RequestsKeepTasks, Settling
  <2>1. TypeInv
    BY ZenonT(60) DEF OperatedInv
  <2>2. ASSUME [Next]_vars, UNCHANGED controlVars
        PROVE  Places(t)' # {} \/ Forsaken(t)' \/ \E q \in requests' : Settling(q, t)
    <3>1. UNCHANGED requests
      BY ZenonT(60), <2>2 DEF controlVars
    <3>2. CASE Enqueued(t) /\ body[t] # NoBody => Places(t) # {}
      BY ZenonT(60), <2>1, <2>2, <3>2, PlaceKept
    <3>3. CASE Forsaken(t) \/ \E q \in requests : Settling(q, t)
      BY ZenonT(60), <3>1, <3>3 DEF Forsaken, Settling
    <3>4. QED
      BY <3>2, <3>3 DEF RequestsKeepTasks
  <2>3. ASSUME UNCHANGED <<gw, redisVars>>, requests \subseteq requests'
        PROVE  Places(t)' # {} \/ Forsaken(t)' \/ \E q \in requests' : Settling(q, t)
    <3>1. Enqueued(t) /\ body[t] # NoBody /\ Places(t)' = Places(t)
      BY ZenonT(60), <2>3 DEF redisVars, Enqueued, Places, InDead
    <3>2. Forsaken(t) => Forsaken(t)'
      BY ZenonT(60), <2>3 DEF Forsaken
    <3>3. QED
      BY ZenonT(60), <2>3, <3>1, <3>2 DEF RequestsKeepTasks
  <2>4. ASSUME ControlStep, UNCHANGED <<gw, poolVars>>
        PROVE  Places(t)' # {} \/ Forsaken(t)' \/ \E q \in requests' : Settling(q, t)
    BY ZenonT(60), <2>3, <2>4, RequestKeepsTask DEF ControlStep, AskTask, AskPurge
  <2>5. QED
    BY <2>2, <2>4 DEF OperatedNext, operatedVars
<1>3. QED
  BY <1>1, <1>2, PTL DEF OperatedSpec
-----------------------------------------------------------------------------
(* Deletes. *)

(* A body goes only with the ACK of the current lease's holder or by the   *)
(* transaction of a delete or of a purge that read the ID: neither a       *)
(* requeue from the console nor a worker that was overtaken by one deletes *)
(* a task.                                                                 *)
THEOREM OnlyOrdersDelete == OperatedSpec => DeletedByOwnerOrOrder
<1> DEFINE A == \A t \in Task :
                  body[t] # NoBody /\ body'[t] = NoBody =>
                    \/ \E w \in Worker : AcksClaim(w, t)
                    \/ \E r \in requests : DeleteTask(r) /\ r.task = t
                    \/ \E r \in requests : Purge(r) /\ t \in r.ids
<1>1. OperatedInv /\ [OperatedNext]_operatedVars => [A]_operatedVars
  <2> SUFFICES ASSUME OperatedInv, OperatedNext, NEW t \in Task,
                      body[t] # NoBody, body'[t] = NoBody
               PROVE  \/ \E w \in Worker : AcksClaim(w, t)
                      \/ \E r \in requests : DeleteTask(r) /\ r.task = t
                      \/ \E r \in requests : Purge(r) /\ t \in r.ids
    OBVIOUS
  <2>1. TypeInv
    BY DEF OperatedInv
  <2>2. CASE Next
    BY ZenonT(60), <2>1, <2>2, DeleteStep
  <2>3. CASE ControlStep
    BY ZenonT(60), <2>3, RequestBodies DEF ControlStep, AskTask, AskPurge, redisVars
  <2>4. QED
    BY ZenonT(60), <2>2, <2>3 DEF OperatedNext
<1>2. QED
  BY <1>1, OperatedInvariant, PTL DEF OperatedSpec, DeletedByOwnerOrOrder

(* The scripts do nothing for a task that is gone, whoever calls them, and *)
(* the gateway has finished with it.                                       *)
LEMMA ScriptsLeaveGone ==
  ASSUME LeaseInv, [Next]_vars, NEW t \in Task, Gone(t)
  PROVE  Gone(t)'
<1> DEFINE G == /\ body[t] = NoBody /\ t \notin Range(immediate)
                /\ inflight[t] = "none" /\ scheduled[t] = "none"
<1>1. (Gone(t) <=> Known(t) /\ G) /\ (Gone(t)' <=> Known(t)' /\ G')
  <2>1. Gone(t) <=> Known(t) /\ G
    BY SMTT(30) DEF Gone, Places
  <2>2. Gone(t)' <=> Known(t)' /\ G'
    BY SMTT(30) DEF Gone, Places
  <2>3. QED
    BY ZenonT(60), <2>1, <2>2
<1>2. Known(t) /\ G
  BY <1>1
<1> HIDE DEF G
<1>3. Known(t)'
  BY <1>2, KnownStays
<1>4. RedisTypeOK /\ leases[t] = NoLease
  BY <1>2 DEF LeaseTableAgrees, G
<1>5. ASSUME NEW u \in Task, GatewayStep(u) PROVE G'
  <2>1. CASE UNCHANGED redisVars
    BY ZenonT(60), <1>2, <2>1 DEF redisVars, G
  <2>2. CASE \E reply \in GatewayReplies : StoreBody(u, reply)
    <3>1. u # t
      BY ZenonT(60), <1>2, <2>2 DEF StoreBody, Known
    <3>2. QED
      BY ZenonT(60), <1>2, <1>4, <2>2, <3>1 DEF StoreBody, SetBody, redisVars, RedisTypeOK, G
  <2>3. ASSUME NEW reply \in GatewayReplies, NEW copies \in 1..2, PushImmediate(u, reply, copies)
        PROVE  G'
    <3>1. u # t
      BY ZenonT(60), <1>2, <2>3 DEF PushImmediate, Known
    <3>2. CASE PushReady(u, copies)
      <4>1. immediate \in Seq(Task) /\ LPush(immediate, u) \in Seq(Task)
        BY ZenonT(60), <1>4, LPushProperties DEF RedisTypeOK
      <4>2. Range(immediate') = Range(immediate) \cup {u}
        BY <3>2, <4>1, LPushRange DEF PushReady
      <4>3. QED
        BY ZenonT(60), <1>2, <3>1, <3>2, <4>2 DEF PushReady, G
    <3>3. QED
      BY ZenonT(60), <2>1, <2>3, <3>2 DEF PushImmediate
  <2>4. CASE \E reply \in GatewayReplies, score \in {"waiting", "due"} :
               PushScheduled(u, reply, score)
    <3>1. u # t
      BY ZenonT(60), <1>2, <2>4 DEF PushScheduled, Known
    <3>2. QED
      BY ZenonT(60), <1>2, <1>4, <2>4, <3>1 DEF PushScheduled, AddScheduled, redisVars, RedisTypeOK, G
  <2>5. QED
    BY ZenonT(60), <1>5, <2>1, <2>2, <2>3, <2>4 DEF GatewayStep, JournalEnqueue, Materialize
<1>6. ASSUME Command PROVE G'
  <2>1. body'[t] = NoBody
    BY ZenonT(60), <1>2, <1>4, <1>6, CommandCreatesNoBody DEF G
  <2>2. CASE UNCHANGED redisVars \/ \E b \in BOOLEAN : SetPaused(b)
    BY ZenonT(60), <1>2, <2>2 DEF redisVars, SetPaused, G
  <2>3. ASSUME NEW deadline \in {"live", "expired"}, ClaimBatch(BatchSize, deadline) PROVE G'
    <3>1. UNCHANGED <<scheduled, body>>
      BY ZenonT(60), <2>3 DEF ClaimBatch
    <3>2. t \notin Range(immediate') /\ inflight'[t] = "none"
      BY ZenonT(60), <1>2, <1>4, <2>3, ClaimBatchEffect DEF G
    <3>3. QED
      BY ZenonT(60), <1>2, <3>1, <3>2 DEF G
  <2>4. ASSUME NEW u \in Task, LeaseExpires(u) \/ ComesDue(u) PROVE G'
    BY ZenonT(60), <1>2, <1>4, <2>4 DEF LeaseExpires, ComesDue, RedisTypeOK, G
  <2>5. ASSUME NEW u \in Task, PromoteTask(u) PROVE G'
    <3>1. CASE scheduled[u] = "due"
      <4>1. Range(immediate') = Range(immediate) \cup {u}
        BY ZenonT(60), <1>4, <2>5, <3>1, LPushRange DEF PromoteTask, RedisTypeOK
      <4>2. QED
        BY ZenonT(60), <1>2, <1>4, <2>5, <3>1, <4>1 DEF PromoteTask, RedisTypeOK, G
    <3>2. CASE scheduled[u] # "due"
      BY ZenonT(60), <1>2, <2>5, <3>2 DEF PromoteTask, G
    <3>3. QED
      BY ZenonT(60), <3>1, <3>2
  <2>6. ASSUME NEW u \in Task, NEW lease \in Nat, RequeueOrDead(u, lease) PROVE G'
    <3>1. u = t => RequeueStatus(u, lease) \in {"fenced", "gone"}
      <4>1. inflight[t] = "none" /\ leases[t] = NoLease
        BY <1>2, <1>4 DEF G
      <4>2. CASE lease = NoLease
        BY <4>1, <4>2 DEF RequeueStatus, Renewed
      <4>3. CASE lease # NoLease
        BY <4>1, <4>3 DEF RequeueStatus
      <4>4. QED
        BY ZenonT(60), <4>2, <4>3
    <3>2. /\ inflight'[t] = "none" /\ scheduled'[t] = "none" /\ immediate' = immediate
      <4>1. inflight[t] = "none" /\ scheduled[t] = "none"
        BY ZenonT(60), <1>2 DEF G
      <4>2. CASE u = t
        BY ZenonT(60), <2>6, <3>1, <4>1, <4>2 DEF RequeueOrDead
      <4>3. CASE u # t
        BY ZenonT(60), <1>4, <2>6, <4>1, <4>3 DEF RequeueOrDead, RedisTypeOK
      <4>4. QED
        BY ZenonT(60), <4>2, <4>3
    <3>3. QED
      BY ZenonT(60), <1>2, <2>1, <3>2 DEF G
  <2>7. ASSUME NEW u \in Task, NEW lease \in Nat \ {NoLease}, Heartbeat(u, lease) PROVE G'
    BY ZenonT(60), <1>2, <1>4, <2>7 DEF Heartbeat, RedisTypeOK, G
  <2>8. ASSUME NEW w \in Worker, AckBatch(acks[w]) PROVE G'
    BY ZenonT(60), <1>2, <2>8 DEF AckBatch, G
  <2>9. QED
    BY ZenonT(60), <1>6, <2>2, <2>3, <2>4, <2>5, <2>6, <2>7, <2>8 DEF Command
<1>7. QED
  BY ZenonT(60), <1>1, <1>3, <1>5, <1>6, StepIsCommand

(* Of the requests, only one that retries, requeues or promotes the task   *)
(* brings it back.                                                         *)
LEMMA RequestsLeaveGone ==
  ASSUME OperatedInv, NEW r \in requests, RequestStep(r) \/ Abandon(r), UNCHANGED gw,
         NEW t \in Task, Gone(t)
  PROVE  \/ Gone(t)'
         \/ r.cmd \in {"retry", "requeue", "promote"} /\ r.task = t /\ r \notin requests'
<1> DEFINE G == /\ body[t] = NoBody /\ t \notin Range(immediate)
                /\ inflight[t] = "none" /\ scheduled[t] = "none"
<1>1. G /\ (G' => Gone(t)')
  BY DEF Gone, Places, Known
<1> HIDE DEF G
<1>2. RedisTypeOK /\ RequestOK(r)
  BY ZenonT(60) DEF OperatedInv, RequestInv
<1>3. ASSUME UNCHANGED redisVars PROVE G'
  BY ZenonT(60), <1>1, <1>3 DEF redisVars, G
<1>4. CASE r \in PurgeRequest
  <2>1. CASE ListIDs(r) \/ Abandon(r)
    BY <1>1, <1>3, <2>1 DEF ListIDs, Abandon
  <2>2. CASE Purge(r)
    <3>1. Range(immediate') \subseteq Range(immediate)
      BY <2>2 DEF Purge, Range
    <3>2. QED
      BY <1>1, <2>2, <3>1 DEF Purge, G
  <2>3. QED
    BY ZenonT(60), <1>2, <1>4, <2>1, <2>2, PurgeStepFollows
<1>5. CASE TaskRequestOK(r)
  <2>1. r \in TaskRequest /\ r.task \in Task /\ r.cmd \in TaskCommand /\ r.at \in StopsOf(r.cmd)
    BY <1>5 DEF TaskRequestOK, TaskRequest
  <2>2. CASE \/ ScanDead(r) \/ CheckDelayed(r) \/ Abandon(r)
             \/ \E error \in BOOLEAN : CheckBody(r, error) \/ ReadBody(r, error)
    BY ZenonT(60), <1>1, <1>3, <2>2 DEF ScanDead, CheckDelayed, Abandon, CheckBody, ReadBody
  <2>3. CASE TakeEntry(r)
    BY <1>1, <2>3 DEF TakeEntry, G
  <2>4. CASE RestoreBody(r) \/ \E error \in BOOLEAN : ResetAttempts(r, error)
    <3>1. r.cmd \in {"retry", "requeue"}
      BY <2>1, <2>4 DEF RestoreBody, ResetAttempts, StopsOf, TaskCommand
    <3>2. CASE r.task = t
      <4>1. PICK a \in {"read", "push"} : requests' = (requests \ {r}) \cup {[r EXCEPT !.at = a]}
        BY <2>4 DEF RestoreBody, ResetAttempts, AfterCheck, Continue
      <4>2. r.at \in {"restore", "reset"} /\ [r EXCEPT !.at = a].at = a
        BY <2>1, <2>4 DEF RestoreBody, ResetAttempts, TaskRequest
      <4>3. r \notin requests'
        BY ZenonT(60), <4>1, <4>2
      <4>4. QED
        BY ZenonT(60), <3>1, <3>2, <4>3
    <3>3. CASE r.task # t
      BY ZenonT(60), <1>1, <1>2, <2>1, <2>4, <3>3 DEF RestoreBody, ResetAttempts, RedisTypeOK, G
    <3>4. QED
      BY <3>2, <3>3
  <2>5. ASSUME NEW copies \in 1..2, PushBack(r, copies) \/ PromoteDelayed(r, copies)
        PROVE  \/ G'
               \/ r.cmd \in {"retry", "requeue", "promote"} /\ r.task = t /\ r \notin requests'
    <3>1. r.cmd \in {"retry", "requeue", "promote"} /\ r \notin requests'
      BY ZenonT(60), <2>1, <2>5 DEF PushBack, PromoteDelayed, StopsOf, TaskCommand, Finish
    <3>2. CASE r.task # t
      <4>1. Range(immediate') = Range(immediate) \cup {r.task}
        BY ZenonT(60), <1>2, <2>1, <2>5, PushedProperties DEF PushBack, PromoteDelayed, RedisTypeOK
      <4>2. UNCHANGED <<inflight[t], scheduled[t], body>>
        BY ZenonT(60), <1>2, <2>1, <2>5, <3>2 DEF PushBack, PromoteDelayed, Release, RedisTypeOK
      <4>3. QED
        BY ZenonT(60), <1>1, <3>2, <4>1, <4>2 DEF G
    <3>3. QED
      BY <3>1, <3>2
  <2>6. ASSUME DeleteTask(r) PROVE G'
    <3>1. Range(immediate') = Range(immediate) \cap (Task \ {r.task})
      BY SMTT(30), <1>2, <2>6, FilterProperties DEF DeleteTask, RedisTypeOK
    <3>2. inflight'[t] = "none" /\ scheduled'[t] = "none" /\ body'[t] = NoBody
      BY ZenonT(60), <1>1, <1>2, <2>1, <2>6 DEF DeleteTask, Release, RedisTypeOK, G
    <3>3. QED
      BY ZenonT(60), <1>1, <3>1, <3>2 DEF G
  <2>7. ~ListIDs(r) /\ ~Purge(r)
    BY ZenonT(60), <1>5 DEF ListIDs, Purge, TaskRequestOK, TaskRequest
  <2>8. QED
    BY ZenonT(60), <1>1, <2>2, <2>3, <2>4, <2>5, <2>6, <2>7 DEF RequestStep
<1>6. QED
  BY ZenonT(60), <1>2, <1>4, <1>5 DEF RequestOK

(* deleteTask leaves nothing of its task outside the dead letters. *)
LEMMA DeleteMakesGone ==
  ASSUME OperatedInv, NEW r \in requests, DeleteTask(r), UNCHANGED gw
  PROVE  Gone(r.task)'
<1>1. RedisTypeOK /\ RequestOK(r) /\ r.at = "delete"
  BY DEF OperatedInv, RequestInv, DeleteTask
<1>2. TaskRequestOK(r)
  BY ZenonT(60), <1>1 DEF RequestOK, PurgeRequest
<1>3. r.task \in Task /\ Known(r.task)'
  BY ZenonT(60), <1>2 DEF TaskRequestOK, TaskRequest, Known
<1>4. Range(immediate') = Range(immediate) \cap (Task \ {r.task})
  BY SMTT(30), <1>1, FilterProperties DEF DeleteTask, RedisTypeOK
<1>5. inflight'[r.task] = "none" /\ scheduled'[r.task] = "none" /\ body'[r.task] = NoBody
  BY <1>1, <1>3 DEF DeleteTask, Release, RedisTypeOK
<1>6. QED
  BY ZenonT(60), <1>3, <1>4, <1>5 DEF Gone, Places

(* A delete takes effect under everyone's hands and stays: no worker,      *)
(* recovery pass or promotion pass that saw the task before brings it      *)
(* back, only a later order to retry, requeue or promote it.               *)
THEOREM DeletesStay == OperatedSpec => DeletedForGood
<1> DEFINE Effect == \A r \in requests : Deletes(r) => Gone(r.task)'
           Stays == \A t \in Task :
                      Gone(t) =>
                        \/ Gone(t)'
                        \/ \E r \in requests : /\ r.cmd \in {"retry", "requeue", "promote"}
                                               /\ r.task = t /\ r \notin requests'
<1>1. ASSUME OperatedInv, OperatedNext PROVE Effect
  <2> SUFFICES ASSUME NEW r \in requests, Deletes(r) PROVE Gone(r.task)'
    OBVIOUS
  <2>1. r.at = "delete" /\ r \notin requests' /\ body'[r.task] # body[r.task]
    BY DEF Deletes
  <2>2. ~(UNCHANGED controlVars) /\ ~(requests \subseteq requests')
    BY ZenonT(60), <2>1 DEF controlVars
  <2>3. PICK q \in requests : (RequestStep(q) \/ Abandon(q)) /\ UNCHANGED gw
    BY ZenonT(60), <1>1, <2>2 DEF OperatedNext, ControlStep, AskTask, AskPurge
  <2>4. requests \ {q} \subseteq requests'
    BY ZenonT(60), <2>3 DEF RequestStep, Abandon, ScanDead, TakeEntry, CheckBody, RestoreBody, ReadBody,
         ResetAttempts, PushBack, PromoteDelayed, DeleteTask, CheckDelayed, ListIDs, Purge,
         Continue, Finish
  <2>5. q = r
    BY ZenonT(60), <2>1, <2>4
  <2>6. DeleteTask(r)
    BY ZenonT(60), <2>1, <2>3, <2>5 DEF RequestStep, Abandon, ScanDead, TakeEntry, CheckBody, RestoreBody,
         ReadBody, ResetAttempts, PushBack, PromoteDelayed, CheckDelayed, ListIDs, Purge, redisVars
  <2>7. QED
    BY ZenonT(60), <1>1, <2>3, <2>6, DeleteMakesGone
<1>2. ASSUME OperatedInv, OperatedNext PROVE Stays
  <2> SUFFICES ASSUME NEW t \in Task, Gone(t)
               PROVE  \/ Gone(t)'
                      \/ \E r \in requests : /\ r.cmd \in {"retry", "requeue", "promote"}
                                             /\ r.task = t /\ r \notin requests'
    OBVIOUS
  <2>1. LeaseInv
    BY <1>2 DEF OperatedInv
  <2>2. CASE Next
    BY ZenonT(60), <2>1, <2>2, ScriptsLeaveGone
  <2>3. CASE UNCHANGED <<gw, redisVars>>
    BY <2>3 DEF Gone, Known, Places, InDead, redisVars
  <2>4. ASSUME NEW r \in requests, RequestStep(r) \/ Abandon(r), UNCHANGED gw
        PROVE  \/ Gone(t)'
               \/ r.cmd \in {"retry", "requeue", "promote"} /\ r.task = t /\ r \notin requests'
    BY ZenonT(60), <1>2, <2>4, RequestsLeaveGone
  <2>5. QED
    BY ZenonT(60), <1>2, <2>2, <2>3, <2>4 DEF OperatedNext, ControlStep, AskTask, AskPurge
<1>3. OperatedInv /\ [OperatedNext]_operatedVars => [Effect /\ Stays]_operatedVars
  BY <1>1, <1>2
<1>4. QED
  BY <1>3, OperatedInvariant, PTL DEF OperatedSpec, DeletedForGood
=============================================================================
