----------------------------- MODULE ControlAPI -----------------------------
(***************************************************************************)
(* The requests of the control API that move, delete or purge tasks.  Each *)
(* is a handler of the API server that sends Redis plain commands and      *)
(* MULTI/EXEC transactions one after the other; anything may happen        *)
(* between two of them.  requests holds the requests under way; the field  *)
(* at of a request is its next command:                                    *)
(*   "scan"     takeDead: LRANGE of the dead letters                       *)
(*   "take"     takeDead: LREM of the next entry it found                  *)
(*   "check"    requeue: GET, to learn whether the body exists             *)
(*   "restore"  requeue: SET of the body found among the dead letters      *)
(*   "read"     requeue: GET of the body whose attempts are to be reset    *)
(*   "reset"    requeue: SET of the body it read, with attempts 0          *)
(*   "push"     requeue: the transaction                                   *)
(*   "delete"   deleteTask: the transaction                                *)
(*   "delayed"  PromoteDelayed: ZSCORE                                     *)
(*   "promote"  PromoteDelayed: the transaction                            *)
(*   "list"     PurgeQueue, PurgeDLQ: LRANGE                               *)
(*   "purge"    PurgeQueue, PurgeDLQ: the transaction                      *)
(* History: a request that was cut short stays with at = "cut", a purge    *)
(* that has been carried out with at = "purged".                           *)
(***************************************************************************)
EXTENDS Gateway, Filters

CONSTANTS
  Commands,     \* the commands operators use
  CutShort,     \* whether a request may end after any of its commands
  MaxRequests   \* bound: how many requests are made

TaskCommand  == {"retry", "requeue", "delete", "promote"}
PurgeCommand == {"purgeQueue", "purgeDLQ"}

ASSUME ControlAssumption ==
  /\ Commands \subseteq TaskCommand \cup PurgeCommand
  /\ CutShort \in BOOLEAN
  /\ MaxRequests \in Nat

VARIABLES
  requests,     \* the requests under way, and the history above
  made          \* number of requests made so far

controlVars == <<requests, made>>

(* found: the entries takeDead has still to remove; kept: the attempts in  *)
(* the first body it found, NoBody if it found none; ids: what LRANGE      *)
(* returned to a purge.                                                    *)
TaskRequest ==
  [id : Nat, cmd : TaskCommand, task : Task, found : Seq(DeadBody),
   kept : Nat \cup {NoBody},
   at : {"scan", "take", "check", "restore", "read", "reset", "push", "delete",
         "delayed", "promote", "cut"}]

PurgeRequest ==
  [id : Nat, cmd : PurgeCommand, ids : SUBSET Task,
   at : {"list", "purge", "purged", "cut"}]

ControlTypeOK ==
  /\ \A r \in requests : r \in TaskRequest \/ r \in PurgeRequest
  /\ made \in Nat

ControlInit == requests = {} /\ made = 0

Continue(r, next) == requests' = (requests \ {r}) \cup {next}
Finish(r) == requests' = requests \ {r}

(* The ID has been in a list the console shows, or in an answer to a       *)
(* client.                                                                 *)
Known(t) == gw[t] \notin {"new", "journaled", "stored"}

(* RetryJob and RetryDLQ; RequeueJob; DeleteJob, DeleteDLQ and             *)
(* CancelDelayed; PromoteDelayed.                                          *)
AskTask(cmd, t) ==
  /\ cmd \in Commands /\ Known(t)
  /\ made < MaxRequests
  /\ made' = made + 1
  /\ requests' = requests \cup
       {[id |-> made', cmd |-> cmd, task |-> t, found |-> <<>>, kept |-> NoBody,
         at |-> IF cmd = "promote" THEN "delayed" ELSE "scan"]}
  /\ UNCHANGED redisVars

AskPurge(cmd) ==
  /\ cmd \in Commands
  /\ made < MaxRequests
  /\ made' = made + 1
  /\ requests' = requests \cup
       {[id |-> made', cmd |-> cmd, ids |-> {}, at |-> "list"]}
  /\ UNCHANGED redisVars

(* An error of a command, a client that hangs up or the end of the API     *)
(* server: the rest of the request does not happen.                        *)
Abandon(r) ==
  /\ CutShort /\ r.at \notin {"purged", "cut"}
  /\ Continue(r, [r EXCEPT !.at = "cut"])
  /\ UNCHANGED <<made, redisVars>>
-----------------------------------------------------------------------------
(* takeDead *)

(* Entries that do not decode are skipped. *)
DeadEntries(t) ==
  Filter(dead, {d \in Range(dead) : d.task = t /\ d.task \notin Undecodable})

AfterTake(cmd, found) ==
  CASE found # <<>>   -> "take"
    [] cmd = "delete" -> "delete"
    [] OTHER          -> "check"

ScanDead(r) ==
  LET found == DeadEntries(r.task)
  IN  /\ r.at = "scan"
      /\ Continue(r, [r EXCEPT !.found = found,
                               !.kept = IF found = <<>> THEN NoBody ELSE Head(found).attempts,
                               !.at = AfterTake(r.cmd, found)])
      /\ UNCHANGED <<made, redisVars>>

TakeEntry(r) ==
  /\ r.at = "take"
  /\ dead' = LRem(dead, Head(r.found))
  /\ Continue(r, [r EXCEPT !.found = Tail(@), !.at = AfterTake(r.cmd, Tail(r.found))])
  /\ UNCHANGED <<made, immediate, inflight, leases, scheduled, body, paused, issued>>
-----------------------------------------------------------------------------
(* requeue *)

AfterCheck(r) == IF r.cmd = "retry" THEN "read" ELSE "push"

(* Only redis.Nil counts as missing: after any other error the request     *)
(* goes on as if the body were there.                                      *)
CheckBody(r, error) ==
  /\ r.at = "check"
  /\ error => CutShort
  /\ IF error \/ body[r.task] # NoBody THEN Continue(r, [r EXCEPT !.at = AfterCheck(r)])
     ELSE IF r.kept = NoBody THEN Finish(r)
     ELSE Continue(r, [r EXCEPT !.at = "restore"])
  /\ UNCHANGED <<made, redisVars>>

RestoreBody(r) ==
  /\ r.at = "restore"
  /\ body' = [body EXCEPT ![r.task] = r.kept]
  /\ Continue(r, [r EXCEPT !.at = AfterCheck(r)])
  /\ UNCHANGED <<made, immediate, inflight, leases, scheduled, dead, paused, issued>>

(* A body that is missing, unreadable or not JSON is not reset. *)
ReadBody(r, error) ==
  /\ r.at = "read"
  /\ error => CutShort
  /\ Continue(r, [r EXCEPT !.at =
       IF error \/ body[r.task] = NoBody \/ r.task \in Undecodable
       THEN "push" ELSE "reset"])
  /\ UNCHANGED <<made, redisVars>>

(* The error of this SET is ignored. *)
ResetAttempts(r, error) ==
  /\ r.at = "reset"
  /\ error => CutShort
  /\ body' = IF error THEN body ELSE [body EXCEPT ![r.task] = 0]
  /\ Continue(r, [r EXCEPT !.at = "push"])
  /\ UNCHANGED <<made, immediate, inflight, leases, scheduled, dead, paused, issued>>

(* LPUSH, in a transaction the client library may resend. *)
Pushed(t, copies) == [i \in 1..copies |-> t] \o immediate

Release(t) ==
  /\ scheduled' = [scheduled EXCEPT ![t] = "none"]
  /\ inflight'  = [inflight EXCEPT ![t] = "none"]
  /\ leases'    = [leases EXCEPT ![t] = NoLease]

(* Mutants: the lease stays on record; the ID is not pushed. *)
PushBackLeased(r, copies) ==
  /\ r.at = "push"
  /\ scheduled' = [scheduled EXCEPT ![r.task] = "none"]
  /\ inflight'  = [inflight EXCEPT ![r.task] = "none"]
  /\ copies = 2 => ClientRetries
  /\ immediate' = Pushed(r.task, copies)
  /\ Finish(r)
  /\ UNCHANGED <<made, leases, dead, body, paused, issued>>

PushBackNowhere(r, copies) ==
  /\ r.at = "push"
  /\ Release(r.task)
  /\ Finish(r)
  /\ UNCHANGED <<made, immediate, dead, body, paused, issued>>

PushBack(r, copies) ==
  /\ r.at = "push"
  /\ Release(r.task)
  /\ copies = 2 => ClientRetries
  /\ immediate' = Pushed(r.task, copies)
  /\ Finish(r)
  /\ UNCHANGED <<made, dead, body, paused, issued>>
-----------------------------------------------------------------------------
(* deleteTask; LREM with count 0 removes every occurrence. *)
DeleteTask(r) ==
  /\ r.at = "delete"
  /\ Release(r.task)
  /\ immediate' = Filter(immediate, Task \ {r.task})
  /\ body' = [body EXCEPT ![r.task] = NoBody]
  /\ Finish(r)
  /\ UNCHANGED <<made, dead, paused, issued>>

(* PromoteDelayed *)
CheckDelayed(r) ==
  /\ r.at = "delayed"
  /\ IF scheduled[r.task] = "none" THEN Finish(r)
                                   ELSE Continue(r, [r EXCEPT !.at = "promote"])
  /\ UNCHANGED <<made, redisVars>>

PromoteDelayed(r, copies) ==
  /\ r.at = "promote"
  /\ scheduled' = [scheduled EXCEPT ![r.task] = "none"]
  /\ copies = 2 => ClientRetries
  /\ immediate' = Pushed(r.task, copies)
  /\ Finish(r)
  /\ UNCHANGED <<made, inflight, leases, dead, body, paused, issued>>

(* Mutant: PurgeDLQ takes the entries for IDs. *)
ListIDsRaw(r) ==
  /\ r.at = "list"
  /\ Continue(r, [r EXCEPT !.at = "purge",
       !.ids = IF r.cmd = "purgeQueue" THEN Range(immediate) ELSE Range(dead)])
  /\ UNCHANGED <<made, redisVars>>

(* PurgeQueue and PurgeDLQ: the bodies of the IDs listed go, and whatever  *)
(* the list holds by then.  PurgeDLQ passes over entries that do not       *)
(* decode.                                                                 *)
ListIDs(r) ==
  /\ r.at = "list"
  /\ Continue(r, [r EXCEPT !.at = "purge",
       !.ids = IF r.cmd = "purgeQueue" THEN Range(immediate)
               ELSE {d.task : d \in Range(dead)} \ Undecodable])
  /\ UNCHANGED <<made, redisVars>>

Purge(r) ==
  /\ r.at = "purge"
  /\ body' = [t \in Task |-> IF t \in r.ids THEN NoBody ELSE body[t]]
  /\ immediate' = IF r.cmd = "purgeQueue" THEN <<>> ELSE immediate
  /\ dead' = IF r.cmd = "purgeDLQ" THEN <<>> ELSE dead
  /\ Continue(r, [r EXCEPT !.at = "purged"])
  /\ UNCHANGED <<made, inflight, leases, scheduled, paused, issued>>
-----------------------------------------------------------------------------
RequestStep(r) ==
  \/ ScanDead(r) \/ TakeEntry(r)
  \/ \E error \in BOOLEAN : CheckBody(r, error)
  \/ RestoreBody(r)
  \/ \E error \in BOOLEAN : ReadBody(r, error) \/ ResetAttempts(r, error)
  \/ \E copies \in 1..2 : PushBack(r, copies) \/ PromoteDelayed(r, copies)
  \/ DeleteTask(r) \/ CheckDelayed(r)
  \/ ListIDs(r) \/ Purge(r)

ControlStep ==
  \/ \E cmd \in TaskCommand, t \in Task : AskTask(cmd, t)
  \/ \E cmd \in PurgeCommand : AskPurge(cmd)
  \/ \E r \in requests : RequestStep(r) \/ Abandon(r)
=============================================================================
