---------------------------- MODULE OperatedQueue ---------------------------
(***************************************************************************)
(* The queue together with the operators who use the control API.          *)
(***************************************************************************)
EXTENDS ForgeQueue, ControlAPI

operatedVars == <<vars, controlVars>>

OperatedInit == Init /\ ControlInit

OperatedNext ==
  \/ Next /\ UNCHANGED controlVars
  \/ ControlStep /\ UNCHANGED <<gw, poolVars>>

OperatedSpec == OperatedInit /\ [][OperatedNext]_operatedVars

(* Time passes; every goroutine that can run does, handlers return;        *)
(* a scheduler restarts a pool that is down; a command a loop keeps        *)
(* sending gets through some time; and a handler of the API server keeps   *)
(* going.  Nothing is assumed of the gateway, of heartbeats being in time, *)
(* or of the outcome of a worker's commands.                               *)
OperatedFairness ==
  /\ \A t \in Task :
       /\ WF_operatedVars(UNCHANGED <<gw, poolVars, controlVars>> /\ ComesDue(t))
       /\ WF_operatedVars(/\ UNCHANGED <<gw, poolVars, controlVars>>
                          /\ Unattended(t) /\ LeaseExpires(t))
  /\ \A w \in Worker :
       WF_operatedVars(/\ UNCHANGED <<gw, controlVars>>
                       /\ WorkerStep(w) \/ \E b \in beats : b.worker = w /\ BeatExits(b))
  /\ \A p \in Pool :
       /\ WF_operatedVars(/\ UNCHANGED <<gw, controlVars>>
                          /\ \E found \in SUBSET Task : FindExpiredTasks(p, found))
       /\ WF_operatedVars(/\ UNCHANGED <<gw, controlVars>>
                          /\ \E found \in SUBSET Task : FindDueTasks(p, found))
       /\ WF_operatedVars(UNCHANGED <<gw, controlVars>> /\ RecoveryReports(p))
       /\ WF_operatedVars(UNCHANGED <<gw, controlVars>> /\ (Drained(p) \/ DrainTimesOut(p)))
       /\ WF_operatedVars(UNCHANGED <<gw, controlVars>> /\ StartPool(p))
       /\ \A t \in Task :
            /\ SF_operatedVars(UNCHANGED <<gw, controlVars>> /\ RecoverTask(p, t, "ok"))
            /\ SF_operatedVars(UNCHANGED <<gw, controlVars>> /\ PromoteDueTask(p, t, "ok"))
  /\ \A n \in 1..MaxRequests :
       WF_operatedVars(/\ UNCHANGED <<gw, poolVars>>
                       /\ \E r \in requests : r.id = n /\ RequestStep(r))

OperatedFairSpec == OperatedSpec /\ OperatedFairness

OperatedTypeOK == TypeOK /\ ControlTypeOK
-----------------------------------------------------------------------------
(* The request has yet to put the task back or to delete it. *)
Settling(r, t) ==
  /\ r.cmd \in {"retry", "requeue", "delete"} /\ r.task = t
  /\ r.at \notin {"scan", "cut"}

(* What a request may do to a task it does not settle: one that is cut     *)
(* short after it took the task out of the dead letters, and a purge that  *)
(* emptied the list without having read the ID there.                      *)
Forsaken(t) ==
  \E r \in requests :
    \/ r.at = "cut" /\ r.cmd \in {"retry", "requeue", "delete"} /\ r.task = t
    \/ r.at = "purged" /\ t \notin r.ids

(* Requests lose nothing between them, but for those two cases: a task     *)
(* that still has its body is in one of the four structures, or a request  *)
(* that took it out of the dead letters has yet to put it back or delete   *)
(* it.                                                                     *)
RequestsKeepTasks ==
  \A t \in Task :
    Enqueued(t) /\ body[t] # NoBody =>
      Places(t) # {} \/ Forsaken(t) \/ \E r \in requests : Settling(r, t)

(* So every task is settled in the end, whatever the operators do, unless  *)
(* they leave the queue paused.                                            *)
OperatedSettles ==
  <>[]~paused =>
    \A t \in Task :
      MaxRetries[t] > 0 =>
        (Enqueued(t) ~> (InDead(t) \/ body[t] = NoBody \/ Forsaken(t)))

(* A body is deleted in the ACK of the worker that holds the current lease *)
(* and in the transaction of an operator's order to delete that task or to *)
(* purge the list it was seen in, and in no other step: a worker whose     *)
(* task was requeued from the console cannot delete it any more.           *)
DeletedByOwnerOrOrder ==
  [][\A t \in Task :
       body[t] # NoBody /\ body'[t] = NoBody =>
         \/ \E w \in Worker : AcksClaim(w, t)
         \/ \E r \in requests : DeleteTask(r) /\ r.task = t
         \/ \E r \in requests : Purge(r) /\ t \in r.ids]_operatedVars

(* The step is the transaction of deleteTask for a task that has a body. *)
Deletes(r) ==
  /\ r.at = "delete" /\ r \notin requests'
  /\ body[r.task] # NoBody /\ body'[r.task] = NoBody

(* Nothing is left of the task that could run it. *)
Gone(t) == Known(t) /\ body[t] = NoBody /\ Places(t) \subseteq {"dead"}

(* A delete takes effect under everyone's hands and stays: the task is     *)
(* out of the ready list, the inflight set and the scheduled set and       *)
(* has no body, and a worker, a recovery pass or a promotion pass that saw *)
(* it before does not bring it back.  Only another request does.           *)
DeletedForGood ==
  [][/\ \A r \in requests : Deletes(r) => Gone(r.task)'
     /\ \A t \in Task :
          Gone(t) =>
            \/ Gone(t)'
            \/ \E r \in requests : /\ r.cmd \in {"retry", "requeue", "promote"}
                                   /\ r.task = t /\ r \notin requests']_operatedVars

(* An ID that is queued without a body, as an operator's request that      *)
(* raced with an ACK or a delete leaves it, does not circulate for ever:   *)
(* unless the queue stays paused, it gets its body back from another       *)
(* request, or it is claimed, skipped and dropped by recovery.             *)
MissingBodyDropped ==
  <>[]~paused =>
    \A t \in Task :
      (Enqueued(t) /\ body[t] = NoBody) ~> (Places(t) \subseteq {"dead"} \/ body[t] # NoBody)
=============================================================================
