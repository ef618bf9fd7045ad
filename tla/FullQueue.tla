----------------------------- MODULE FullQueue ------------------------------
(***************************************************************************)
(* The whole backend: the queue with its journal and reconcilers, and the  *)
(* operators who use the control API, which knows nothing of the journal.  *)
(***************************************************************************)
EXTENDS JournaledQueue, ControlAPI

fullVars == <<journaledVars, controlVars>>

FullInit == JournaledInit /\ ControlInit

FullNext ==
  \/ JournaledNext /\ UNCHANGED controlVars
  \/ ControlStep /\ UNCHANGED <<gw, poolVars, journalVars, reportVars, reconcilerVars, flushes>>

FullSpec == FullInit /\ [][FullNext]_fullVars
-----------------------------------------------------------------------------
(* "Permanently removes ... from Redis and PostgreSQL" (the dialog of the  *)
(* job page): a task that was enqueued, never run and then deleted by an   *)
(* operator has no body again, unless somebody asks for it.                *)
DeletedStays ==
  [][\A t \in Task :
       (/\ Enqueued(t) /\ runs[t] = 0 /\ flushes = 0 /\ body[t] = NoBody
        /\ \A r \in requests : r.cmd \in {"retry", "requeue"} => r.task # t)
         => body'[t] = NoBody]_fullVars
=============================================================================
