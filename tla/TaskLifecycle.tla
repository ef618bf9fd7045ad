--------------------------- MODULE TaskLifecycle ----------------------------
(***************************************************************************)
(* What the queue promises about each task, with no workers, leases or     *)
(* scripts in sight: where it is in its life and how many attempts have    *)
(* been counted against its budget.  A batch may move several tasks in one *)
(* step; "done" and "dead" are final.                                      *)
(***************************************************************************)
EXTENDS Integers

CONSTANTS Task, MaxRetries, Undecodable

VARIABLES phase, attempts

lifeVars == <<phase, attempts>>

Phase == {"absent", "delayed", "ready", "running", "done", "dead"}

LifeInit ==
  /\ phase = [t \in Task |-> "absent"]
  /\ attempts = [t \in Task |-> 0]

Move(S, from, to) ==
  /\ \A t \in S : phase[t] = from
  /\ phase' = [t \in Task |-> IF t \in S THEN to ELSE phase[t]]

Submit(t) ==
  /\ Move({t}, "absent", "ready") \/ Move({t}, "absent", "delayed")
  /\ UNCHANGED attempts

Promote(t) == Move({t}, "delayed", "ready") /\ UNCHANGED attempts

HandOut(S) == Move(S, "ready", "running") /\ UNCHANGED attempts

Complete(S) == Move(S, "running", "done") /\ UNCHANGED attempts

(* A failed attempt is counted once and the task runs again later ... *)
Retry(t) ==
  /\ t \notin Undecodable
  /\ MaxRetries[t] > 0 => attempts[t] + 1 < MaxRetries[t]
  /\ Move({t}, "running", "delayed")
  /\ attempts' = [attempts EXCEPT ![t] = @ + 1]

(* ... unless that was the last one, or the body is beyond reading. *)
Bury(t) ==
  /\ Move({t}, "running", "dead")
  /\ \/ t \in Undecodable /\ UNCHANGED attempts
     \/ /\ t \notin Undecodable
        /\ MaxRetries[t] > 0 /\ attempts[t] + 1 >= MaxRetries[t]
        /\ attempts' = [attempts EXCEPT ![t] = @ + 1]

LifeNext ==
  \/ \E t \in Task : Submit(t) \/ Promote(t) \/ Retry(t) \/ Bury(t)
  \/ \E S \in SUBSET Task : HandOut(S) \/ Complete(S)

LifeSpec == LifeInit /\ [][LifeNext]_lifeVars
=============================================================================
