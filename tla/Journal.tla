------------------------------ MODULE Journal -------------------------------
(***************************************************************************)
(* The Postgres journal: one row per task the gateway accepted, each       *)
(* statement atomic.  A row keeps its state and whether schedule_at is     *)
(* set.  Its payload is the body as first enqueued, with attempts 0.       *)
(* redis_pending and attempts are written and never read: left out.        *)
(***************************************************************************)
EXTENDS Gateway, Filters

CONSTANT PageSize   \* reconcilePageSize

ASSUME JournalAssumption == PageSize \in Nat \ {0}

VARIABLES
  rows,         \* queue_tasks; state "absent" where there is no row
  created       \* the tasks that have a row, in the order of (created_at, id)

journalVars == <<rows, created>>

RowState == {"absent", "enqueued", "processing", "retrying", "succeeded", "dead"}
Row      == [state : RowState, timed : BOOLEAN]

JournalTypeOK ==
  /\ rows \in [Task -> Row]
  /\ created \in Seq(Task)

JournalInit ==
  /\ rows = [t \in Task |-> [state |-> "absent", timed |-> FALSE]]
  /\ created = <<>>

EnqueueRow(t) ==
  /\ rows' = [rows EXCEPT ![t] = [state |-> "enqueued", timed |-> t \in Delayed]]
  /\ created' = Append(created, t)

(* setState: an UPDATE by ID, whatever state the row is in.  Only Retrying *)
(* passes a schedule; the others leave the one on record.                  *)
SetState(t, state) ==
  /\ rows' = [rows EXCEPT ![t] =
       IF @.state = "absent" THEN @
       ELSE [state |-> state, timed |-> @.timed \/ state = "retrying"]]
  /\ UNCHANGED created

Terminal(t) == rows[t].state \in {"succeeded", "dead"}

(* Mutant: a task that was started is left to Redis. *)
NonTerminalIdle == {"enqueued", "retrying"}

NonTerminal == {"enqueued", "processing", "retrying"}

(* Active: a page of the non-terminal rows behind the cursor, which is a   *)
(* position in created.                                                    *)
Active(cursor) ==
  LET behind == {i \in DOMAIN created : i > cursor /\ rows[created[i]].state \in NonTerminal}
      active == Filter([i \in DOMAIN created |-> i], behind)
  IN  SubSeq(active, 1, IF PageSize < Len(active) THEN PageSize ELSE Len(active))
=============================================================================
