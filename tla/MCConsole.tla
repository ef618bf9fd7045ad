----------------------------- MODULE MCConsole ------------------------------
(* Values of Console's constants for model checking. *)
EXTENDS Console

KeysQueues     == {Key("queues")}
KeysJobs       == {JobKey(j) : j \in Job}
KeysDlqWorkers == {Key("dlq"), Key("workers")}

FewPages   == {"overview", "connection"}
JobPages   == {"overview", "queue", "job", "dlq", "delayed"}
OtherPages == {"overview", "queues", "workers", "worker", "metrics", "settings", "notFound"}

NoOps   == {}
Pausing == {"pauseQueue"}
AllOps  == {o.op : o \in Orders}

FirstToken == {1}
=============================================================================
