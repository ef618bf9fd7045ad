--------------------------- MODULE MCOperatedQueue --------------------------
(* Values of OperatedQueue's constants for model checking. *)
EXTENDS OperatedQueue, TLC

CONSTANTS t1, w1, p1

OncePerTask  == [t \in Task |-> 1]
OnePool == w1 :> p1
=============================================================================
