-------------------------- MODULE MCJournaledQueue --------------------------
(* Values of JournaledQueue's constants for model checking. *)
EXTENDS JournaledQueue, TLC

CONSTANTS t1, w1, p1

OncePerTask  == [t \in Task |-> 1]
TwicePerTask == [t \in Task |-> 2]

OnePool == w1 :> p1
=============================================================================
