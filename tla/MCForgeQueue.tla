---------------------------- MODULE MCForgeQueue ----------------------------
(* Values of ForgeQueue's constants for model checking. *)
EXTENDS ForgeQueue, TLC

CONSTANTS t1, t2, w1, w2, p1, p2

TwicePerTask   == [t \in Task |-> 2]
TwiceAndOnce   == [t \in Task |-> IF t = t1 THEN 2 ELSE 1]
TwiceOrForever == [t \in Task |-> IF t = t1 THEN 2 ELSE 0]

OnePool    == w1 :> p1
TwoWorkers == w1 :> p1 @@ w2 :> p1
TwoPools   == w1 :> p1 @@ w2 :> p2

(* Two pools of one worker each are interchangeable. *)
PoolSwap == {w1 :> w2 @@ w2 :> w1 @@ p1 :> p2 @@ p2 :> p1}
=============================================================================
