------------------------------ MODULE MCTables ------------------------------
EXTENDS Tables

CONSTANTS j1, j2, j3

(* The column of times tells all jobs apart, the one of attempts does not. *)
RankDef ==
  [f |-> (j1 :> 1 @@ j2 :> 2 @@ j3 :> 3), a |-> (j1 :> 5 @@ j2 :> 3 @@ j3 :> 5)]
SearchesDef  == {Job, {j1, j3}}
PageSizesDef == <<1, 2>>
=============================================================================
