------------------------------ MODULE Filters -------------------------------
(***************************************************************************)
(* Two operations on lists, as functions that a proof can follow: a        *)
(* selection with a set for the test, and Redis' LREM.                     *)
(***************************************************************************)
EXTENDS Integers, Sequences

(* The elements of s that are in S, in the order they have in s. *)
Filter(s, S) ==
  LET kept[n \in 0..Len(s)] ==
        IF n = 0 THEN <<>>
        ELSE IF s[n] \in S THEN Append(kept[n - 1], s[n]) ELSE kept[n - 1]
  IN  kept[Len(s)]

(* LREM with a count of 1: s without the first e in it. *)
LRem(s, e) ==
  IF \A i \in 1..Len(s) : s[i] # e THEN s
  ELSE LET k == CHOOSE i \in 1..Len(s) : s[i] = e /\ \A j \in 1..(i - 1) : s[j] # e
       IN  SubSeq(s, 1, k - 1) \o SubSeq(s, k + 1, Len(s))
=============================================================================
