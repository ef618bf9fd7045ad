----------------------------- MODULE QueryCache -----------------------------
(***************************************************************************)
(* The console's query cache as operators on its entries: what useQ asks   *)
(* of the query library, with one retry, no cancellation of the HTTP       *)
(* request and entries that outlive the components that watch them.  An    *)
(* entry is a record of                                                    *)
(*   known, data, error   the last answer, and whether a later fetch failed*)
(*   invalid              invalidated since the last answer                *)
(*   fetch                "idle", "first" or "second" while a request is   *)
(*                        under way, "wait" before the second try          *)
(*   by, owed             history: the token the answer was given to, and  *)
(*                        that one from after the last order is owed       *)
(* A request holds what it is for, the token it was sent with, whether     *)
(* whoever sent it still cares (live), and the server's reply.  fresh is   *)
(* history: the reply was given after the last order was carried out.      *)
(***************************************************************************)

Blank ==
  [known |-> FALSE, data |-> {}, error |-> FALSE, invalid |-> FALSE,
   fetch |-> "idle", by |-> 0, owed |-> FALSE]

Ask(for, key, token) ==
  [for |-> for, key |-> key, token |-> token, live |-> TRUE, reply |-> "none",
   data |-> {}, grant |-> 0, fresh |-> FALSE]

Forget(rs) == {IF r.for = "query" THEN [r EXCEPT !.live = FALSE] ELSE r : r \in rs}

(* An answer arrives. *)
Stored(e, r) ==
  [known |-> TRUE, data |-> r.data, error |-> FALSE, invalid |-> FALSE,
   fetch |-> "idle", by |-> r.token, owed |-> e.owed /\ ~r.fresh]

(* A fetch begins: without an answer an earlier failure is forgotten.      *)
Fetching(e, try) == [e EXCEPT !.fetch = try, !.error = @ /\ e.known]

(* Mutant: one retry too many. *)
FailingLong(e, watched) ==
  IF e.fetch \in {"first", "second"} /\ watched
  THEN [e EXCEPT !.fetch = IF @ = "first" THEN "wait" ELSE "third"]
  ELSE [e EXCEPT !.fetch = "idle", !.error = TRUE]

(* A fetch fails: retry: 1, unless nobody watches the query any more. *)
Failing(e, watched) ==
  IF e.fetch = "first" /\ watched
  THEN [e EXCEPT !.fetch = "wait"]
  ELSE [e EXCEPT !.fetch = "idle", !.error = TRUE]

(* What mounting a hook fetches: a query without an answer, or one that is *)
(* invalid or older than staleTime; a fetch under way is joined.           *)
Fetches(e, aged) == e.fetch = "idle" /\ (~e.known \/ e.invalid \/ aged)

(* Mutant: a fetch under way is good enough. *)
RestartsIdle(e, watched) == watched /\ e.fetch = "idle"

(* invalidateQueries() for a query that is watched or not: the fetch of an *)
(* active query is replaced, unless it is the one for its first answer.    *)
Restarts(e, watched) == watched /\ (e.fetch = "idle" \/ e.known)

Invalidated(e, watched) ==
  IF e = Blank THEN e
  ELSE [IF Restarts(e, watched) THEN Fetching(e, "first") ELSE e EXCEPT !.invalid = TRUE]
=============================================================================
