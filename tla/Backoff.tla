------------------------------ MODULE Backoff -------------------------------
(***************************************************************************)
(* The backoff of a task that keeps failing, computed twice for every      *)
(* attempt: in requeueOrDead, on Lua numbers, for the score in Redis, and  *)
(* by backoffDelay, on a signed integer (time.Duration), for the journal.  *)
(* Both double the base attempts - 1 times and cap the result at the end.  *)
(* The loop for one more attempt is the loop of the last attempt and one   *)
(* more doubling, so a step of the model is one attempt, and lua and go    *)
(* are the loops' results before the cap.                                  *)
(***************************************************************************)
EXTENDS Integers

CONSTANTS
  Half,         \* 2^(w - 1), for a time.Duration of w bits
  Longest,      \* bound: the longest base and cap considered
  MaxAttempts   \* bound: the number of attempts considered

ASSUME BackoffAssumption ==
  /\ Half \in Nat \ {0}
  /\ Longest \in Nat /\ Longest < Half
  /\ MaxAttempts \in Nat

VARIABLES base, cap, attempts, lua, go

backoffVars == <<base, cap, attempts, lua, go>>

BackoffTypeOK ==
  /\ base \in 1..Longest /\ cap \in 1..Longest
  /\ attempts \in Nat
  /\ lua \in Nat
  /\ go \in -Half..(Half - 1)

(* The first attempt has failed. *)
BackoffInit ==
  /\ base \in 1..Longest
  /\ cap \in 1..Longest
  /\ attempts = 1
  /\ lua = base
  /\ go = base

(* Mutant: unsigned. *)
WrapUnsigned(n) == n % (2 * Half)

(* Two's complement. *)
Wrap(n) == ((n + Half) % (2 * Half)) - Half

Capped(delay) == IF delay > cap THEN cap ELSE delay

(* Mutant: the journal's side counts from zero. *)
FailsAgainLate ==
  /\ attempts < MaxAttempts
  /\ attempts' = attempts + 1
  /\ lua' = lua * 2
  /\ go' = IF attempts = 1 THEN go ELSE Wrap(go * 2)
  /\ UNCHANGED <<base, cap>>

FailsAgain ==
  /\ attempts < MaxAttempts
  /\ attempts' = attempts + 1
  /\ lua' = lua * 2
  /\ go' = Wrap(go * 2)
  /\ UNCHANGED <<base, cap>>

BackoffSpec == BackoffInit /\ [][FailsAgain]_backoffVars
-----------------------------------------------------------------------------
(* The journal records the delay Redis applies for as long as the doubled  *)
(* base fits a time.Duration; once it has passed the cap by then, both     *)
(* have settled on the cap.                                                *)
InSyncUntilOverflow == lua < Half => Capped(go) = Capped(lua)
=============================================================================
