-------------------------- MODULE MCTaskLifecycle --------------------------
(* Instances of TaskLifecycle for TLC. *)
EXTENDS TaskLifecycle, TLC

CONSTANTS r1, r2
OneRequest == {r1}
TwoRequests == {r1, r2}
OneSlot == [k \in Scopes |-> IF k = "user" THEN 1 ELSE 2]
Symmetric == Permutations(Requests)
=============================================================================
