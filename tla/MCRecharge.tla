----------------------------- MODULE MCRecharge -----------------------------
(* Small instances of Recharge for TLC. *)
EXTENDS Recharge

CONSTANTS o1, w1, w2, r1, a1, a2

OneOrder == {o1}
TwoWorkers == {w1, w2}
OneLoop == {r1}

TwoAttempts == {a1, a2}
=============================================================================
