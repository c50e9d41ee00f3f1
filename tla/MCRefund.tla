------------------------------ MODULE MCRefund ------------------------------
(* Small instances of Refund for TLC. *)
EXTENDS Refund, TLC

CONSTANTS o1, k1, k2, w1, w2, r1, a1, a2, a3

OneOrder == {o1}
AmountTwo == [o \in {o1} |-> 2]
TwoKeys == {k1, k2}
OneKey == {k1}
TwoWorkers == {w1, w2}
OneWorker == {w1}
OneLoop == {r1}
TwoAttempts == {a1, a2}
ThreeAttempts == {a1, a2, a3}

\* Sound for safety: no definition distinguishes the members of these sets.
Symmetric == Permutations(TwoKeys) \cup Permutations(TwoWorkers)
                \cup Permutations(ThreeAttempts)
=============================================================================
