------------------------------ MODULE MCLedger ------------------------------
(* Charging, change capture and the circuit breaker have no state in common:  *)
(* a run checks one of the three in each of its behaviours.                   *)
EXTENDS Deduction, CdcPipeline, CircuitBreaker

CONSTANTS u1, c1, c2, c3, c4, s1, s2, w1, w2, Part

VARIABLE part

OneUser == {u1}
TwoCharges == {c1, c2}
TwoLoops == {s1, s2}
OwnerOfTwo == [c \in TwoCharges |-> u1]
CostTwo == [c \in TwoCharges |-> 2]

\* In debt, and enough for one charge and a half.
DebtOrThree == {-1, 3}

OneWorker == {w1}
TwoWorkers == {w1, w2}
FourCalls == {c1, c2, c3, c4}

LedgerInit ==
    /\ part \in Part /\ DeductionInit /\ CdcInit /\ Init
    /\ part # "charging" => has = {} /\ \A u \in Users : opening[u] = 3

LedgerNext ==
    /\ UNCHANGED part
    /\ \/ part = "charging" /\ DeductionNext /\ UNCHANGED <<cdcVars, vars>>
       \/ part = "capture" /\ CdcNext /\ UNCHANGED <<deductionVars, vars>>
       \/ part = "breaker" /\ Next /\ UNCHANGED <<deductionVars, cdcVars>>

LedgerSpec == LedgerInit /\ [][LedgerNext]_<<part, deductionVars, cdcVars, vars>>

LedgerFairSpec ==
    /\ LedgerSpec
    /\ \/ part = "charging" /\ DeductionFairness
       \/ part = "capture" /\ CdcFairness
       \/ part = "breaker" /\ Recovery
=============================================================================
