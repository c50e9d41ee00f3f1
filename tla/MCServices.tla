----------------------------- MODULE MCServices -----------------------------
(* Five parts that share no state: refunds, the creation of orders, the windows, *)
(* the reusable breaker and the life of a process. A run checks one of them in   *)
(* each of its behaviours.                                                       *)
EXTENDS Refund, OrderCreation, RateWindows, ProbeGate, Lifespan, TLC

CONSTANTS o1, k1, k2, k3, w1, w2, v1, a1, a2, c1, c2, c3, t1, t2, Part

VARIABLE part

OneOrder == {o1}
AmountTwo == [o \in {o1} |-> 2]
TwoKeys == {k1, k2}
TwoWorkers == {w1, w2}
OneLoop == {v1}
TwoAttempts == {a1, a2}

OneKey == {k3}
ThreeCalls == {c1, c2, c3}

TwoTasks == {t1, t2}

\* Sound for safety: no definition distinguishes the members of these sets.
Symmetric == Permutations({w1, w2}) \cup Permutations({a1, a2}) \cup Permutations({k1, k2})

ServicesInit ==
    /\ part \in Part
    /\ Init /\ CreationInit /\ WindowInit /\ GateInit /\ LifeInit
    /\ part # "windows" => window = "qps"
    /\ part # "process" => appEnv = "production"

ServicesNext ==
    /\ UNCHANGED part
    /\ \/ /\ part = "refunds" /\ Next
          /\ UNCHANGED <<creationVars, windowVars, gateVars, lifeVars>>
       \/ /\ part = "orders" /\ CreationNext
          /\ UNCHANGED <<vars, windowVars, gateVars, lifeVars>>
       \/ /\ part = "windows" /\ WindowNext
          /\ UNCHANGED <<vars, creationVars, gateVars, lifeVars>>
       \/ /\ part = "breaker" /\ GateNext
          /\ UNCHANGED <<vars, creationVars, windowVars, lifeVars>>
       \/ /\ part = "process" /\ LifeNext
          /\ UNCHANGED <<vars, creationVars, windowVars, gateVars>>

ServicesSpec ==
    ServicesInit /\ [][ServicesNext]_<<part, vars, creationVars, windowVars, gateVars, lifeVars>>
=============================================================================
