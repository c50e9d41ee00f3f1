--------------------------- MODULE IdealRecharge ---------------------------
(***************************************************************************)
(* What paying recharge orders promises, without attempts, locks, requests *)
(* or recovery: the channel collects payments for orders, and a wallet is  *)
(* credited for an order at most once and only after a payment for it.     *)
(* Collecting twice is not ruled out: the code does not rule it out.       *)
(***************************************************************************)
EXTENDS Naturals

CONSTANTS Orders, Payments

VARIABLES
    collected,   \* for each order the payments the channel has collected
    credits      \* for each order how often the wallet was credited

vars == <<collected, credits>>

Init ==
    /\ collected = [o \in Orders |-> {}]
    /\ credits = [o \in Orders |-> 0]

\* A payment is collected for one order, once.
Collect(o, p) ==
    /\ \A i \in Orders : p \notin collected[i]
    /\ collected' = [collected EXCEPT ![o] = @ \cup {p}]
    /\ UNCHANGED credits

\* The wallet is credited for a paid order that was not credited yet.
Credit(o) ==
    /\ collected[o] # {}
    /\ credits[o] = 0
    /\ credits' = [credits EXCEPT ![o] = 1]
    /\ UNCHANGED collected

Next == \E o \in Orders : Credit(o) \/ \E p \in Payments : Collect(o, p)

Spec == Init /\ [][Next]_vars
=============================================================================
