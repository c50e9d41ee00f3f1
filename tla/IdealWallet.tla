---------------------------- MODULE IdealWallet ----------------------------
(***************************************************************************)
(* What charging wallets promises, without locks, placeholders, settlers   *)
(* or failures: a charge is taken at most once, in full or as far as the   *)
(* balance goes, and what was decided about it stays.                      *)
(***************************************************************************)
EXTENDS Integers

CONSTANTS Users, Charges, UserOf, Cost, Openings

VARIABLES
    balance,   \* of each user
    paid       \* what became of each charge: "open", "paid" or "void"

vars == <<balance, paid>>

Init ==
    /\ balance \in [Users -> Openings]
    /\ paid = [c \in Charges |-> "open"]

\* What a balance of b yields towards a price.
Taken(price, b) == IF b <= 0 THEN 0 ELSE IF b < price THEN b ELSE price

Pay(c) ==
    /\ paid[c] = "open"
    /\ paid' = [paid EXCEPT ![c] = "paid"]
    /\ balance' = [balance EXCEPT ![UserOf[c]] = @ - Taken(Cost[c], @)]

Void(c) ==
    /\ paid[c] = "open"
    /\ paid' = [paid EXCEPT ![c] = "void"]
    /\ UNCHANGED balance

\* A recharge of one unit.
TopUp(u) ==
    /\ balance' = [balance EXCEPT ![u] = @ + 1]
    /\ UNCHANGED paid

Next ==
    \/ \E c \in Charges : Pay(c) \/ Void(c)
    \/ \E u \in Users : TopUp(u)

Spec == Init /\ [][Next]_vars
=============================================================================
