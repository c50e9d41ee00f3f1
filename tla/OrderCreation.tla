---------------------------- MODULE OrderCreation ----------------------------
(***************************************************************************)
(* Creating a recharge order (payment/service, create_recharge_order): the *)
(* key a client sends along is placed in Redis before the order is written *)
(* to PostgreSQL, and names the order afterwards.                          *)
(***************************************************************************)
EXTENDS Naturals, FiniteSets

CONSTANTS
    Calls,      \* of create_recharge_order; an order is named after the call that makes it
    IdemKeys,   \* payment:idem:recharge:{user}:{key}
    Unasked     \* no key, no order

\* No order is called as the marks of a key are.
ASSUME CreationAssumption == Unasked \notin Calls \cup IdemKeys /\ Calls \cap {"free", "processing"} = {}

VARIABLES
    claims,    \* what each key holds: nothing, "processing", an order
    made,      \* orders in payment_orders
    call,      \* of each call: where it is, its key, what it has read
    answers    \* history: orders answered for a key since it was placed

creationVars == <<claims, made, call, answers>>

CreationInit ==
    /\ claims = [k \in IdemKeys |-> "free"]
    /\ made = {}
    /\ call = [c \in Calls |-> [at |-> "idle", key |-> Unasked]]
    /\ answers = [k \in IdemKeys |-> {}]

At(c, step) == call' = [call EXCEPT ![c].at = step]
Holds(c) == call[c].key # Unasked
Answered(c, o) ==
    answers' = IF Holds(c) THEN [answers EXCEPT ![call[c].key] = @ \cup {o}] ELSE answers

-----------------------------------------------------------------------------

AskOrder(c) ==
    /\ call[c].at = "idle"
    /\ \E k \in IdemKeys \cup {Unasked} :
         call' = [call EXCEPT ![c] = [at |-> IF k = Unasked THEN "create" ELSE "probe", key |-> k]]
    /\ UNCHANGED <<claims, made, answers>>

\* _probe_idempotent_recharge, its GET: an order that is there is the answer, one under way
\* (or one that is not there) refuses the call.
Probe(c) ==
    LET existing == claims[call[c].key] IN
    /\ call[c].at = "probe"
    /\ IF existing = "free" THEN At(c, "place") /\ UNCHANGED answers
       ELSE IF existing \in made THEN At(c, "answered") /\ Answered(c, existing)
       ELSE At(c, "failed") /\ UNCHANGED answers
    /\ UNCHANGED <<claims, made>>

\* Fault: the key is placed whether or not another call has placed it.
PlaceAnyway(c) ==
    /\ call[c].at = "place"
    /\ claims' = [claims EXCEPT ![call[c].key] = "processing"]
    /\ At(c, "create")
    /\ UNCHANGED <<made, answers>>

\* Its SET NX; without a reply the call fails and its key stays.
Place(c) ==
    LET key == call[c].key IN
    /\ call[c].at = "place"
    /\ IF claims[key] # "free" THEN At(c, "failed") /\ UNCHANGED claims
       ELSE claims' = [claims EXCEPT ![key] = "processing"] /\ (At(c, "create") \/ At(c, "failed"))
    /\ UNCHANGED <<made, answers>>

\* The channel, the amount, the number of the order (_generate_order_no) and the INSERT: any
\* of it may fail, the INSERT also after it has taken effect.
CreateOrder(c) ==
    /\ call[c].at = "create"
    /\ \/ At(c, "undo") /\ UNCHANGED made
       \/ (At(c, "record") \/ At(c, "undo")) /\ made' = made \cup {c}
    /\ UNCHANGED <<claims, answers>>

\* The key names the order; a failure is only logged.
Record(c) ==
    /\ call[c].at = "record"
    /\ claims' \in {claims, IF Holds(c) THEN [claims EXCEPT ![call[c].key] = c] ELSE claims}
    /\ At(c, "answered") /\ Answered(c, c)
    /\ UNCHANGED made

\* The key is taken back so that the client may try again at once.
Undo(c) ==
    /\ call[c].at = "undo"
    /\ claims' \in {claims, IF Holds(c) THEN [claims EXCEPT ![call[c].key] = "free"] ELSE claims}
    /\ At(c, "failed")
    /\ UNCHANGED <<made, answers>>

\* The process ends.
Die(c) ==
    /\ call[c].at \in {"probe", "place", "create", "record", "undo"}
    /\ At(c, "failed")
    /\ UNCHANGED <<claims, made, answers>>

\* ORDER_EXPIRE_SECONDS: far longer than a call.
KeyLapses(k) ==
    /\ claims[k] # "free"
    /\ \A c \in Calls : call[c].key = k => call[c].at \in {"idle", "answered", "failed"}
    /\ claims' = [claims EXCEPT ![k] = "free"]
    /\ answers' = [answers EXCEPT ![k] = {}]
    /\ UNCHANGED <<made, call>>

CreationNext ==
    \/ \E c \in Calls : AskOrder(c) \/ Probe(c) \/ Place(c) \/ CreateOrder(c) \/ Record(c) \/ Undo(c) \/ Die(c)
    \/ \E k \in IdemKeys : KeyLapses(k)

CreationSpec == CreationInit /\ [][CreationNext]_creationVars

-----------------------------------------------------------------------------
(* Property. *)

\* While its key lives, whoever asks with it is told of the same order, an order that was
\* written; the key never names another, and while one is being made no second call makes one.
KeyNamesOneOrder ==
    \A k \in IdemKeys :
        /\ Cardinality(answers[k]) <= 1 /\ answers[k] \subseteq made
        /\ claims[k] \in Calls => answers[k] = {claims[k]}
        /\ Cardinality({c \in Calls : call[c].key = k /\ call[c].at \in {"create", "record", "undo"}}) <= 1
=============================================================================
