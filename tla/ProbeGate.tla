----------------------------- MODULE ProbeGate -----------------------------
(***************************************************************************)
(* The reusable circuit breaker: a breaker that is half open lets one call *)
(* through.  A call is bounded by wait_for, so the time that calls take    *)
(* and the time a breaker stays open are related, see GateAssumption.      *)
(* The lock of the class is never held across an await: a call is admitted *)
(* in one step and its end is recorded in one step.                        *)
(***************************************************************************)
EXTENDS Naturals, FiniteSets

CONSTANTS
    Callers,
    FailThreshold,
    CallTimeout,     \* whole ticks; a call may take up to one more to be noticed
    RecoverTimeout

ASSUME GateAssumption ==
    /\ FailThreshold \in Nat \ {0} /\ CallTimeout \in Nat \ {0} /\ RecoverTimeout \in Nat
    /\ RecoverTimeout > CallTimeout

VARIABLES
    gate,     \* state, failures, whether a probe is in flight, time since it opened
    inflight  \* ages of the calls that reached what is called

gateVars == <<gate, inflight>>

GateInit ==
    /\ gate = [state |-> "closed", failures |-> 0, probing |-> FALSE, open |-> 0]
    /\ inflight = [c \in {} |-> 0]

Underway == DOMAIN inflight
Without(c) == [d \in Underway \ {c} |-> inflight[d]]
Tripped == [state |-> "open", failures |-> 0, probing |-> FALSE, open |-> 0]

-----------------------------------------------------------------------------

\* What a call finds: a breaker that has been open long enough is half open.
Found ==
    IF gate.state = "open" /\ gate.open >= RecoverTimeout
    THEN [gate EXCEPT !.state = "half_open", !.probing = FALSE] ELSE gate

\* Fault: a probe that is under way is not looked at.
AdmitBesideProbe(c) ==
    /\ c \notin Underway /\ Found.state # "open"
    /\ gate' = [Found EXCEPT !.probing = Found.state = "half_open"]
    /\ inflight' = [d \in Underway \cup {c} |-> IF d = c THEN 0 ELSE inflight[d]]

\* call up to the await: an open breaker refuses, and a half open one that has a probe.
Admit(c) ==
    /\ c \notin Underway /\ Found.state # "open"
    /\ ~(Found.state = "half_open" /\ Found.probing)
    /\ gate' = [Found EXCEPT !.probing = Found.state = "half_open"]
    /\ inflight' = [d \in Underway \cup {c} |-> IF d = c THEN 0 ELSE inflight[d]]

\* _on_success
Succeed(c) ==
    /\ c \in Underway /\ inflight' = Without(c)
    /\ gate' = IF gate.state = "half_open"
               THEN [gate EXCEPT !.state = "closed", !.probing = FALSE, !.failures = 0]
               ELSE [gate EXCEPT !.failures = 0]

\* _on_failure, of an error or of wait_for; a call that ends in an open breaker counts too.
FailCall(c) ==
    /\ c \in Underway /\ inflight' = Without(c)
    /\ gate' = IF gate.state = "half_open" \/ gate.failures + 1 >= FailThreshold
               THEN Tripped ELSE [gate EXCEPT !.failures = @ + 1]

\* _end_probe: the client went away.
Cancel(c) ==
    /\ c \in Underway /\ inflight' = Without(c)
    /\ gate' = IF gate.state = "half_open" THEN [gate EXCEPT !.probing = FALSE] ELSE gate

\* No call outlasts its timeout.
Pass ==
    /\ \A c \in Underway : inflight[c] < CallTimeout
    /\ inflight' = [c \in Underway |-> inflight[c] + 1]
    /\ gate' = [gate EXCEPT !.open = IF gate.state = "open" /\ @ < RecoverTimeout THEN @ + 1 ELSE @]

GateNext ==
    \/ \E c \in Callers : Admit(c) \/ Succeed(c) \/ FailCall(c) \/ Cancel(c)
    \/ Pass

GateSpec == GateInit /\ [][GateNext]_gateVars

-----------------------------------------------------------------------------
(* Property. *)

\* A breaker that is half open has at most the one probe in flight: its end alone decides
\* whether the breaker closes, and no call of before the trip is still under way to do so
\* in its place.
OneProbe ==
    gate.state = "half_open" =>
        /\ Cardinality(Underway) <= 1
        /\ gate.probing <=> Underway # {}
=============================================================================
