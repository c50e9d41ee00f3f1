--------------------------- MODULE CircuitBreaker ---------------------------
(***************************************************************************)
(* SimpleBreaker of app/middleware/circuit_breaker.py, which guards each   *)
(* model endpoint. The methods hold an asyncio.Lock over code that does    *)
(* not await, so each is one action; between the start and the end of a    *)
(* guarded call anything may happen to the others.                         *)
(***************************************************************************)
EXTENDS Naturals, FiniteSets

CONSTANTS
    Calls,          \* calls that may be in flight at the same time
    FailThreshold,  \* fail_threshold
    Nobody

ASSUME BreakerAssumption ==
    /\ FailThreshold \in Nat \ {0}   \* __init__ refuses anything else
    /\ Nobody \notin Calls

VARIABLES
    state,       \* CLOSED, OPEN or HALF_OPEN
    failCount,   \* fail_count
    cool,        \* recover_timeout has passed since last_fail_time
    probing,     \* _probing
    token,       \* the call _probe_token was made for, kept when that call ends
    call,        \* what each call is: idle, normal (token None) or the probe
    streak       \* history: failures in a row recorded since the breaker last closed

vars == <<state, failCount, cool, probing, token, call, streak>>

States == {"CLOSED", "OPEN", "HALF_OPEN"}

Init ==
    /\ state = "CLOSED" /\ failCount = 0 /\ cool = FALSE
    /\ probing = FALSE /\ token = Nobody
    /\ call = [c \in Calls |-> "idle"]
    /\ streak = 0

HoldsProbe(c) == call[c] = "probe" /\ token = c
Ends(c) == call' = [call EXCEPT ![c] = "idle"]

\* Fault: HALF_OPEN is entered without marking the probe.
BecomeProbeUnmarked(c) ==
    /\ call[c] = "idle" /\ state = "OPEN" /\ cool
    /\ state' = "HALF_OPEN" /\ token' = c
    /\ call' = [call EXCEPT ![c] = "probe"]
    /\ UNCHANGED <<failCount, cool, probing, streak>>

\* _before after the recovery time: the caller becomes the only probe.
BecomeProbe(c) ==
    /\ call[c] = "idle" /\ state = "OPEN" /\ cool
    /\ state' = "HALF_OPEN" /\ probing' = TRUE /\ token' = c
    /\ call' = [call EXCEPT ![c] = "probe"]
    /\ UNCHANGED <<failCount, cool, streak>>

\* _before otherwise: refused while open or while a probe is out.
Pass(c) ==
    /\ call[c] = "idle"
    /\ state # "OPEN" /\ ~(state = "HALF_OPEN" /\ probing)
    /\ call' = [call EXCEPT ![c] = "normal"]
    /\ UNCHANGED <<state, failCount, cool, probing, token, streak>>

\* CircuitOpenError: nothing happens.
Refuse(c) ==
    /\ call[c] = "idle"
    /\ \/ state = "OPEN" /\ ~cool
       \/ state = "HALF_OPEN" /\ probing
    /\ UNCHANGED vars

\* Fault: any success closes a half-open breaker.
AnySuccessCloses(c) ==
    /\ call[c] # "idle"
    /\ Ends(c)
    /\ state' = IF state = "HALF_OPEN" THEN "CLOSED" ELSE state
    /\ failCount' = 0 /\ probing' = FALSE /\ streak' = 0
    /\ UNCHANGED <<cool, token>>

\* Fault: the probe closes the breaker without clearing what late failures
\* counted while it was open.
CloseKeepsCount(c) ==
    /\ call[c] # "idle"
    /\ Ends(c)
    /\ state' = IF HoldsProbe(c) THEN "CLOSED" ELSE state
    /\ failCount' = IF state = "CLOSED" THEN 0 ELSE failCount
    /\ probing' = (probing /\ ~HoldsProbe(c))
    /\ streak' = 0
    /\ UNCHANGED <<cool, token>>

\* _record_success: the probe closes; a bystander of a probe changes nothing.
RecordSuccess(c) ==
    /\ call[c] # "idle"
    /\ Ends(c)
    /\ IF state = "HALF_OPEN" /\ ~HoldsProbe(c)
       THEN UNCHANGED <<state, failCount, probing, streak>>
       ELSE /\ state' = IF state = "HALF_OPEN" THEN "CLOSED" ELSE state
            /\ failCount' = 0 /\ probing' = FALSE /\ streak' = 0
    /\ UNCHANGED <<cool, token>>

\* _record_failure while a probe is out: only the probe's own failure counts.
ProbeFails(c) ==
    /\ call[c] # "idle" /\ state = "HALF_OPEN"
    /\ Ends(c)
    /\ IF HoldsProbe(c)
       THEN state' = "OPEN" /\ failCount' = 0 /\ cool' = FALSE /\ probing' = FALSE
       ELSE UNCHANGED <<state, failCount, cool, probing>>
    /\ UNCHANGED <<token, streak>>

\* Fault: the threshold is reached one failure late.
CountOneMore(c) ==
    /\ call[c] # "idle" /\ state # "HALF_OPEN"
    /\ Ends(c)
    /\ cool' = FALSE
    /\ IF failCount + 1 > FailThreshold
       THEN state' = "OPEN" /\ failCount' = 0
       ELSE failCount' = failCount + 1 /\ UNCHANGED state
    /\ streak' = IF state = "CLOSED" /\ state' = "CLOSED" THEN streak + 1 ELSE 0
    /\ UNCHANGED <<probing, token>>

\* _record_failure otherwise, also for calls that outlived the opening: they
\* count on and put off the recovery.
RecordFailure(c) ==
    /\ call[c] # "idle" /\ state # "HALF_OPEN"
    /\ Ends(c)
    /\ cool' = FALSE
    /\ IF failCount + 1 >= FailThreshold
       THEN state' = "OPEN" /\ failCount' = 0
       ELSE failCount' = failCount + 1 /\ UNCHANGED state
    /\ streak' = IF state = "CLOSED" /\ state' = "CLOSED" THEN streak + 1 ELSE 0
    /\ UNCHANGED <<probing, token>>

\* Fault: an abandoned stream gives nothing back.
AbandonProbe(c) ==
    /\ call[c] # "idle"
    /\ Ends(c)
    /\ UNCHANGED <<state, failCount, cool, probing, token, streak>>

\* _cancel_probe and _release_probe: CancelledError, or a stream its consumer
\* drops. A cancelled probe says nothing about the endpoint.
Cancel(c) ==
    /\ call[c] # "idle"
    /\ Ends(c)
    /\ IF state = "HALF_OPEN" /\ HoldsProbe(c)
       THEN state' = "OPEN" /\ cool' = FALSE /\ probing' = FALSE
       ELSE UNCHANGED <<state, cool, probing>>
    /\ UNCHANGED <<failCount, token, streak>>

\* recover_timeout passes.
CoolDown ==
    /\ ~cool
    /\ cool' = TRUE
    /\ UNCHANGED <<state, failCount, probing, token, call, streak>>

Begin(c) == BecomeProbe(c) \/ Pass(c) \/ Refuse(c)
Finish(c) == RecordSuccess(c) \/ ProbeFails(c) \/ RecordFailure(c) \/ Cancel(c)

Next == CoolDown \/ \E c \in Calls : Begin(c) \/ Finish(c)

Spec == Init /\ [][Next]_vars

\* Calls end, for they have a timeout (call_timeout, or that of the HTTP client);
\* time passes, requests keep coming, and the endpoint is well again: a probe is
\* not always cancelled or failed.
Recovery ==
    /\ \A c \in Calls : WF_vars(Finish(c))
    /\ WF_vars(CoolDown)
    /\ SF_vars(\E c \in Calls : BecomeProbe(c))
    /\ SF_vars(\E c \in Calls : HoldsProbe(c) /\ RecordSuccess(c))

RecoveringSpec == Spec /\ Recovery

-----------------------------------------------------------------------------
(* Properties. *)

TypeOK ==
    /\ state \in States
    /\ failCount \in 0..(FailThreshold - 1)
    /\ cool \in BOOLEAN /\ probing \in BOOLEAN
    /\ token \in Calls \cup {Nobody}
    /\ call \in [Calls -> {"idle", "normal", "probe"}]
    /\ streak \in Nat

\* A breaker is half open exactly while one probe is in flight, which alone holds
\* the token: it can neither get stuck half open nor send two probes.
HalfOpenHasProbe ==
    /\ (state = "HALF_OPEN") <=> probing
    /\ state = "HALF_OPEN" => \E c \in Calls : HoldsProbe(c)
    /\ \A c \in Calls : call[c] = "probe" => state = "HALF_OPEN" /\ token = c

\* What a closed breaker has counted are the failures since it last closed or
\* succeeded: neither an earlier outage nor late failures of it count.
CountIsStreak == state = "CLOSED" => failCount = streak

\* One probe at most, never stuck without it, and a count of this period's failures.
BreakerIsSound == TypeOK /\ HalfOpenHasProbe /\ CountIsStreak

\* While the breaker is not closed, the endpoint gets no new call but a probe, and
\* none while another probe is out.
QuietWhileOpen ==
    [][\A c \in Calls :
          state # "CLOSED" /\ call[c] = "idle" /\ call'[c] # "idle" =>
              /\ call'[c] = "probe"
              /\ \A d \in Calls : call[d] # "probe"]_vars

\* Late answers of calls from before the opening do not close the breaker.
ClosesByProbe ==
    [][state # "CLOSED" /\ state' = "CLOSED" =>
          \E c \in Calls : call[c] = "probe" /\ call'[c] = "idle"]_vars

\* Until it closes again, only probes go out, and only a probe closes it.
ProbesDecide == QuietWhileOpen /\ ClosesByProbe

\* If the endpoint is well again and requests come, the breaker closes, although
\* late failures of old calls put it off.
Recovers == []<>(state = "CLOSED")
=============================================================================
