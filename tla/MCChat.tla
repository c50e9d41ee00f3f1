------------------------------- MODULE MCChat -------------------------------
(* Streamed requests, what is remembered of their conversation, its travel    *)
(* plan and the trace of a request have no state in common here: a run checks *)
(* one of the four in each of its behaviours.                                 *)
EXTENDS ChatStream, ChatMemory, TravelSlots, RequestTrace, TLC

CONSTANTS r1, r2, p1, m1, m2, t1, f1, f2, a, b, c, Part

VARIABLE part

Q(cv, ask, w, n) == [civil |-> cv, ask |-> ask, ways |-> w, models |-> n]
All == {"simple", "recommend", "react"}
Silent == [r \in Requests |-> Q(FALSE, "none", {}, 1)]

\* One request of any kind, or two that ask the same in a fast path.
QuestionsMC ==
    {Silent}
    \cup {[Silent EXCEPT ![r] = Q(cv, ask, All, 2)] : r \in Requests, cv \in BOOLEAN, ask \in {"plain", "file", "later"}}
    \cup {[r \in Requests |-> Q(FALSE, "plain", {"simple"}, 1)]}

S(t, l, m, d, f) == [turns |-> t, lists |-> l, months |-> m, deletes |-> d, faults |-> f]
NoScene == S({}, FALSE, FALSE, FALSE, 0)

\* Two turns and their list; the archive of two turns; one turn with the user's deletion,
\* and another conversation.
ScenesMC == {NoScene, S({1, 2}, TRUE, FALSE, FALSE, 0), S({1, 2}, FALSE, TRUE, FALSE, 2),
             S({1, 4}, TRUE, TRUE, TRUE, 1)}

Sa(k, t, f, p) == [kind |-> k, to |-> t, from |-> f, place |-> p]
SayingsMC ==
    {Sa("recommend", t, f, Nowhere) : t \in {a, c, Nowhere}, f \in {b, Nowhere}}
    \cup {Sa(k, Nowhere, Nowhere, Nowhere) : k \in {"chat", "other", "cancel"}}
    \cup {Sa("place", Nowhere, Nowhere, p) : p \in {b, c}}

\* Sound for safety: no definition distinguishes the two requests.
Symmetric == Permutations({r1, r2})

ChatInit ==
    /\ part \in Part
    /\ Init /\ MemoryInit /\ TravelInit /\ TraceInit
    /\ (part = "chat") # (\A r \in Requests : st[r].ask = "none")
    /\ (part = "memory") # (scene = NoScene)

ChatNext ==
    /\ UNCHANGED part
    /\ \/ part = "chat" /\ Next /\ UNCHANGED <<memoryVars, travelVars, traceVars>>
       \/ part = "memory" /\ MemoryNext /\ UNCHANGED <<vars, travelVars, traceVars>>
       \/ part = "travel" /\ TravelNext /\ UNCHANGED <<vars, memoryVars, traceVars>>
       \/ part = "trace" /\ TraceNext /\ UNCHANGED <<vars, memoryVars, travelVars>>

ChatSpec == ChatInit /\ [][ChatNext]_<<part, vars, memoryVars, travelVars, traceVars>>
=============================================================================
