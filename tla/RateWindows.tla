----------------------------- MODULE RateWindows -----------------------------
(***************************************************************************)
(* The windows that bound how often something is done: the two counters of *)
(* the requests per second (middleware/rate_limit), the fixed window of    *)
(* the web search (agents/web_search), and the bucket and the log of the   *)
(* reusable parts.  Each script runs in Redis as one step.                 *)
(*                                                                         *)
(* A second is cut into ticks; of a key it matters how many of them it has *)
(* left, so that time has no bound.                                        *)
(***************************************************************************)
EXTENDS Naturals, Functions

CONSTANTS
    Ticks,     \* ticks of a second
    Limit,     \* what a window admits
    Capacity,  \* of the bucket
    Rate,      \* tokens of a second
    Asks       \* bound: requests in a tick

ASSUME WindowAssumption == Ticks \in Nat \ {0, 1} /\ {Limit, Capacity, Rate} \subseteq Nat \ {0}

VARIABLES
    window,    \* which of the windows it is
    phase,   \* ticks since the second began
    keys,    \* counters of this second, of the one before, of the fixed window
    log,     \* requests of the last ticks, the latest first: the sorted set
    bucket,  \* tokens (times Ticks), ticks since they were counted, ticks the key has left
    asked,   \* requests of this tick
    recent,  \* history: how many were admitted in the last ticks, the latest first
    meter    \* history: admissions of the bucket less what has leaked at its rate

windowVars == <<window, phase, keys, log, bucket, asked, recent, meter>>

NoKey == [count |-> 0, left |-> 0]
Quiet == [i \in 1..Ticks |-> 0]

WindowInit ==
    /\ window \in {"qps", "search", "log", "bucket"}
    /\ phase = 0 /\ keys = [k \in {"this", "last", "search"} |-> NoKey]
    /\ log = Quiet /\ recent = Quiet /\ asked = 0 /\ meter = 0
    /\ bucket = [tokens |-> 0, since |-> 0, left |-> 0]

InWindow(s) == SumFunctionOnSet(s, 1..Ticks)
Later(s) == [i \in 1..Ticks |-> IF i = 1 THEN 0 ELSE s[i - 1]]

Answer(admits) ==
    /\ asked < Asks /\ asked' = asked + 1
    /\ recent' = [recent EXCEPT ![1] = @ + IF admits THEN 1 ELSE 0]
    /\ meter' = IF admits /\ window = "bucket" THEN meter + Ticks ELSE meter

Incremented(key, life) ==
    [count |-> key.count + 1, left |-> IF key.count = 0 THEN life ELSE key.left]

\* Fault: a counter lives for its own second.
CountBriefly ==
    /\ window = "qps"
    /\ LET admits == keys["last"].count * (Ticks - phase) + keys["this"].count * Ticks < Limit * Ticks IN
       /\ Answer(admits)
       /\ keys' = IF admits THEN [keys EXCEPT !["this"] = Incremented(@, Ticks)] ELSE keys
    /\ UNCHANGED <<window, phase, log, bucket>>

\* _QPS_COUNTER_LUA: the last second counts for what of it is still in the window, and who
\* is refused is not counted. The first request of a second lets its counter live for two.
CheckQps ==
    /\ window = "qps"
    /\ LET admits == keys["last"].count * (Ticks - phase) + keys["this"].count * Ticks < Limit * Ticks IN
       /\ Answer(admits)
       /\ keys' = IF admits THEN [keys EXCEPT !["this"] = Incremented(@, 2 * Ticks)] ELSE keys
    /\ UNCHANGED <<window, phase, log, bucket>>

\* _SEARCH_RATE_LUA: the window begins with its first request, who is refused is counted
\* (by how much the limit is exceeded does not matter).
CheckSearch ==
    /\ window = "search"
    /\ Answer(keys["search"].count < Limit)
    /\ keys' = [keys EXCEPT !["search"] = IF @.count > Limit THEN @ ELSE Incremented(@, Ticks)]
    /\ UNCHANGED <<window, phase, log, bucket>>

\* sliding_window_limit: the request is in the log before it is counted.
CheckLog ==
    /\ window = "log"
    /\ log' = [log EXCEPT ![1] = @ + 1]
    /\ Answer(InWindow(log') <= Limit)
    /\ UNCHANGED <<window, phase, keys, bucket>>

\* TOKEN_BUCKET_LUA: a bucket that is not there is full; its key outlives the filling.
TakeToken ==
    /\ window = "bucket"
    /\ LET full == Capacity * Ticks
           filled == bucket.tokens + bucket.since * Rate
           tokens == IF bucket.left = 0 \/ filled > full THEN full ELSE filled
           life == (Capacity + Rate - 1) \div Rate + 1
       IN /\ Answer(tokens >= Ticks)
          /\ bucket' = [tokens |-> IF tokens >= Ticks THEN tokens - Ticks ELSE tokens,
                        since |-> 0, left |-> life * Ticks]
    /\ UNCHANGED <<window, phase, keys, log>>

\* The clock of Redis; what has no time left is gone.
NextTick ==
    LET aged(k) == IF k.left <= 1 THEN NoKey ELSE [k EXCEPT !.left = @ - 1]
        turn == phase + 1 = Ticks
    IN /\ phase' = IF turn \/ window # "qps" THEN 0 ELSE phase + 1
       /\ keys' = [keys EXCEPT !["search"] = aged(@),
                               !["last"] = aged(IF turn THEN keys["this"] ELSE @),
                               !["this"] = IF turn THEN NoKey ELSE aged(@)]
       /\ log' = Later(log)
       /\ recent' = Later(recent)
       /\ bucket' = IF bucket.left <= 1 THEN [tokens |-> 0, since |-> 0, left |-> 0]
                    ELSE [bucket EXCEPT !.since = @ + 1, !.left = @ - 1]
       /\ meter' = IF meter > Rate THEN meter - Rate ELSE 0
       /\ asked' = 0
       /\ UNCHANGED window

WindowNext == CheckQps \/ CheckSearch \/ CheckLog \/ TakeToken \/ NextTick

WindowSpec == WindowInit /\ [][WindowNext]_windowVars

-----------------------------------------------------------------------------
(* Property. *)

\* Wherever a second begins, what is admitted in it has a bound: the log keeps to its
\* limit, two counters exceed it by no more than the part of the last second they
\* no longer count, rounded up, a fixed window stays below twice the limit; and the bucket
\* never admits more than its capacity and what flowed in meanwhile, whenever its key expires.
AdmittedIsBounded ==
    /\ window = "qps" => Ticks * InWindow(recent) < (2 * Ticks - 2) * Limit + Ticks
    /\ window = "search" => InWindow(recent) < 2 * Limit
    /\ window = "log" => InWindow(recent) <= Limit
    /\ window = "bucket" => meter <= Capacity * Ticks

\* web_search.py: at most ten searches of a user in ten seconds.
SearchesAreTen == window = "search" => InWindow(recent) <= Limit
=============================================================================
