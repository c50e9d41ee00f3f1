------------------------------ MODULE Lifespan ------------------------------
(***************************************************************************)
(* The life of a server process (app/main, lifespan): what it opens, the   *)
(* loops it starts, and how it stops: the loops first, then the tasks that *)
(* requests left behind (core/concurrency), at last the pools these need.  *)
(***************************************************************************)
EXTENDS Naturals

CONSTANT SideTasks   \* spawned: charges, audit, answers for the cache, running agent tasks

VARIABLES
    appEnv,    \* APP_ENV
    stage,     \* of lifespan
    pools,     \* of connections to PostgreSQL and to Redis
    loop,      \* of each background loop
    side,      \* of each spawned task
    awaited,   \* the tasks that the drain waits for
    overdue    \* those of them it has cancelled

lifeVars == <<appEnv, stage, pools, loop, side, awaited, overdue>>

\* In the order in which they are stopped.
Loops == {"slowq", "payment", "maintenance", "cdc"}
AfterLoop == [slowq |-> "payment", payment |-> "maintenance", maintenance |-> "cdc", cdc |-> "drain"]

LifeInit ==
    /\ appEnv \in {"production", "test"}
    /\ stage = "pool"
    /\ pools = [pg |-> "none", redis |-> "none"]
    /\ loop = [l \in Loops |-> "off"]
    /\ side = [t \in SideTasks |-> "none"]
    /\ awaited = {} /\ overdue = {}

Running == {t \in SideTasks : side[t] = "running"}

-----------------------------------------------------------------------------
(* Starting.                                                               *)

\* _required_startup_failure: only a test goes on without.
Startup(at, next, opened) ==
    /\ stage = at
    /\ \/ pools' = opened /\ stage' = next
       \/ pools' = pools /\ stage' = IF appEnv = "test" THEN next ELSE "refused"
    /\ UNCHANGED <<appEnv, loop, side, awaited, overdue>>

InitPool == Startup("pool", "tables", [pools EXCEPT !.pg = "open"])

\* init_db looks for its tables.
InitDb == Startup("tables", "redis", pools)

InitRedis == Startup("redis", "loops", [pools EXCEPT !.redis = "open"])

\* _start_background_tasks: a loop that cannot be started is counted and left out.
StartLoops ==
    /\ stage = "loops"
    /\ loop' \in [Loops -> {"off", "running"}]
    /\ stage' = "serving"
    /\ UNCHANGED <<appEnv, pools, side, awaited, overdue>>

-----------------------------------------------------------------------------
(* Serving.                                                                *)

\* spawn, by a request, or by a spawned task whenever it runs.
Spawn(t) ==
    /\ side[t] = "none" /\ (stage = "serving" \/ Running # {})
    /\ side' = [side EXCEPT ![t] = "running"]
    /\ UNCHANGED <<appEnv, stage, pools, loop, awaited, overdue>>

\* What it leaves behind is a row: once the pool has gone there is none. get_redis opens
\* its own pool again.
EndSide(t) ==
    /\ side[t] = "running"
    /\ side' = [side EXCEPT ![t] = IF pools.pg = "open" THEN "written" ELSE "lost"]
    /\ pools' \in {pools, [pools EXCEPT !.redis = "open"]}
    /\ UNCHANGED <<appEnv, stage, loop, awaited, overdue>>

\* The loops catch what their rounds raise; closing the journal is outside of that.
CdcDies ==
    /\ loop["cdc"] = "running"
    /\ loop' = [loop EXCEPT !["cdc"] = "dead"]
    /\ UNCHANGED <<appEnv, stage, pools, side, awaited, overdue>>

\* SIGTERM or SIGINT. _register_signal_handlers of the worker has replaced the handlers of
\* the server: while they are there, the worker ends and nothing else does.
Signal ==
    /\ stage = "serving"
    /\ \/ loop["cdc"] = "off" /\ stage' = "slowq" /\ loop' = loop
       \/ loop["cdc"] = "running" /\ loop' = [loop EXCEPT !["cdc"] = "ended"] /\ stage' = stage
    /\ UNCHANGED <<appEnv, pools, side, awaited, overdue>>

\* The server stops for another reason, or on a platform without such handlers.
Stop ==
    /\ stage = "serving" /\ stage' = "slowq"
    /\ UNCHANGED <<appEnv, pools, loop, side, awaited, overdue>>

-----------------------------------------------------------------------------
(* Stopping.                                                               *)

\* _stop_background_tasks: cancelled and waited for. A loop that has died raises its error
\* here and the shutdown goes no further.
StopLoop(l) ==
    /\ stage = l /\ loop[l] # "deaf"
    /\ stage' = IF loop[l] = "dead" THEN "cut" ELSE AfterLoop[l]
    /\ loop' = [loop EXCEPT ![l] = IF @ = "running" THEN "ended" ELSE @]
    /\ UNCHANGED <<appEnv, pools, side, awaited, overdue>>

\* The cancelled round gives its lock back; when that fails, its error takes the place of
\* the cancellation and maintenance_loop sleeps until its next round.
MissCancel ==
    /\ stage = "maintenance" /\ loop["maintenance"] = "running"
    /\ loop' = [loop EXCEPT !["maintenance"] = "deaf"]
    /\ UNCHANGED <<appEnv, stage, pools, side, awaited, overdue>>

\* drain_background_tasks looks once at what is running.
BeginDrain ==
    /\ stage = "drain" /\ stage' = "draining"
    /\ awaited' = Running
    /\ UNCHANGED <<appEnv, pools, loop, side, overdue>>

\* After 10 s the rest is cancelled; it has 2 s to end.
CancelRest ==
    /\ stage = "draining" /\ overdue = {} /\ awaited \cap Running # {}
    /\ overdue' = awaited \cap Running
    /\ UNCHANGED <<appEnv, stage, pools, loop, side, awaited>>

\* Fault: nothing is waited for.
EndDrainAtOnce ==
    /\ stage = "draining" /\ stage' = "closing"
    /\ UNCHANGED <<appEnv, pools, loop, side, awaited, overdue>>

EndDrain ==
    /\ stage = "draining" /\ awaited \cap Running \subseteq overdue
    /\ stage' = "closing"
    /\ UNCHANGED <<appEnv, pools, loop, side, awaited, overdue>>

\* A pool that cannot be closed is logged.
CloseRedis ==
    /\ stage = "closing" /\ stage' = "last"
    /\ pools' \in {pools, [pools EXCEPT !.redis = IF @ = "open" THEN "closed" ELSE @]}
    /\ UNCHANGED <<appEnv, loop, side, awaited, overdue>>

ClosePool ==
    /\ stage = "last" /\ stage' = "over"
    /\ pools' = [pools EXCEPT !.pg = IF @ = "open" THEN "closed" ELSE @]
    /\ UNCHANGED <<appEnv, loop, side, awaited, overdue>>

LifeNext ==
    \/ InitPool \/ InitDb \/ InitRedis \/ StartLoops
    \/ \E t \in SideTasks : Spawn(t) \/ EndSide(t)
    \/ CdcDies \/ Signal \/ Stop
    \/ \E l \in Loops : StopLoop(l)
    \/ MissCancel \/ BeginDrain \/ CancelRest \/ EndDrain \/ CloseRedis \/ ClosePool

LifeSpec == LifeInit /\ [][LifeNext]_lifeVars

-----------------------------------------------------------------------------
(* Properties. *)

\* The pools outlive what needs them. In production they are open from the first request
\* on until the loops have ended and whatever was running when the drain began has ended
\* too or had its time, so that no row of those is lost; see ChargesAreDrained for the others.
PoolsGoLast ==
    /\ appEnv = "production" /\ stage \in Loops \cup {"serving", "drain", "draining"} =>
         pools.pg = "open" /\ pools.redis = "open"
    /\ stage \in {"draining", "closing", "last", "over"} => \A l \in Loops : loop[l] \in {"off", "ended"}
    /\ appEnv = "production" /\ stage \in {"closing", "last", "over"} =>
         \A t \in awaited \ overdue : side[t] = "written"

\* core/concurrency.py: the drain waits for every spawned task, so that closing the pools
\* loses no charge.
ChargesAreDrained == appEnv = "production" => \A t \in SideTasks : side[t] = "lost" => t \in overdue
=============================================================================
