\* A finding: a charge started by a task the drain waits for is not waited for.
CONSTANTS
    SideTasks = {t1, t2}
SPECIFICATION LifeSpec
CHECK_DEADLOCK FALSE
INVARIANTS ChargesAreDrained
