\* A finding: a cached answer of a cancelled task goes into the memory.
CONSTANTS
    r1 = r1  r2 = r2  NoRequest = NoRequest
    Requests <- OneRequest
    SlotLimit <- OneSlot
    MaxUses = 2
    MaxFaults = 0
SPECIFICATION TaskSpec
CHECK_DEADLOCK FALSE
INVARIANTS MemoryOfCompleted
