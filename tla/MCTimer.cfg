\* One thread creates and destroys timers, two start and stop tasks.
SPECIFICATION FairSpec
CONSTANTS
    c1 = c1
    c2 = c2
    Callers = {c1, c2}
    Creators = {c1}
    MaxTimers = 3
    MaxTasks = 2
    MaxRuns = 1
CHECK_DEADLOCK FALSE
INVARIANTS  ContextLife OwnerIsQueued
PROPERTIES Served 
