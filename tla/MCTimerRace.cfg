SPECIFICATION Spec
CONSTANTS
    c1 = c1
    c2 = c2
    Callers = {c1, c2}
    Creators = {c1, c2}
    MaxTimers = 2
    MaxTasks = 0
    MaxRuns = 0
CHECK_DEADLOCK FALSE
INVARIANT TimerHasThread
