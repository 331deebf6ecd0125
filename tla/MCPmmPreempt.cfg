SPECIFICATION Spec
CONSTANTS
    Callers = {c1, c2}
    Memmaps <- SmallMemmaps
    PAGE_SIZE = 1
    MaxCount = 2
    Preemption = TRUE
INVARIANT DoubleFreeWarningIsTrue
