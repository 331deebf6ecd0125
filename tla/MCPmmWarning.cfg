SPECIFICATION Spec
CONSTANTS
    Callers = {c1}
    Memmaps <- SmallMemmaps
    PAGE_SIZE = 1
    MaxCount = 3
    Preemption = FALSE
INVARIANT AllocationFailedIsTrue
