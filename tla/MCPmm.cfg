SPECIFICATION Spec
CONSTANTS
    Callers = {c1, c2}
    Memmaps <- MCMemmaps
    PAGE_SIZE = 1
    MaxCount = 3
    Preemption = FALSE
SYMMETRY Symmetry
INVARIANTS TypeOK PagePartition Accounting ScanExact
