SPECIFICATION Spec
CONSTANTS
    Threads = {t1}
    Merged = TRUE
    OneCpuCode = 1
    Cpus <- MCCpus
    Requests <- MCPartialRequests
INVARIANTS
    CombinationCompleted
