SPECIFICATION Spec
CONSTANTS
    Threads = {t1, t2}
    Merged = FALSE
    OneCpuCode = 1
    Cpus <- MCCpus
    Requests <- MCNone
INVARIANTS
    ContextConsistent
