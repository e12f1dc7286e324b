SPECIFICATION Spec
CONSTANTS
    Threads = {t1, t2}
    Merged = TRUE
    OneCpuCode = 1
    Cpus <- MCCpus
    Requests <- MCRequests
INVARIANTS
    TypeOK
    CodeRuns
    SelectionInForce
    MethodComplete
    ContextConsistent
PROPERTIES
    EveryCallReturns
