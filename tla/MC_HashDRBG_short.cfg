SPECIFICATION Spec
CONSTANTS
    MaxReseedInterval = 2
    DfBlocks = 2
    BufLens <- MCShortBufLens
    SupplierLens <- MCSupplierLens
    ReqStrengths <- MCReqStrengths
    BitCounts <- MCBitCounts
    Inputs = {}
    HashFaults = FALSE
    MaxDraws = 2
    MaxOutputs = 3
INVARIANT
    SeedSupportsStrength
