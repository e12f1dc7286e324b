SPECIFICATION ClientSpec
CONSTANTS
    MaxReseedInterval = 2
    DfBlocks = 2
    BufLens <- MCBufLens
    SupplierLens <- MCSupplierLens
    ReqStrengths <- MCReqStrengths
    BitCounts <- MCBitCounts
    Inputs <- MCInputs
    HashFaults = TRUE
    MaxDraws = 3
    MaxOutputs = 3
INVARIANTS
    LiveIsSeeded
    ConstantMatchesValue
    NoRepeatedOutput
PROPERTIES
    ImplementsSeededGenerator
