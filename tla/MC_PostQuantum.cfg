SPECIFICATION PostQuantumSpec
CONSTANTS
    Subjects = {"tree", "storage"}
    Heights <- MCHeights
    AuxSizes <- MCAuxSizes
    HashFaults = TRUE
    Builds = {"portable", "multibuffer"}
    HashStateBytes = 64
    MaxMessageLens = {1, 5000}
    MessageLens = {1, 5000}
    ContextLens = {0, 255}
    Skews = {0, 7}
    MaxSignTurns = 2
INVARIANTS
    TypeOK
    SignatureVerifies
    AuxHoldsNodes
    StackFits
    StorageSuffices
    StorageClean
CHECK_DEADLOCK FALSE
