SPECIFICATION PostQuantumSpec
CONSTANTS
    Subjects = {"tree"}
    Heights <- MCHeights
    AuxSizes <- MCAuxSizes
    HashFaults = FALSE
    Builds = {"portable", "multibuffer"}
    HashStateBytes = 64
    MaxMessageLens = {1, 5000}
    MessageLens = {1, 5000}
    ContextLens = {0, 255}
    Skews = {0, 7}
    MaxSignTurns = 2
INVARIANT
    SignSucceeds
CHECK_DEADLOCK FALSE
