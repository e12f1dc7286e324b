SPECIFICATION StreamsSpec
CONSTANTS
    Subjects = {"ccm"}
    BlockSize = 3
    PieceLens = {0, 1, 2, 3, 4, 5, 6}
    CtrPos = 2
    CounterMod = 4
    StartLens <- MCStartLens
    MaxIv = 4
    MaxAad = 4
    MaxMessages = 2
    AesNiBuilds = {TRUE}
    Nonces <- MCNonces
    CounterWord = 4
    MessageLens = {4}
    TagLens = {2}
    AdLens = {0, 2, 6}
    LongAd = 3
    ShortHeader = 1
    LongHeader = 2
    InitialTagLen = 3
    MaxText = 7
    MaxCCMMessages = 2
    MaxCMACText = 9
    MaxCMACMessages = 2
    Slots = {1, 2}
    LenBytes = 1
    LenWord = 6
    DigestLen = 2
    ShakeLens = {1, 4}
    HashPieces = {0, 1, 5}
    SqueezeLens = {1, 4}
    MaxMsg = 6
    MaxDrawn = 5
    MaxEvents = 3
    KeyLens = {2, 4}
    TagSizes <- MCTagSizes
    MaxHMACMsg = 6
    MaxHMACEvents = 2
PROPERTIES LengthEnforced
CHECK_DEADLOCK FALSE
