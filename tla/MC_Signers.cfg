SPECIFICATION SignersSpec
CONSTANTS
    Leaves = 2
    MaxKeys = 1
    MaxDigests = 3
    XHeight = 2
    MaxXKeys = 2
    MaxXDigests = 2
    HashedBytes = {0, 16, 255}
INVARIANTS
    TypeOK
    OneDigestPerIndex
    StoreAhead
    XMSSOneDigestPerIndex
    XMSSVerifiesWhatWasSigned
    XMSSRevealsNoOther
PROPERTIES
    NeverRewound
    ImplementsOneTimeKeys
