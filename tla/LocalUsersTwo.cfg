SPECIFICATION PlainSpec
CONSTANTS
    Users = {root, u1, u2}
    Root = root
    RootPrefixed = {root, u2}
    Keys = {k1, k2}
    PubKeys = {k1}
    Hashes = {h1}
    Blobs = {b1}
    LongFiles = {l1}
    FirstWords <- MCFirstWords
    Edits <- UserEdits
    NONE = NONE
    NULL = NULL
    Locked = Locked
    Empty = Empty
    Torn = Torn
    NoDir = NoDir
    MaxTxns = 1
    MaxFaults = 1
INVARIANTS CommittedAccountsApplied CommittedKeysApplied
PROPERTIES UnmentionedKeysKept EventAnswered
CHECK_DEADLOCK FALSE
