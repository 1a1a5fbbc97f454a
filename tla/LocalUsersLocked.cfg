SPECIFICATION LiveSpec
CONSTANTS
    Users = {root, u1}
    Root = root
    RootPrefixed = {root}
    Keys = {k1}
    PubKeys = {k1}
    Hashes = {h1, h2}
    Blobs = {b1, b2}
    LongFiles = {}
    FirstWords <- MCFirstWords
    Edits <- RootEdits
    NONE = NONE
    NULL = NULL
    Locked = Locked
    Empty = Empty
    Torn = Torn
    NoDir = NoDir
    MaxTxns = 1
    MaxFaults = 0
SYMMETRY HashesAndBlobs
PROPERTIES PasswordStoredOnlyIfChanged
CHECK_DEADLOCK FALSE
