SPECIFICATION ZoneSpec
CONSTANTS
    root = root  u1 = u1  root2 = root2  k1 = k1  k2 = k2
    h1 = h1  b1 = b1  b2 = b2  l2 = l2  d1 = d1  d2 = d2  x4 = x4  y4 = y4  x6 = x6
    n1 = n1  eth = eth  wlan = wlan  z1 = z1  z2 = z2
    Users = {root, u1, root2}
    Root = root
    RootPrefixed = {root, root2}
    Keys = {k1, k2}
    PubKeys = {k1}
    Hashes = {h1}
    Blobs = {b1, b2}
    LongFiles = {l2}
    FirstWords <- MCFirstWords
    NONE = NONE
    NULL = NULL
    Locked = Locked
    Empty = Empty
    Torn = Torn
    NoDir = NoDir
    Domains = {d1, d2}
    V4 = {x4, y4}
    V6 = {x6}
    FirstBytes <- MCFirstBytes
    Links = {eth, wlan}
    Link = eth
    Zones = {z1, z2, NoName}
    Installed = {z1, NoName}
    NoName = NoName
    NoFile = NoFile
    Foreign = Foreign
    ServerNames = {x4, y4, n1}
    Startups <- MCStartups
    MaxStarts = 2
    MaxFaults = 1
CHECK_DEADLOCK FALSE
INVARIANTS TimezoneApplied
