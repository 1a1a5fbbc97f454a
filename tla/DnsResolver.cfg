SPECIFICATION BoundedSpec
CONSTANTS
    d1 = d1  d2 = d2  a1 = a1  a2 = a2  b1 = b1
    n1 = n1  n2 = n2  eth = eth  wlan = wlan
    Domains = {d1, d2}
    V4 = {a1, a2}
    V6 = {b1}
    FirstBytes <- MCFirstBytes
    Names = {n1, n2}
    Links = {eth, wlan}
    Link = eth
    NONE = NONE
    MaxTxns = 2
    MaxFaults = 1
CHECK_DEADLOCK FALSE
INVARIANTS TypeOK ListsFreed AcceptedApplied
PROPERTIES UnmentionedKept StoredServersLoadable EventAnswered
