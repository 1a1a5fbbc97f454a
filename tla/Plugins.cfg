SPECIFICATION SmallSpec
CONSTANTS
    h1 = h1  none = none  z1 = z1  z2 = z2  z3 = z3  s1 = s1
    Hosts = {h1, none}
    NoHost = none
    Zones = {z1, z2, z3, NoName}
    Installed = {z1, z3, NoName}
    NoName = NoName
    NoFile = NoFile
    Foreign = Foreign
    Addrs = {s1}
    Confs <- MCConfs
    Edits <- MCEdits
    Startups <- MCStartups
    NONE = NONE
    MaxTxns = 2
    MaxStarts = 1
    MaxFaults = 1
CHECK_DEADLOCK FALSE
INVARIANTS TypeOK HostnameFollows TimezoneFollows
PROPERTIES MainNeverRefused Progress
