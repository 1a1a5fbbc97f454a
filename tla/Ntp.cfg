SPECIFICATION BoundedSpec
CONSTANTS
    main = main  augeas = augeas  n1 = n1  n2 = n2
    x = x  y = y  p1 = p1
    Procs = {main, augeas}
    Names = {n1, n2}
    Addrs = {x, y}
    Ports = {p1}
    Edits <- AllEdits
    InitConfs <- Confs
    NONE = NONE
    NULL = NULL
    MaxTxns = 2
    MaxFaults = 1
CHECK_DEADLOCK FALSE
INVARIANTS TypeOK ListFreed ServersKept ServiceConsistent
PROPERTIES EventAnswered
