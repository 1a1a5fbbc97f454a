SPECIFICATION Spec
CONSTANTS
    main = main  augeas = augeas  n1 = n1  n2 = n2
    x = x  y = y  p1 = p1
    Procs = {main}
    Names = {n1, n2}
    Addrs = {x, y}
    Ports = {p1}
    Edits <- PlainEdits
    InitConfs <- Confs
    NONE = NONE
    NULL = NULL
    MaxTxns = 1
    MaxFaults = 0
CHECK_DEADLOCK FALSE
INVARIANTS ChangeAccepted
