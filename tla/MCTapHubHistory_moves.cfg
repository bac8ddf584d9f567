\* Three connections, two of them in sessions at a time, claim one address for
\* six seconds.
CONSTANTS
    Fds = {f1, f2, f3}
    Networks = {n1}
    Macs = {a}
    Groups = {}
    L2Control = {}
    None = none
    Configs <- MoveConfigs
    MaxSessions = 2
    MaxMacEntries = 1
    MaxRateEntries = 1
    MoveWindow = 1
    FreezeThreshold = 2
    FreezeSec = 2
    MaxTime = 6
    MaxLag = 1
SYMMETRY FdSymmetry
SPECIFICATION HistorySpec
INVARIANTS MoveDamping
PROPERTIES FreezeEndures
CHECK_DEADLOCK FALSE
