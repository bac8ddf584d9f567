\* Two connections, two networks with room for one rate window, two seconds
\* with late handlers, and a group address of the L2 control range.
CONSTANTS
    Fds = {f1, f2}
    Networks = {n1, n2}
    Macs = {a}
    Groups = {g}
    L2Control = {g}
    None = none
    Configs <- PolicyConfigs
    MaxSessions = 2
    MaxMacEntries = 1
    MaxRateEntries = 1
    MoveWindow = 0
    FreezeThreshold = 2
    FreezeSec = 1
    MaxTime = 2
    MaxLag = 1
SYMMETRY Symmetry
SPECIFICATION HistorySpec
INVARIANTS MacOwnerLive NetworkFloodBudget
PROPERTIES DeliveryPolicy SwitchSpec
CHECK_DEADLOCK FALSE
