\* Two handlers, one node that has two names in turn, one TAP user.
CONSTANTS
    Conns = {c1, c2}
    MaxNets = 1
    Nodes = {k1}
    Names = {a, b}
    Users = {u}
    MaxAccepts = 2
    None = None
SPECIFICATION FairSpec
INVARIANTS OnlineIsConnected ConnectedIsOnline OpenRowHasHandler
PROPERTIES OfflineInTheEnd
