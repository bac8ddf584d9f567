\* Two clients, two handlers that serve the node in turn or at once, two seconds.
CONSTANTS
    Clients = {c1, c2}
    Handlers = {h1, h2}
    Users = {u1}
    Nodes = {k1}
    MaxSessions = 2
    MaxStreams = 2
    MaxClock = 2
    None = None
SYMMETRY Symmetry
SPECIFICATION SpecServed
INVARIANTS NumberIsFree LiveStreamHasRow OpenRowHasEnder
PROPERTIES EndIsFinal
