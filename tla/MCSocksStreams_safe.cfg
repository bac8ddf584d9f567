\* Two clients, two sessions of the node, after each other or at once.
CONSTANTS
    Clients = {c1, c2}
    Nodes = {n1, n2}
    MaxStreams = 2
    MaxPerNode = 1
    None = None
SYMMETRY Symmetry
SPECIFICATION Spec
INVARIANTS RowEndedOnce NoStrandedStream NodeIsTold
