\* Fair threads, one client, two sessions of the node.
CONSTANTS
    Clients = {c1}
    Nodes = {n1, n2}
    MaxStreams = 1
    MaxPerNode = 1
    None = None
SPECIFICATION FairSpec
PROPERTIES RemovedStreamEnds FinBounded
