\* Three peers, two SOCKS clients.
CONSTANTS
    Peers = {p1, p2, p3}
    Clients = {c1, c2}
    Asked <- MCAsked
    Wake = Wake
SPECIFICATION FairServerSpec
INVARIANTS MutexOutlivesThreads OneLateClient CleanEnd
PROPERTIES WokenRunEnds
