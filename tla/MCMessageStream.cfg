\* Every kind of network; three frames or replies after the handshake.
CONSTANTS
    HeaderParts = 2
    BodyParts = 3
    Window = 3
    MaxOffers = 3
    None = None
    Mtus <- SomeMtus
SPECIFICATION FairSpec
INVARIANTS HandshakeFirst
PROPERTIES FramedChannel Delivered WriterNotHeld
CHECK_DEADLOCK FALSE
