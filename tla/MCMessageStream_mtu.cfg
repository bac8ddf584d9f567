SPECIFICATION Spec
CONSTANTS
    HeaderParts = 2
    BodyParts = 2
    Window = 3
    MaxOffers = 1
    None = None
    Mtus <- WideMtu
INVARIANTS
    ConfiguredMtuFits
CHECK_DEADLOCK FALSE
