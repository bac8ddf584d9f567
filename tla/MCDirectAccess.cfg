\* Two nodes that take names and keys from each other, or one, for four seconds;
\* a name that cannot be written into a token; a request for more life than there
\* is; a user who may expire.
CONSTANTS
    Nodes = {k1, k2}
    Users = {u1}
    Nets = {n1}
    Names = {a, b}
    BadNames = {b}
    Keys = {x1, x2}
    Addrs = {a1}
    Asked <- MCAsked
    Expiries <- MCExpiries
    MaxTtl = 3
    LoginTtl = 2
    MaxTokens = 1
    MaxClock = 4
    None = None
SYMMETRY Symmetry
VIEW View
CONSTRAINT Bounded
SPECIFICATION Spec
INVARIANTS TokenForNode RevocationBound LoginBound
