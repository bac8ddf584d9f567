\* A cache of two, three nonces, two seconds of skew.
CONSTANTS
    Size = 2
    Skew = 1
    Nonces = {a, b, c}
    MaxTime = 3
    MaxRequests = 5
    None = None
SYMMETRY Symmetry
SPECIFICATION Spec
INVARIANTS ExecutedOnce ReplayIsRepeated
