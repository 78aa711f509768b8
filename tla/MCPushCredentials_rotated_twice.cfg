SPECIFICATION Spec
CONSTANTS
    Keys = {k1, k2, k3}
    Relays = {r1}
    Workers = {w1, w2}
    None = None
    Dead = Dead
    MaxOrphans = 0
    LeaseMayLapse = TRUE
SYMMETRY Symmetry
PROPERTIES
    OldKeyRotatesOnce
