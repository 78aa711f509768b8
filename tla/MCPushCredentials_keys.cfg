SPECIFICATION Spec
CONSTANTS
    Keys = {k1, k2, k3}
    Relays = {r1, r2}
    Workers = {w1, w2}
    None = None
    Dead = Dead
    MaxOrphans = 1
    LeaseMayLapse = FALSE
SYMMETRY Symmetry
INVARIANTS
    TypeOK
    OneCurrentKey
    Lineage
    RotationTruthful
    ServedWithKey
    SwitchTakesEffect
PROPERTIES
    KeepsPromise
    RetiredForGood
