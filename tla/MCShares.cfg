SPECIFICATION Spec
CONSTANTS
    Tasks = {t1, t2}
    Titles = {k1}
    Uids = {u1, u2}
    Procs = {q1}
    None = None
    MaxFills = 1
    MaxShares = 2
    MaxForks = 1
SYMMETRY Symmetry
PROPERTIES
    OnlyOwnersDelete
CHECK_DEADLOCK FALSE
