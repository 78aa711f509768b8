SPECIFICATION Spec
CONSTANTS
    Namespaces = {n1}
    Owners = {o1, o2}
    NativeInst = {i1, i2}
    WebInst = {}
    Tokens = {t1, t2}
    Endpoints = {}
    Codes = {}
    Workers = {w1, w2}
    None = None
    Dead = Dead
    MaxDevices = 1
    MaxSaves = 4
    MaxOrphans = 0
    LeaseMayLapse = FALSE
SYMMETRY Symmetry
INVARIANTS
    QuotaHeld
    UniqueBindings
PROPERTIES
    DevicesLeaveFor
