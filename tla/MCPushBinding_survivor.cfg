SPECIFICATION Spec
CONSTANTS
    Namespaces = {n1}
    Owners = {o1}
    NativeInst = {i1}
    WebInst = {x1}
    Tokens = {t1}
    Endpoints = {e1}
    Codes = {c1}
    Workers = {w1, w2}
    None = None
    Dead = Dead
    MaxDevices = 1
    MaxSaves = 2
    MaxOrphans = 1
    LeaseMayLapse = FALSE
SYMMETRY Symmetry
INVARIANTS
    LogoutRevokesCodes
