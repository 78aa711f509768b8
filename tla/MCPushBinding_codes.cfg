SPECIFICATION Spec
CONSTANTS
    Namespaces = {n1}
    Owners = {o1}
    NativeInst = {i1}
    WebInst = {x1}
    Tokens = {t1}
    Endpoints = {e1}
    Codes = {c1, c2}
    Workers = {w1, w2}
    None = None
    Dead = Dead
    MaxDevices = 2
    MaxSaves = 2
    MaxOrphans = 2
    LeaseMayLapse = FALSE
SYMMETRY Symmetry
INVARIANTS
    TypeOK
    OneBindingPerCode
    RevokedCodesNeverBind
    LogoutWindowQuiet
    IndexedCodesRevoked
PROPERTIES
    DisabledNamespaceNeverBinds
