SPECIFICATION Spec
CONSTANTS
    Tasks = {t1, t2}
    Users = {u1, u2}
    Titles = {k1}
    Procs = {p1, p2}
    OneProc = {q1}
    None = None
    Unreadable = Unreadable
    MaxFills = 1
    MaxWrites = 3
    MaxInstalls = 6
    MaxDeletes = 1
    MaxRequests = 4
    MaxReports = 2
    MaxShares = 2
    MaxForks = 1
    MaxUpserts = 2
    Limit = 1
    Window = 2
    MaxDelay = 2
    MaxTime = 6
SYMMETRY Symmetry
INVARIANTS
    RatingsCorrect
    InstallsCorrect
    PopularityCorrect
    UsageCorrect
    SharesCorrect
    RecognitionCorrect
    WindowsCorrect
PROPERTIES
    DeletionsEntitled
CHECK_DEADLOCK FALSE
