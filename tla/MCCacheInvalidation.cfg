SPECIFICATION Spec
CONSTANTS
    Procs = {p1, p2}
    Tasks = {t1, t2}
    None = None
    MaxFills = 0
    MaxEdits = 2
    MaxOutages = 1
INVARIANTS
    AnnouncementKept
