SPECIFICATION Spec
CONSTANTS
    Procs = {p1, p2}
    Tasks = {t1}
    Callbacks = {c1, c2}
    Polls = {q1, q2}
    Rows = {d1, d2}
    None = None
    RawSources <- SomeSources
    RawIds <- SomeIds
    RawOld <- SomeOldIds
    Texts <- SomeTexts
    Stripped <- WithoutSpace
    Folded <- Casefolded
    Trimmed <- WithoutBlanks
    Lowered <- LowerCased
    Extensions <- Identifiers
    Unfit <- UnfitSources
    Numbers <- Digits12
    MaxFills = 1
    MaxEdits = 1
    MaxOutages = 1
    MaxFaults = 3
    MaxRuns = 3
    Second = 2
    Lifetime = 5
    MaxTime = 8
INVARIANTS
    InvalidationCorrect
    MigrationCorrect
    CleanupCorrect
    LoginCorrect
    IdentitiesCorrect
PROPERTIES
    EditsReachProcs
    EveryoneServes
    RightfulSteps
CHECK_DEADLOCK FALSE
