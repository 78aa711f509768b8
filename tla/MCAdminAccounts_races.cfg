CONSTANTS
    Users = {u1, u2}
    Passwords = {p1, p2}
    Workers = {w1, w2}
    None = None
    MaxEdits = 3
    MaxLogins = 3
SPECIFICATION EitherSpec
SYMMETRY Symmetry
CHECK_DEADLOCK FALSE
INVARIANTS
    TypeOK
    LastSuperKept
    SessionsFresh
PROPERTIES
    ActorsEntitled
    PasswordsProven
    OneFounder
