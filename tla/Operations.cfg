SPECIFICATION Spec
CONSTANTS
    Runs = {r1, r2, r3}
    KEEP = 2
    MaxDay = 2
    NoRun = NoRun
    Pollers = {p1, p2}
    FLAG_TTL = 2
    LOCK_TTL = 3
    Crons = {c1, c2}
    Webs = {w1}
    Users = {a1, a2, u1}
    Admins = {a1, a2}
    Browsers = {b1, b2}
    NoUser = NoUser
    MaxTime = 3
SYMMETRY Symmetry
INVARIANTS
    TypeOK BackupsRemain RequestsAreServed
    AlertsAreTrue RecoveredIsTrue OnRecord AnAdminRemains
PROPERTIES RevivedOnlyIfUnchecked
CHECK_DEADLOCK FALSE
