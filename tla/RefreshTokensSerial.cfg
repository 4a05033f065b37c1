SPECIFICATION SerialSpec
CONSTANTS
    Tokens = {t1, t2, t3, t4}
    Users = {u1, u2}
    Workers = {w1, w2}
    Null = Null
SYMMETRY Symmetry
INVARIANTS OneLiveTokenPerFamily SuspendedHasNoLiveToken
PROPERTY KeepsPromise
CHECK_DEADLOCK FALSE
