SPECIFICATION SerialSpec
CONSTANTS
    Utubs = {a, b}
    Users = {1, 2, 3}
    Workers = {w1, w2}
    Null = Null
SYMMETRY Symmetry
INVARIANTS CreatorIsMember
PROPERTIES KeepsPromise
CHECK_DEADLOCK FALSE
