SPECIFICATION Spec
CONSTANTS
    Utubs = {a}
    Users = {1, 2, 3}
    Workers = {w1, w2}
    Null = Null
SYMMETRY Symmetry
INVARIANTS NoStrayMembership
PROPERTIES RoleFollowsColumn
CHECK_DEADLOCK FALSE
