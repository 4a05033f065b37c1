SPECIFICATION Spec
CONSTANTS
    Tokens = {t1, t2, t3}
    Users = {u1, u2}
    Workers = {w1, w2}
    Null = Null
SYMMETRY Symmetry
INVARIANTS TypeOK FamilySound
PROPERTIES ClosedFamilyStaysClosed 
CHECK_DEADLOCK FALSE
