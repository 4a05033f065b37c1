SPECIFICATION Spec
CONSTANTS
    Urls = {x, y}
    Names = {p, q}
    UrlRows = {r1, r2}
    TagRows = {t1, t2}
    Copies = {c1, c2}
    Workers = {w1, w2}
    MAX_URL_TAGS = 2
    Null = Null
SYMMETRY Symmetry
INVARIANTS RowsFit
PROPERTIES BatchIsAtomic
CHECK_DEADLOCK FALSE
