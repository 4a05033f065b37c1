SPECIFICATION SerialSpec
CONSTANTS
    Urls = {x, y}
    Names = {p, q, s}
    UrlRows = {r1, r2}
    TagRows = {t1, t2, t3, t4}
    Copies = {c1, c2}
    Workers = {w1}
    MAX_URL_TAGS = 2
    Null = Null
SYMMETRY Symmetry
INVARIANTS WithinTagLimit
PROPERTIES KeepsPromise
CHECK_DEADLOCK FALSE
