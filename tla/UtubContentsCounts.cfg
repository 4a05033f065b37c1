SPECIFICATION SerialSpec
CONSTANTS
    Urls = {x}
    Names = {p}
    UrlRows = {r1}
    TagRows = {t1}
    Copies = {c1}
    Workers = {w1}
    MAX_URL_TAGS = 2
    Null = Null
SYMMETRY Symmetry
PROPERTIES DropReportsCounts
CHECK_DEADLOCK FALSE
