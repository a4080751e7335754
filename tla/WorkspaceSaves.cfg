SPECIFICATION Spec
CONSTANTS
    Sessions = {s1}
    Customers = {c1}
    Rows = {none, a}
    Clerks = {k1}
    Workers = {w1, w2}
    None = None
    NoRows = none
    RowLocks = FALSE
    Traffic = {"customer", "draft_customer", "select", "detach", "sections", "office", "import"}
    Bases = {None, 1, 2}
    MaxRevision = 3
SYMMETRY Symmetry
PROPERTIES SavesAreSerial StaleSavesRefused
