SPECIFICATION Spec
CONSTANTS
    Sessions = {s1, s2}
    Customers = {c1}
    Rows = {none, a, b}
    Clerks = {k1}
    Workers = {w1, w2}
    None = None
    NoRows = none
    RowLocks = FALSE
    Traffic = {"sections", "finalize", "edit", "delete"}
    Bases = {None}
    MaxRevision = 2
SYMMETRY Symmetry
INVARIANTS BooksAgree
PROPERTIES LedgerSpec EditsIssueNothing
