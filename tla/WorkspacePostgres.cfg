SPECIFICATION FairSpec
CONSTANTS
    Sessions = {s1, s2}
    Customers = {c1}
    Rows = {none, a}
    Clerks = {k1}
    Workers = {w1, w2}
    None = None
    NoRows = none
    RowLocks = TRUE
    Traffic = {"line", "cancel", "finalize", "edit", "delete"}
    Bases = {None}
    MaxRevision = 2
INVARIANTS TypeOK CancelledIsVoid
PROPERTIES DeletionsAreFinal CancelOnlyDrafts RequestsEnd
