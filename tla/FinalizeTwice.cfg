SPECIFICATION Spec
CONSTANTS
    Sessions = {s1}
    Customers = {c1}
    Rows = {none, a}
    Clerks = {k1}
    Workers = {w1, w2}
    None = None
    NoRows = none
    RowLocks = TRUE
    Traffic = {"sections", "finalize"}
    Bases = {None}
    MaxRevision = 2
SYMMETRY Symmetry
PROPERTIES FinalizeOnlyDrafts
