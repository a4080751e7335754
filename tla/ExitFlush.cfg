SPECIFICATION FairSpec
CONSTANTS
    a = a
    Sheets = {a}
    Docs = {"afg"}
    DocOf <- OneDocument
    Ways = {"close", "logout", "update"}
    Slots = {1, 2}
    None = None
    Habits <- TypesOn
    MaxEdits = 2
    MaxFaults = 1
INVARIANTS TypeOK EditsGuarded NothingForgotten ExitLosesNothing ExitsShareFlush
PROPERTIES ExitsResolve
\* The program ends when an exit succeeds.
CHECK_DEADLOCK FALSE
