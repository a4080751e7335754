SPECIFICATION Spec
CONSTANTS
    Sessions = {a, b}
    NoSession = NoSession
    NoPayload = NoPayload
    Partial <- PartialCustomer
    Habits <- AllHabits
    MaxEdits = 1
    MaxFaults = 0
    MaxWrites = 1
INVARIANTS TypeOK SavesTakeTurns
PROPERTIES KeystrokesSurvive RevisionsGrow
\* The operator may stop typing, and a closed form takes no more edits.
CHECK_DEADLOCK FALSE
