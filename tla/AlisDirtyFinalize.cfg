SPECIFICATION Spec
CONSTANTS
    Sessions = {a}
    NoSession = NoSession
    NoPayload = NoPayload
    Partial <- PartialCustomer
    Habits <- KeyHabit
    MaxEdits = 1
    MaxFaults = 0
    MaxWrites = 0
PROPERTIES DirtyBlocksFinalize
\* The operator may stop typing, and a closed form takes no more edits.
CHECK_DEADLOCK FALSE
