SPECIFICATION FairSpec
CONSTANTS
    Sessions = {a}
    NoSession = NoSession
    NoPayload = NoPayload
    Partial <- PartialCustomer
    Habits <- NoHabits
    MaxEdits = 2
    MaxFaults = 1
    MaxWrites = 0
INVARIANTS SavedMeansSaved RevisionKnown
PROPERTIES NothingDropped FinalizedAsShown EditsSettle
\* The operator may stop typing, and a closed form takes no more edits.
CHECK_DEADLOCK FALSE
