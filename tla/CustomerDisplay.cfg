SPECIFICATION FairSpec
CONSTANTS
    None = None
    Failed = Failed
    MaxEdits = 1
    MaxWire = 1
    MaxFaults = 1
INVARIANTS TypeOK ShowsItsRevision NoSaveMissed PreviewsInOrder
PROPERTIES CatchesUp GoesOffline
