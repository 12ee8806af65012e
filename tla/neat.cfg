SPECIFICATION Spec
CONSTANTS
    Pairs = {"A"}
    Modes = {"asi"}
    Faults <- AllFaults
    Hwm = 1
    OtherIds = {1}
    Locked = TRUE
    MaxFailed = 1
    MaxTrades = 2
    MaxRestarts = 1
INVARIANT TypeOK
INVARIANT DeskTracks
INVARIANT RecordsTruthful
INVARIANT OrphansAccounted
INVARIANT NothingUnrecorded
PROPERTY ImplementsBook
