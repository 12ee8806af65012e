SPECIFICATION Spec
CONSTANTS
    BS = 2
    Rev = 1
    NMin = 2
    TrailD = 1
    X7K = 2
    HistDepth = 2
    PriceBasedRev = FALSE
    LowEdges <- LowTwo
    Prices <- FourPrices
    Faults <- AllFaults
    MaxTries = 2
    MaxFailed = 1
    MaxTrades = 2
    MaxCrashes = 1
INVARIANT TypeOK
INVARIANT DeskTracks
INVARIANT RowsTruthful
INVARIANT OrphansAccounted
INVARIANT LossesAccounted
INVARIANT PendingFollowsChart
PROPERTY TrailRatchets
PROPERTY ImplementsBook
