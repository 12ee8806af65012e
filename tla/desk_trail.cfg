SPECIFICATION SharedSpec
CONSTANTS
    PairSeq <- OnePair
    PsarPairs <- EurUsd
    Faults <- AllFaults
    Account = "acct010"
    OtherRows <- FadeRows
    MaxBars = 2
    MaxTries = 1
    ReVerify = 1
    MaxBad = 0
    MaxLost = 1
    MaxTrades = 2
    MaxCrashes = 1
INVARIANT Tracking
INVARIANT RowsTruthful
INVARIANT NoPhantomRows
PROPERTY ImplementsBook
PROPERTY AloneInTable
