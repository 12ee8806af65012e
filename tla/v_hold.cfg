SPECIFICATION Spec
CONSTANTS
    PairSeq <- OnePair
    PsarPairs <- NoPairs
    Faults <- NoFaults
    Account = "acct010"
    MaxBars = 1
    MaxTries = 3
    ReVerify = 3
    MaxBad = 0
    MaxLost = 1
    MaxTrades = 3
    MaxCrashes = 0
INVARIANT HoldTimeReal
