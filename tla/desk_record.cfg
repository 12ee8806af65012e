SPECIFICATION Spec
CONSTANTS
    PairSeq <- TwoPairs
    PsarPairs <- EurUsd
    Faults <- NoFaults
    Account = "acct010"
    MaxBars = 2
    MaxTries = 3
    ReVerify = 3
    MaxBad = 0
    MaxLost = 0
    MaxTrades = 3
    MaxCrashes = 0
INVARIANT NothingUnrecorded
