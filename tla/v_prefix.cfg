SPECIFICATION Spec
CONSTANTS
    PairSeq <- OnePair
    PsarPairs <- EurUsd
    Faults <- NoFaults
    MaxBars = 1
    MaxTries = 1
    ReVerify = 3
    MaxBad = 0
    MaxLost = 0
    MaxTrades = 1
    MaxCrashes = 0
INVARIANT BothAccountsRecorded
