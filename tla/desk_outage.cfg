SPECIFICATION FairSpec
CONSTANTS
    PairSeq <- TwoPairs
    PsarPairs <- NoPairs
    Faults <- OutageFaults
    Account = "acct010"
    MaxBars = 1
    MaxTries = 2
    ReVerify = 3
    MaxBad = 2
    MaxLost = 0
    MaxTrades = 2
    MaxCrashes = 1
INVARIANT TypeOK
INVARIANT SinglePosition
PROPERTY NoFalseClose
PROPERTY Released
