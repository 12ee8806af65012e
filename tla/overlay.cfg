SPECIFICATION FairSpec
CONSTANTS
    Accounts = {1, 2}
    Readers = {1}
    Pairs <- TwoPairs
    Traded <- Desks
    Starts <- OneLong
    Navs = {16, 17}
    Notional = 1
    Hours = 2
    Stalls = FALSE
    MaxPositions = 2
    MaxConcentration = 1
    CurrencyCap <- Caps
    DDLimit = 3
    MaxChanges = 2
    MaxFailed = 1
    MaxRestarts = 1
INVARIANT TypeOK
INVARIANT MarkIsTodays
PROPERTY HoldingsBlock
PROPERTY ExposureContained
PROPERTY ThrottleReleases
PROPERTY CapEnforced
