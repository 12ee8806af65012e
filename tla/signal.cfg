SPECIFICATION Spec
CONSTANTS
    N1 = 2
    N2 = 4
    Need = 2
    Prices <- TwoPrices
INVARIANT TypeOK
INVARIANT FreshOnBoth
INVARIANT Lockstep
INVARIANT FiresAtBarEnd
INVARIANT InProgressIsAggregate
