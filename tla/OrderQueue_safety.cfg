CONSTANTS
    o1 = o1
    o2 = o2
    p1 = p1
    Orders <- MCTwo
    Products <- MCProducts
    ProductOf <- MCProductOf
    MaxParallelism = 1
    MaxStale = 1
    MaxFaults = 1
    MaxHandovers = 1
    MaxCrashes = 1
SPECIFICATION FairSpec
CHECK_DEADLOCK FALSE
INVARIANT TypeOK
INVARIANT UnackedIsInHand
INVARIANT CountedExactlyOnce
PROPERTY AtLeastOnce
PROPERTY DrainsWhileItRuns
