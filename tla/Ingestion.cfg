CONSTANTS
    w1 = w1  w2 = w2  w3 = w3
    Cycles = {c1, c2}
    WatchOrder <- ThreeWatches
    Finds <- SharedFinds
    PageSize = 1
    MaxPages = 2
    MaxCallsPerCycle = 2
    MaxFaults = 1
    MaxListings = 3
SPECIFICATION FairSpec
INVARIANTS NoGap CallsBounded
PROPERTIES EveryListingIngested
