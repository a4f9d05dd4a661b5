CONSTANTS
    Runs = {r1, r2}
    Budget = 1
    MaxCost = 1
    BatchSize = 2
    MaxAlerts = 3
    MaxFaults = 1
SPECIFICATION FairSpec
INVARIANTS OvershootBounded BillBounded
PROPERTIES NeverRejudged EveryAlertJudged
