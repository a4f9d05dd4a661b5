CONSTANTS
    Watches = {w1}
    Listings = {l1, l2}
    Processors = {p1}
    Evaluators = {e1}
    None = None
    Modes = {TRUE, FALSE}
    BatchThreshold = 2
    ChunkSize = 1
    MaxAlerts = 3
    MaxFaults = 0
    MaxSendFails = 1
    MaxRetries = 0
    MaxDismissals = 2
    MaxDeletes = 1
SPECIFICATION FairSpec
CHECK_DEADLOCK FALSE
INVARIANT CooldownBounded
PROPERTY PendingEventuallyNotified
