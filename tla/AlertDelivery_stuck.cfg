CONSTANTS
    Watches = {w1}
    Listings = {l1}
    Processors = {p1}
    Evaluators = {e1}
    None = None
    Modes = {FALSE}
    BatchThreshold = 2
    ChunkSize = 1
    MaxAlerts = 1
    MaxFaults = 1
    MaxSendFails = 0
    MaxRetries = 0
    MaxDismissals = 0
    MaxDeletes = 0
SPECIFICATION FairSpec
CHECK_DEADLOCK FALSE
PROPERTY DeliveredEventuallyNotified
