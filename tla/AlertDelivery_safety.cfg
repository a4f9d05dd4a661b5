CONSTANTS
    Watches = {w1}
    Listings = {l1, l2}
    Processors = {p1, p2}
    Evaluators = {e1}
    None = None
    Modes = {TRUE, FALSE}
    BatchThreshold = 2
    ChunkSize = 1
    MaxAlerts = 2
    MaxFaults = 1
    MaxSendFails = 1
    MaxRetries = 1
    MaxDismissals = 0
    MaxDeletes = 1
SPECIFICATION Spec
CHECK_DEADLOCK FALSE
SYMMETRY Symmetry
INVARIANTS NotifiedOnlyIfReached
PROPERTIES NotResent ImplementsOutbox
