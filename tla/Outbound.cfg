CONSTANTS
    Senders = {s1, s2}
    Chunks = 2
    Capacity = 1
    Window = 2
    Max429Attempts = 2
    MaxOthers = 1
    MaxFaults = 1
    Records = {r1, r2, r3}
    NoRecord = none
    BufferSize = 2
    MaxRetries = 1
SPECIFICATION MCSpec
INVARIANTS PacedAfterFirstAnswer FlushComplete
PROPERTIES BatchReturns ImplementsPosting ImplementsLog TakenIsSettled
