CONSTANTS
    w1 = w1  w2 = w2  p1 = p1  p2 = p2
    Workers = {w1, w2}
    Pods = {p1, p2}
    PodOf <- MCPodOf
    Listings = {l1, l2}
    Ingesters = {i1}
    None = None
    MaxJobs = 2
    MaxTitle = 1
    MaxFaults = 1
SPECIFICATION FairSpec
CHECK_DEADLOCK FALSE
PROPERTY InterruptedJobsRecovered
