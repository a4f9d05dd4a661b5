CONSTANTS
    Hosts = {h1, h2}
    Ticks = {t1, t2}
    None = None
    TTL = 1
    StaleAfter = 2
    MaxFaults = 2
SPECIFICATION FairSpec
INVARIANTS MutexWithinTTL RecoveryOnlyHitsTheDead
PROPERTIES JobNeverBlocked
