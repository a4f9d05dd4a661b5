CONSTANTS
    Callers = {c1, c2}
    DailyLimit = 1
    EbayLimit = 1
    Day = 2
    MaxSearches = 4
    Users = {u1, u2}
    NoUser = nobody
    Life = 5
    RefreshBuffer = 2
SPECIFICATION MCSpec
INVARIANTS QuotaKept TokenLive
PROPERTIES QuotaComesBack
