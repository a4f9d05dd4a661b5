----------------------------- MODULE RateLimiter -----------------------------
(***************************************************************************)
(* The daily quota of eBay searches: the counter that Wait checks and      *)
(* increments, and SyncQuota, which replaces it by what the analytics API  *)
(* reports and stores that for the next start.                             *)
(*                                                                         *)
(* Source: internal/ebay/ratelimit.go, analytics.go and browse.go,         *)
(* SyncQuota in internal/engine/engine.go, the pre-warm in buildEngine of  *)
(* cmd/server-price-tracker/cmd/serve.go.                                  *)
(*                                                                         *)
(* Callers are concurrent calls of BrowseClient.Search: ingestion cycles   *)
(* and POST /api/v1/search. eBay is external: it counts the searches of    *)
(* its own day. Times are kept as the time left until them.                *)
(***************************************************************************)
EXTENDS Integers, FiniteSets

CONSTANTS
    Callers,       \* concurrent calls of Search
    DailyLimit,    \* ebay.rate_limit.daily_limit of the configuration
    EbayLimit,     \* what the analytics API reports as limit
    Day,           \* 24 hours
    MaxSearches    \* bound: searches of one day of eBay after which none is started

ASSUME LimiterConstants ==
    /\ IsFiniteSet(Callers) /\ Callers # {}
    /\ {DailyLimit, EbayLimit, Day} \subseteq Nat \ {0}
    /\ MaxSearches \in Nat

VARIABLES
    daily,     \* RateLimiter.daily
    maxDaily,  \* RateLimiter.maxDaily
    resetIn,   \* time to RateLimiter.resetAt; 0: it has passed
    call,      \* per caller: where it is in Search
    sync,      \* where SyncQuota is
    quota,     \* the QuotaState that SyncQuota has read
    stored,    \* the row of rate_limiter_state
    booted,    \* buildEngine has returned: requests and cycles may start
    used,      \* eBay: searches of its day
    ebayIn,    \* eBay: time until its day ends
    admitted,  \* history, per caller: it passed the daily check in eBay's day
    sent,      \* history: searches sent in eBay's day by callers admitted in it
    forgot     \* history: in eBay's day the counter forgot such a search

limiter == <<daily, maxDaily, resetIn>>
ebay    == <<used, ebayIn>>
history == <<admitted, sent, forgot>>
server  == <<stored, booted>>
limiterVars == <<limiter, call, sync, quota, ebay, history, server>>

-----------------------------------------------------------------------------
(* Start: a new limiter, pre-warmed from the stored state if there is one  *)
(* and it can be read, then a first SyncQuota. The process may have run    *)
(* before and stopped or crashed at any point: eBay has counted some       *)
(* searches of this day, and the stored state is missing, of an earlier    *)
(* day, or of this day and behind by the searches since.                   *)

NoQuota == [count |-> 0, reset |-> 0]
NoRow   == [row |-> FALSE, count |-> 0, reset |-> 0]

InitLimiter ==
    /\ daily = 0 /\ maxDaily = DailyLimit /\ resetIn = Day
    /\ call = [c \in Callers |-> "idle"]
    /\ sync = "prewarm"
    /\ quota = NoQuota
    /\ booted = FALSE
    /\ used \in 0..EbayLimit /\ ebayIn \in 1..Day
    /\ \/ stored = NoRow
       \/ \E n \in 0..EbayLimit : stored = [row |-> TRUE, count |-> n, reset |-> 0]
       \/ \E n \in 0..used : stored = [row |-> TRUE, count |-> n, reset |-> ebayIn]
    /\ admitted = [c \in Callers |-> FALSE]
    /\ sent = used /\ forgot = FALSE

\* Searches of eBay's day that the counter has to know of.
Pending == sent + Cardinality({c \in Callers : admitted[c]})

\* Whether a counter of n that is reset in r misses one of them.
Forgets(n, r) == Pending > (IF r >= ebayIn THEN n ELSE 0)

\* The stored state goes through Sync.
LoadedState ==
    /\ daily' = stored.count
    /\ maxDaily' = EbayLimit
    /\ resetIn' = stored.reset

Prewarm ==
    /\ sync = "prewarm"
    /\ \/ stored.row /\ LoadedState
       \/ UNCHANGED limiter
    /\ sync' = "request"
    /\ forgot' = Forgets(daily', resetIn')
    /\ UNCHANGED <<call, quota, ebay, admitted, sent, server>>

-----------------------------------------------------------------------------
(* BrowseClient.Search: Wait in its three steps, then the request.         *)

\* A plausible fault: the counter of a window that ended is kept.
CheckWithoutReset(c) ==
    /\ booted /\ call[c] = "idle" /\ used < MaxSearches
    /\ sync # "store"
    /\ call' = [call EXCEPT ![c] = "check"]
    /\ UNCHANGED <<limiter, sync, quota, ebay, history, server>>

\* checkDailyReset holds the mutex that Sync holds.
CheckDailyReset(c) ==
    /\ booted /\ call[c] = "idle" /\ used < MaxSearches
    /\ sync # "store"
    /\ IF resetIn = 0
       THEN /\ daily' = 0 /\ resetIn' = Day
            /\ forgot' = (forgot \/ Pending > 0)
       ELSE UNCHANGED <<daily, resetIn, forgot>>
    /\ call' = [call EXCEPT ![c] = "check"]
    /\ UNCHANGED <<maxDaily, sync, quota, ebay, admitted, sent, server>>

\* A plausible fault: one call too many passes.
ReachedLate == daily > maxDaily

DailyLimitReached == daily >= maxDaily

CheckDaily(c) ==
    /\ call[c] = "check"
    /\ call' = [call EXCEPT ![c] = IF DailyLimitReached THEN "idle" ELSE "bucket"]
    /\ admitted' = [admitted EXCEPT ![c] = ~DailyLimitReached]
    /\ UNCHANGED <<limiter, sync, quota, ebay, sent, forgot, server>>

LeaveCall(c) ==
    /\ call' = [call EXCEPT ![c] = "idle"]
    /\ admitted' = [admitted EXCEPT ![c] = FALSE]

\* The token bucket lets the call through at some time, or its context ends.
WaitBucket(c) ==
    /\ call[c] = "bucket"
    /\ \/ /\ daily' = daily + 1
          /\ call' = [call EXCEPT ![c] = "send"]
          /\ UNCHANGED admitted
       \/ LeaveCall(c) /\ UNCHANGED daily
    /\ UNCHANGED <<maxDaily, resetIn, sync, quota, ebay, sent, forgot, server>>

\* The request arrives and is counted by eBay, whatever the answer is; or there
\* is no token, or the request is lost, and the counter has counted it all the
\* same.
SearchSent(c) ==
    /\ call[c] = "send"
    /\ \E arrives \in BOOLEAN :
          /\ used' = used + (IF arrives THEN 1 ELSE 0)
          /\ sent' = sent + (IF arrives /\ admitted[c] THEN 1 ELSE 0)
    /\ LeaveCall(c)
    /\ UNCHANGED <<limiter, sync, quota, ebayIn, forgot, server>>

-----------------------------------------------------------------------------
(* SyncQuota: at the start and at the end of every cycle, best effort.     *)

BeginSync ==
    /\ sync = "idle"
    /\ sync' = "request"
    /\ UNCHANGED <<limiter, call, quota, ebay, history, server>>

\* eBay computes the answer.
GetBrowseQuota ==
    /\ sync = "request"
    /\ sync' = "answer"
    /\ quota' = [count |-> used, reset |-> ebayIn]
    /\ UNCHANGED <<limiter, call, ebay, history, server>>

EndSync ==
    /\ sync' = "idle"
    /\ quota' = NoQuota
    /\ booted' = TRUE

\* No token, no answer, a status other than 200, an answer that does not parse
\* or has no rate for buy.browse.
SyncFails ==
    /\ sync \in {"request", "answer"}
    /\ EndSync
    /\ UNCHANGED <<limiter, call, ebay, history, stored>>

\* Sync, under the mutex: the limit first ...
SyncLimit ==
    /\ sync = "answer"
    /\ sync' = "store"
    /\ maxDaily' = EbayLimit
    /\ UNCHANGED <<daily, resetIn, call, quota, ebay, history, server>>

\* ... then the counter and the end of the window.
SyncCount ==
    /\ sync = "store"
    /\ sync' = "persist"
    /\ daily' = quota.count
    /\ resetIn' = quota.reset
    /\ forgot' = (forgot \/ Forgets(quota.count, quota.reset))
    /\ UNCHANGED <<maxDaily, call, quota, ebay, admitted, sent, server>>

PersistRateLimiterState ==
    /\ sync = "persist"
    /\ \/ stored' = [row |-> TRUE, count |-> quota.count, reset |-> quota.reset]
       \/ UNCHANGED stored
    /\ EndSync
    /\ UNCHANGED <<limiter, call, ebay, history>>

-----------------------------------------------------------------------------
(* Time: at the end of its day eBay starts counting again.                 *)

Down(n) == IF n > 0 THEN n - 1 ELSE 0

Tick ==
    /\ resetIn' = Down(resetIn)
    /\ quota' = [quota EXCEPT !.reset = Down(@)]
    /\ stored' = [stored EXCEPT !.reset = Down(@)]
    /\ IF ebayIn = 1
       THEN /\ ebayIn' = Day /\ used' = 0 /\ sent' = 0
            /\ admitted' = [c \in Callers |-> FALSE] /\ forgot' = FALSE
       ELSE /\ ebayIn' = ebayIn - 1 /\ UNCHANGED <<used, sent, admitted, forgot>>
    /\ UNCHANGED <<daily, maxDaily, call, sync, booted>>

-----------------------------------------------------------------------------
Wait(c) == CheckDailyReset(c) \/ CheckDaily(c) \/ WaitBucket(c)
SyncQuota == GetBrowseQuota \/ SyncFails \/ SyncLimit \/ SyncCount \/ PersistRateLimiterState

NextLimiter ==
    \/ Prewarm
    \/ \E c \in Callers : Wait(c) \/ SearchSent(c)
    \/ BeginSync \/ SyncQuota
    \/ Tick

SpecLimiter == InitLimiter /\ [][NextLimiter]_limiterVars

(* The scheduler starts cycle after cycle and every HTTP client has a      *)
(* timeout, so no call waits for ever; time passes.                        *)
LimiterFairness ==
    /\ WF_limiterVars(Tick) /\ WF_limiterVars(Prewarm) /\ WF_limiterVars(SyncQuota)
    /\ \A c \in Callers : WF_limiterVars(Wait(c)) /\ WF_limiterVars(SearchSent(c))

FairLimiter == SpecLimiter /\ LimiterFairness

-----------------------------------------------------------------------------
(* Properties.                                                             *)

Limit == IF EbayLimit > DailyLimit THEN EbayLimit ELSE DailyLimit

\* Wait checks the counter and increments it later, and a call admitted at the
\* end of a day is sent in the next. Both together overrun eBay's limit by less
\* than two searches per caller, unless the counter forgot a search of this
\* day: Sync stored a count older than it, a start did not find it in the
\* stored state, or the rolling window ended in the middle of eBay's day.
QuotaKept == ~forgot => used < Limit + 2 * Cardinality(Callers)

\* An exhausted counter is never the end: the window passes, and neither a
\* stale Sync nor a stored state with an old window can block searches for good.
QuotaComesBack == []<>(daily < maxDaily)
=============================================================================
