------------------------------ MODULE Ingestion ------------------------------
(***************************************************************************)
(* One ingestion cycle: RunIngestion goes through the enabled watches,     *)
(* paginates eBay for each one until it meets a listing that is already in *)
(* the database, and upserts what it found.                                *)
(*                                                                         *)
(* Source: internal/engine/engine.go (RunIngestion, processWatch,          *)
(* processListing), internal/ebay/paginator.go, browse.go (Search).        *)
(*                                                                         *)
(* Cycles overlap: cron ticks, POST /api/v1/ingest, other replicas. eBay   *)
(* is external: `market` is what its search returns, in its order. What    *)
(* happens to an upserted listing is the subject of ExtractionQueue.       *)
(***************************************************************************)
EXTENDS Naturals, Sequences, FiniteSets, SequencesExt

CONSTANTS
    Cycles,            \* concurrent calls of RunIngestion
    WatchOrder,        \* the enabled watches, ORDER BY created_at DESC
    Finds,             \* per watch: the listings its search query finds
    PageSize,          \* defaultPageSize, 200 in the code
    MaxPages,          \* defaultMaxPages, 10 in the code
    MaxCallsPerCycle,  \* max_calls_per_cycle, 50 by default
    MaxFaults,         \* bound: failed calls, crashes and listings that end
    MaxListings        \* bound: listings, numbered in the order they come up

Listings == 1..MaxListings

Watches == {WatchOrder[i] : i \in DOMAIN WatchOrder}

ASSUME IngestionConstants ==
    /\ WatchOrder \in Seq(Watches)
    /\ Finds \in [Watches -> SUBSET Listings]
    /\ {PageSize, MaxPages, MaxCallsPerCycle} \subseteq Nat \ {0}
    /\ {MaxFaults, MaxListings} \subseteq Nat

VARIABLES
    market,  \* listings on eBay, in the order of its search results
    seen,    \* history: listings that were ever on eBay
    known,   \* ebay_item_ids in table listings
    pc,      \* per cycle: where it is in RunIngestion
    todo,    \* per cycle: watches not yet processed; the head is the current one
    page,    \* per cycle: pages of the current watch fetched (PagesUsed)
    items,   \* per cycle: the page in hand
    more,    \* per cycle: HasMore of that page
    fresh,   \* per cycle: NewListings
    total,   \* per cycle: totalPages
    calls,   \* history, per cycle: searches sent to eBay
    failed,  \* history, per cycle: watches whose pagination failed
    lossy,   \* history: something happened that pagination cannot make up for
    newestFirst, \* history: every new listing came up before the older ones
    crossed, \* history: watches one of whose listings another watch brought in
    budget   \* what is left of MaxFaults

marketVars == <<market, seen>>
cycleVars  == <<pc, todo, page, items, more, fresh, total, calls, failed>>
orderVars  == <<newestFirst, crossed>>
vars == <<marketVars, known, cycleVars, lossy, orderVars, budget>>

Init ==
    /\ market = <<>>
    /\ seen = {}
    /\ known = {}
    /\ pc = [c \in Cycles |-> "idle"]
    /\ todo = [c \in Cycles |-> <<>>]
    /\ page = [c \in Cycles |-> 0]
    /\ items = [c \in Cycles |-> <<>>]
    /\ more = [c \in Cycles |-> FALSE]
    /\ fresh = [c \in Cycles |-> <<>>]
    /\ total = [c \in Cycles |-> 0]
    /\ calls = [c \in Cycles |-> 0]
    /\ failed = [c \in Cycles |-> 0]
    /\ lossy = FALSE
    /\ newestFirst = TRUE
    /\ crossed = {}
    /\ budget = MaxFaults

-----------------------------------------------------------------------------
Glitch == budget > 0 /\ budget' = budget - 1

Goto(c, stage) == pc' = [pc EXCEPT ![c] = stage]

\* What the query of w finds, in the order of the market.
Results(w) ==
    LET hits    == {i \in DOMAIN market : market[i] \in Finds[w]}
        upTo(i) == Cardinality({k \in hits : k <= i})
    IN  [n \in 1..Cardinality(hits) |-> market[CHOOSE i \in hits : upTo(i) = n]]

\* offset = page * pageSize
PageOf(w, n) ==
    LET all  == Results(w)
        last == (n + 1) * PageSize
    IN  SubSeq(all, n * PageSize + 1, IF last < Len(all) THEN last ELSE Len(all))

HasMore(w, n) == Len(Results(w)) > (n + 1) * PageSize

-----------------------------------------------------------------------------
(* RunIngestion *)

\* ListWatches(enabled only)
Begin(c) ==
    /\ pc[c] = "idle"
    /\ todo' = [todo EXCEPT ![c] = WatchOrder]
    /\ Goto(c, "watch")
    /\ UNCHANGED <<marketVars, known, page, items, more, fresh, total, calls, failed,
                   lossy, orderVars, budget>>

\* The loop ends, and with it the locals of the cycle. ProcessAlerts, SyncQuota
\* and SyncStateMetrics, which follow, are the subject of other modules.
Leave(c) ==
    /\ Goto(c, "idle")
    /\ todo' = [todo EXCEPT ![c] = <<>>]
    /\ page' = [page EXCEPT ![c] = 0]
    /\ items' = [items EXCEPT ![c] = <<>>]
    /\ more' = [more EXCEPT ![c] = FALSE]
    /\ fresh' = [fresh EXCEPT ![c] = <<>>]
    /\ total' = [total EXCEPT ![c] = 0]
    /\ calls' = [calls EXCEPT ![c] = 0]
    /\ failed' = [failed EXCEPT ![c] = 0]

\* mutant: the budget must hold all pages of the watch
MayPollWhole(c) == todo[c] # <<>> /\ total[c] + MaxPages <= MaxCallsPerCycle

\* A watch is left and totalPages < maxCallsPerCycle
MayPoll(c) == todo[c] # <<>> /\ total[c] < MaxCallsPerCycle

NextWatch(c) ==
    /\ pc[c] = "watch"
    /\ IF MayPoll(c)
       THEN /\ page' = [page EXCEPT ![c] = 0]
            /\ fresh' = [fresh EXCEPT ![c] = <<>>]
            /\ Goto(c, "search")
            /\ UNCHANGED <<todo, items, more, total, calls, failed>>
       ELSE Leave(c)
    /\ UNCHANGED <<marketVars, known, lossy, orderVars, budget>>

Current(c) == Head(todo[c])

\* mutant: an error keeps the pages that had been read
KeepPages(c) == fresh[c]

\* An error of Paginate drops what earlier pages had found.
AfterError(c) == <<>>

\* Search of the next page. An error, sent or not, ends this watch with its
\* pages uncounted (processWatch returns 0); ErrDailyLimitReached, found before
\* anything is sent, ends the loop.
Search(c) ==
    /\ pc[c] = "search"
    /\ \/ /\ items' = [items EXCEPT ![c] = PageOf(Current(c), page[c])]
          /\ more' = [more EXCEPT ![c] = HasMore(Current(c), page[c])]
          /\ page' = [page EXCEPT ![c] = @ + 1]
          /\ calls' = [calls EXCEPT ![c] = @ + 1]
          /\ Goto(c, "check")
          /\ UNCHANGED <<todo, fresh, total, failed, budget>>
       \/ /\ Glitch
          /\ \E n \in {0, 1} : calls' = [calls EXCEPT ![c] = @ + n]
          /\ failed' = [failed EXCEPT ![c] = @ + 1]
          /\ fresh' = [fresh EXCEPT ![c] = AfterError(c)]
          /\ page' = [page EXCEPT ![c] = 0]
          /\ Goto(c, "upsert")
          /\ UNCHANGED <<todo, items, more, total>>
       \/ Glitch /\ Leave(c)
    /\ UNCHANGED <<marketVars, known, lossy, orderVars>>

\* The loop over the page ends at the first listing that GetListing finds, which
\* are those of K.
NewOnPage(c, K) ==
    LET hits == {i \in DOMAIN items[c] : items[c][i] \in K}
    IN  IF hits = {} THEN items[c]
        ELSE SubSeq(items[c], 1, (CHOOSE i \in hits : \A k \in hits : i <= k) - 1)

FoundKnown(c, K) == \E i \in DOMAIN items[c] : items[c][i] \in K

\* mutant: one page too many
StopsLate(c, K) ==
    items[c] = <<>> \/ FoundKnown(c, K) \/ ~more[c] \/ page[c] > MaxPages

StopsHere(c, K) ==
    \/ items[c] = <<>>
    \/ FoundKnown(c, K)
    \/ ~more[c]
    \/ page[c] = MaxPages

PageChecked(c, K) ==
    /\ fresh' = [fresh EXCEPT ![c] = @ \o NewOnPage(c, K)]
    /\ Goto(c, IF StopsHere(c, K) THEN "upsert" ELSE "search")
    /\ lossy' = (lossy \/ (page[c] = MaxPages /\ ~FoundKnown(c, K) /\ more[c]))

\* GetListing for every item of the page, then the stop conditions. A lookup
\* that fails is logged, and its listing taken for a new one.
CheckPage(c) ==
    /\ pc[c] = "check"
    /\ \/ PageChecked(c, known) /\ UNCHANGED budget
       \/ /\ Glitch
          /\ \E l \in known \cap ToSet(items[c]) : PageChecked(c, known \ {l})
    /\ items' = [items EXCEPT ![c] = <<>>]
    /\ more' = [more EXCEPT ![c] = FALSE]
    /\ UNCHANGED <<marketVars, known, todo, page, total, calls, failed, orderVars>>

\* processListing for the next of NewListings: a failed upsert is logged.
UpsertListing(c) ==
    /\ pc[c] = "upsert"
    /\ fresh[c] # <<>>
    /\ \/ LET l == Head(fresh[c]) IN
          /\ known' = known \cup {l}
          /\ crossed' = crossed \cup {w \in Watches \ {Current(c)} : l \in Finds[w] \ known}
          /\ UNCHANGED <<lossy, budget>>
       \/ Glitch /\ lossy' = TRUE /\ UNCHANGED <<known, crossed>>
    /\ fresh' = [fresh EXCEPT ![c] = Tail(@)]
    /\ UNCHANGED <<marketVars, pc, todo, page, items, more, total, calls, failed, newestFirst>>

\* processWatch has returned: totalPages, then UpdateWatchLastPolled.
UpdateWatchLastPolled(c) ==
    /\ pc[c] = "upsert"
    /\ fresh[c] = <<>>
    /\ total' = [total EXCEPT ![c] = @ + page[c]]
    /\ todo' = [todo EXCEPT ![c] = Tail(@)]
    /\ page' = [page EXCEPT ![c] = 0]
    /\ Goto(c, "watch")
    /\ UNCHANGED <<marketVars, known, items, more, fresh, calls, failed, lossy, orderVars, budget>>

\* The process dies or its context is cancelled.
Crash(c) ==
    /\ pc[c] # "idle"
    /\ Glitch
    /\ lossy' = (lossy \/ (pc[c] = "upsert" /\ fresh[c] # <<>>))
    /\ Leave(c)
    /\ UNCHANGED <<marketVars, known, orderVars>>

-----------------------------------------------------------------------------
(* eBay *)

\* A new listing comes up anywhere in the results: processWatch leaves Sort
\* empty, and eBay orders them as it likes.
Listed(l) ==
    /\ l = Cardinality(seen) + 1
    /\ seen' = seen \cup {l}
    /\ \E k \in 0..Len(market) :
          /\ market' = SubSeq(market, 1, k) \o <<l>> \o SubSeq(market, k + 1, Len(market))
          /\ newestFirst' = (newestFirst /\ k = 0)
    /\ UNCHANGED <<known, cycleVars, lossy, crossed, budget>>

\* A listing ends; the ones after it move up, past a page boundary perhaps.
Sold(l) ==
    /\ \E i \in DOMAIN market : market[i] = l /\ market' = RemoveAt(market, i)
    /\ Glitch
    /\ lossy' = (lossy \/ \E c \in Cycles : pc[c] \in {"search", "check"} /\ page[c] > 0)
    /\ UNCHANGED <<seen, known, cycleVars, orderVars>>

-----------------------------------------------------------------------------
CycleStep(c) ==
    \/ Begin(c) \/ NextWatch(c) \/ Search(c) \/ CheckPage(c)
    \/ UpsertListing(c) \/ UpdateWatchLastPolled(c)

Next ==
    \/ \E c \in Cycles : CycleStep(c) \/ Crash(c)
    \/ \E l \in Listings : Listed(l) \/ Sold(l)

Spec == Init /\ [][Next]_vars

\* cron starts a cycle at every interval and every call in it returns.
FairSpec == Spec /\ \A c \in Cycles : WF_vars(CycleStep(c))

-----------------------------------------------------------------------------
(* Properties. *)

\* What the cycle budget is worth: it is tested between watches only, so the
\* last watch may overshoot it by its pages, and every failed pagination hides
\* up to MaxPages calls from it.
CallsBounded ==
    \A c \in Cycles : calls[c] < MaxCallsPerCycle + MaxPages * (1 + failed[c])

\* Stopping at the first known listing is sound as long as new listings come up
\* before older ones, nothing lossy happened (a failed upsert, a crash between
\* two upserts, a listing that ended during pagination, more new listings than
\* MaxPages hold) and no other watch brought in a listing of this one, of which
\* GetListing does not ask: whatever is older than a known result is known.
\* Pages that were read before an eBay error are dropped whole, which keeps it so.
NoGap ==
    (newestFirst /\ ~lossy /\ \A c \in Cycles : fresh[c] = <<>>) =>
        \A w \in Watches \ crossed :
            LET r == Results(w) IN
            \A i, k \in DOMAIN r : i < k /\ r[i] \in known => r[k] \in known

\* The watches that every cycle gets to, once each of those before them finds
\* its first result known: the budget starves the older watches behind them.
InBudget == {WatchOrder[i] : i \in {n \in DOMAIN WatchOrder : n <= MaxCallsPerCycle}}

\* No query of those watches gets to l: a known listing is in front of it.
Hidden(l) ==
    \A w \in InBudget : l \in Finds[w] =>
        LET r == Results(w) IN \E i, k \in DOMAIN r : i < k /\ r[i] \in known /\ r[k] = l

\* Whatever the order of the results, whatever overlaps and fails: a listing on
\* eBay gets into the database, or ends first, unless something lossy happened
\* or it stays behind a known one. With NoGap it is what docs/impl/0001:366-367
\* promises of "paginate sorted by newlyListed"; but the code does not ask for
\* that order, and without it a listing may stay Hidden for ever.
EveryListingIngested ==
    \A l \in Listings :
        l \in seen ~> l \in known \/ l \notin ToSet(market) \/ lossy \/ Hidden(l)
=============================================================================
