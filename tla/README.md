# A TLA+ model of server-price-tracker

server-price-tracker watches eBay for used server parts. An ingestion cycle polls
eBay for every enabled watch, a pool of workers has an LLM extract what each
listing is, a scorer compares prices with baselines, alerts go to a Discord
webhook, and an LLM-as-judge grades the alerts within a daily budget. All state
that outlives a request is in PostgreSQL; several replicas may share it.

What goes wrong in such a program goes wrong *between* statements: a claim and
its completion, a send and its record, a budget check and the bill. This project
models those protocols step by step, one action per statement or call that other
processes can observe, checks them with TLC and proves the central invariants
with TLAPS.

- [Inventory](#inventory)
- [Modules](#modules)
- [Runs](#runs)
- [Bounds](#bounds)
- [Fairness](#fairness)
- [Proofs](#proofs)
- [Where code and documents disagree](#where-code-and-documents-disagree)
- [Not modelled](#not-modelled)
- [Plan](#plan)

To run one check: `tlc -workers 2 -config ExtractionQueue.cfg MCExtractionQueue`.
To check one proof module: `tlapm ExtractionQueueProofs.tla`.

## Inventory

| Component | State | Operations | Correct when |
|---|---|---|---|
| Ingestion cycle (`internal/engine/engine.go`, `internal/ebay/paginator.go`, `browse.go`) | `listings`, `watches.last_polled_at`; per cycle: page, new listings, pages used | `RunIngestion`, `processWatch`, `Paginate`, `processListing` | every listing on eBay gets into the table; the calls per cycle are bounded |
| Extraction queue and workers (`engine.go`, `internal/store`, `migrations/004`) | `extraction_queue`; extraction and score columns of `listings`; worker goroutines | `EnqueueExtraction`, `DequeueExtractions`, `processExtractionJob`, `CompleteExtractionJob`, `RunReExtraction` | one worker per listing; results never go back to an older title; every job is completed |
| Scheduler (`internal/engine/scheduler.go`, `migrations/002`) | `scheduler_locks`, `job_runs` | `runJob`, `AcquireSchedulerLock`, `ReleaseSchedulerLock`, `RecoverStaleJobRuns` | a job runs on one replica at a time; a dead holder does not block it |
| Alerts (`engine.go` `evaluateAlert`, `internal/engine/alert.go`, `internal/api/handlers/alerts_ui.go`) | `alerts`, `notification_attempts` | `evaluateAlert`, `ProcessAlerts` (single, batch, summary), dismiss, restore, retry | marked notified only if delivered; each pending alert is delivered, once |
| Discord notifier (`internal/notify`) | the shared rate limit state; per call: chunk, attempt | `SendAlert`, `SendBatchAlert`, `waitForBucket`, `handle429` | the count returned is true; batches are paced and end |
| Judge (`pkg/judge/worker.go`, `llm_judge.go`, `migrations/013`) | `judge_scores`, the spend of the day | `Worker.Run`, `EvaluateAlert`, `InsertJudgeScore` | the cap bounds the spend; a verdict is final; every alert is judged |
| eBay rate limiter and quota (`internal/ebay/ratelimit.go`, `analytics.go`, `migrations/006`) | daily counter, limit and window in memory; `rate_limiter_state` | `Wait`, `Sync`, `SyncQuota`, pre-warm | the daily limit is not exceeded; an exhausted counter comes back |
| eBay OAuth (`internal/ebay/auth.go`) | the cached token and its expiry, a mutex | `Token`, `refreshLocked` | no request carries an expired token |
| Extraction algorithms (`pkg/extract`) | none between calls | pre-classify, classify, extract, normalise, validate, product key | what is accepted can be priced; one product, one key |
| Scorer and baselines (`pkg/scorer`, `internal/engine/score.go`, `recompute_baseline` in the migrations) | `price_baselines`, the score column | `ScoreListing`, `RescoreAll`, `RunBaselineRefresh` | monotone in price; stale scores are overtaken; deals are alerted of |
| Langfuse client (`pkg/observability/langfuse`) | bounded channel, drain goroutine | `enqueue`, `drain`, `Stop` | never blocks a caller; nothing reordered or lost before the end |
| Watches (`cmd/spt`, `internal/api/client`, `handlers/watches.go`, `filters.go`) | `watches` | create, update, enable, disable, delete | an update changes what its flags name and nothing else |
| Alert review (`handlers/alerts_ui.go`, the review queries) | `alerts.dismissed_at`; labels in Langfuse | list page, dismiss, restore | a walk over the pages misses nothing; labels say what the operator decided |
| Migrations, start and shutdown, configuration (`internal/store/migrate.go`, `serve.go`, `internal/config`) | `schema_migrations`, the parts of a server | `RunMigrations`, `startServer`, `shutdownServer`, `validate` | whole schema before serving; no pool closed under a job |
| Metrics, tracing, templates, tools | counters nobody reads back | | |

How they interact:

```
 Deployment (pods) ──starts──> everything below          WatchAdmin ──> watches
                                                                          │
 cron / POST ──> SchedulerLock ──> Ingestion ──upsert, enqueue──> ExtractionQueue
                      │              │  │ search                         │ Extractor
                      │              │  v                                v
                      │              │ RateLimiter, OAuthToken   Deals (Scoring)
                      │              └── end of cycle ──┐                │
                      └──> JudgeWorker <── alerts ── AlertDelivery <── evaluateAlert
                                              │         │ SendAlert, SendBatchAlert
                                         AlertReview    v
                                              │   DiscordNotifier ──> webhook
                                              └── labels ──> BufferedClient ──> Langfuse
```

The edges are tables and calls. The scheduler calls ingestion and the judge under
its lock; the HTTP handlers call the same functions without it, so every module
below has *several* callers where the code allows several. Ingestion hands over
through `extraction_queue`, workers through `alerts`, delivery through
`notification_attempts`.

The hard parts, each with its line and properties in `PROJECT.json` under
`hazards`: concurrent claims without a lock; a title read before an LLM call of
minutes and used after it; a crash or a failed statement between two statements
that belong together; a lock that expires under its holder; a post that was
delivered although it timed out; a batch cut short; a budget checked before and
charged after the call; results whose order a stop condition depends on; a quota
counter overwritten by an older number; a score computed from what was read
earlier; a read-modify-write over two HTTP requests; paging by offset over a table
that changes; a shutdown with work in flight.

## Modules

A definition keeps the name of the function it models wherever it can; the `map`
of `PROJECT.json` gives the lines. A database statement is one step. A call that
fails may have committed before its answer was lost, wherever that makes a
difference. What the code reads before a call and uses after it is a variable of
the process.

**ExtractionQueue**, **ListingRefresh** (`MCExtractionQueue`, `ExtractionQueueProofs`).
`queue` is the table, a sequence of rows; a row has its listing, priority, claim,
attempts and outcome. A title is a version number, and an extraction, a score
and an alert evaluation carry the version they were computed from: `title`,
`extracted`, `scored`, `evaluated`. A worker goes through the stages of
`processExtractionJob`: `GetListingByID`, `ClassifyAndExtract`,
`UpdateListingExtraction`, `ScoreListing`, `EvaluateAlertsForListing`,
`CompleteJob`. `Shutdown` cancels the worker context without waiting, as
`shutdownServer` does; `Exit` is the end of the process, `Restart` the next one.
`wanted`, a field of a row, is history: the title's version when it was enqueued.
ListingRefresh is what the rest of the program may count on, with no workers, pods
or contexts in it: a listing has at most one open request, one party at most works on
it and on the listing, it stores newer and newer extractions, scores what is stored,
evaluates alerts on that score, and says "done" only when what was asked for is there.
It may give up at any time, and then nobody takes the request again. The mapping
makes requests of rows (`Requests`) and takes the jobs of the busy workers for what is
being worked on (`Working`).

**SchedulerLock** (`SchedulerLockProofs`). One job name. `holder` and `left` are
the row of `scheduler_locks`, time being kept as the time left. A tick is one
goroutine in `runJob`: acquire, insert the run, run, release (deferred, so it
comes *before* `CompleteJobRun`), record. After a failed `InsertJobRun` it
releases the lock and runs all the same (`ReleaseThenRun`, stage `bare`).
`Trigger` is the HTTP handler that calls the job without the lock. `overran` is
history.

**AlertDelivery**, **AlertOutbox** (`MCAlertDelivery`, `AlertDeliveryProofs`). `alerts` and `succeeded` (the alerts with
a succeeded row in `notification_attempts`) are the tables. An evaluator is in
`evaluateAlert`, between the cooldown check and the insert. A processor is in
`ProcessAlerts`: it lists the pending alerts, takes one watch after the other,
and goes through `sendSingle` (`CheckSingle` to `MarkSingle`) or `sendBatch`
(`FilterBatch` to `MarkBatch`), or from the listing straight to one post in
summary mode. `reached` and `byHand` are history: what Discord really got.
AlertOutbox is what this promises: a row asks for a message, one open row at a time
for a watch and a listing; messages go out for rows only; a receipt is taken, and a row
closed, only for a message that arrived. Its rows are the alerts, closed when notified,
and its receipts the succeeded attempts; the stages of a call are not to be seen.

**DiscordNotifier**, **WebhookPosting** (`MCOutbound`, `OutboundProofs`). What `SendBatchAlert` and `SendAlert` do below the level of
AlertDelivery, where a post is one step: the wait for the bucket, the headers of
each answer overwriting the shared state, the retry after a 429. Discord is a
bucket of `Capacity` posts per `Window`. A post whose answer is lost may have been
counted all the same, and the headers read before it then promise more than is left
(`uncounted`, history, until the next answer or window); a post may also never be
answered. `refused` (history) are the calls that met a 429 in this window. WebhookPosting is the one step that
AlertDelivery takes a post for: it succeeds, and the chunk is taken and counted, or it
fails and ends the call, the chunk being taken or not. The mapping shows a post when its
answer is handled: between the two, `taken` is still `sent`.

**JudgeWorker** (`JudgeWorkerProofs`). `spent` is the sum the cap is compared
with, `billed` (history) what the calls really cost. A run checks the budget,
lists candidates newest first, and for each one checks again, asks, inserts.
`Midnight` starts a new sum; `AgeOut` moves the lookback window.

**Ingestion** (`MCIngestion`, `EbayProofs`). `market` is eBay's result list, in an order
of eBay's own: the code asks for none, and a new listing comes up anywhere in it
(`Listed`). What a watch finds is a part of it (`Finds`), and watches may find the same
listings. A cycle goes
through `RunIngestion`: the budget test before each watch, `Search` for one page,
`CheckPage` with its stop conditions, then one upsert after the other. `lossy`
(history) names the events after which pagination cannot find a listing any more.
`newestFirst` (history) says that each new listing has come up before the older ones,
and `crossed` are the watches one of whose listings another watch has brought in.

**RateLimiter** (`MCEbayClient`, `EbayProofs`). `daily`, `maxDaily` and `resetIn` are the fields
of the limiter. A caller goes through `Wait` in the steps others can see: reset,
check, token bucket with the increment; then it sends. `SyncQuota` reads what eBay
counted and stores it later, limit first, counter next. eBay's day ends at another
time than the limiter's rolling window. A start finds any stored row an earlier
process may have left, so a restart is a case of `Init`. `forgot` (history): the
counter lost a search of the current day.

**OAuthToken** (`MCEbayClient`, `EbayProofs`). The cached token with the
expiry the provider reckons (`expiry`) and the time eBay will really accept it
(`live`); each user carries a token with its own time left. A tick is the longest
an exchange with eBay takes (client timeouts of 10 and 30 seconds), so the refresh
margin of 60 seconds is two ticks.

**Preclassify**, **Normalize**, **Validate**, **Extractor** (`MCPricing`, `PricingProofs`).
`pkg/extract`. A title is the set of the phrases it contains, a list of patterns the
set of phrases it matches; an attribute map is a function to values tagged with
their JSON type. The first three are operators with the names of the Go functions;
A name that canonicalisation would leave empty (`NoName`) is kept as it was, as in the
code. Extractor has the calls of `ClassifyAndExtract` as actions, with an LLM that may
answer anything and three backends that differ in what they take for a text.

**Scoring**, **Deals** (`MCPricing`, `PricingProofs`). Scoring has the factors of the
score as exact fractions, the SQL percentiles and the watch filters. Deals has what
runs over them: ingestion storing offers, one worker, one refresh or rescore, each step one
database call, each process working on the listing and the baseline it read
earlier. That `RescoreAll` writes `listings.score` from what it has read earlier is
modelled here only: ListingRefresh is about the steps of the queue.

**BufferedClient**, **TelemetryLog** (`MCOutbound`, `OutboundProofs`). The channel, the drain
goroutine with its select, retries and flush, `Stop` with its deadline, producers
that do not know of it. TelemetryLog is what this promises: a bounded queue that
takes or drops, settles in order and once, and loses something only when the
process ends. The refinement mapping takes the job in hand and the channel for the
queue: `pending <- <<job>> \o jobs`.

**Deployment** (`MCOperations`, `OperationsProofs`). Pods that run `RunMigrations` statement by
statement against one schema, build the parts their configuration allows, serve, and
shut down in the order of `shutdownServer` and of the deferred calls. `applied` are the
files that were executed and `recorded` those on record. A file that can be executed
again puts its own version of a function or a constraint in the place of a newer one
(`Undoes`: 007 over 008, 010 over 011); `undone` are the files whose effect was
replaced so. `overlapped` (history): two pods were in their migrations at one time.

**WatchAdmin** (`MCOperations`, `OperationsProofs`). The watch table and its clients. `spt watches
update` is two requests; a request body leaves out zero values, as `omitempty`
does, and decoding puts them back.

**AlertReview** (`MCOperations`, `OperationsProofs`). An operator who walks over the pages of a list,
count and page being separate statements, and operators who dismiss and restore,
row first and label in Langfuse afterwards. A label belongs to a trace, and the alerts
that one evaluation raises share theirs (`engine.go:483`). Labels are best-effort: one
may be dropped, refused, or die with the server (`missed`, history, until a later one
gets through).

The modules are kept apart. What one needs of another is an interface of one step
(a post, an evaluation, an upsert, a search) whose outcomes are a superset of what
the other module produces, failures included; each module's header says which.
The MC modules that hold two or three components run them one beside the other:
they share no state.

## Runs

Passing:

- **queue**: two workers in two pods, two listings, changing titles, one failed
  call, crash or shutdown anywhere. No listing is in the hands of two workers
  (`ListingExclusive`), table and workers implement ListingRefresh
  (`ImplementsRefresh`: nothing stored goes back to an older title, a job completed
  without an error covers the title it was enqueued for), and without a failure every
  job completes (`EveryJobCompletes`).
- **lock**: two replicas, two overlapping ticks, triggers, two failures. Mutual
  exclusion while runs stay within their TTL and inside the lock
  (`MutexWithinTTL`), recovery never hits a live run (`RecoveryOnlyHitsTheDead`),
  and the job runs again and again whatever died while holding the lock
  (`JobNeverBlocked`).
- **alerts**: two overlapping `ProcessAlerts`, both modes, a failed write or
  crash, a post that failed or only seemed to, a retry by hand, a deleted watch.
  `NotifiedOnlyIfReached`; `ImplementsOutbox` (the refinement of AlertOutbox, which
  says the same of recorded attempts and more); and `NotResent`: with nobody else
  sending, an alert with a recorded success is not sent again.
- **alerts_progress**: with a failing Discord, dismissals, restores and deletions,
  every pending alert is eventually notified or gone (`PendingEventuallyNotified`).
  `CooldownBounded`: the cooldown is read before the insert, so a listing can be
  alerted of again within it; but there are never more alerts within a cooldown than
  one, and one for each concurrent call of `evaluateAlert`. Calls of `ProcessAlerts` must not overlap for that: one may mark what
  another has marked, and what was marked late cools down late. The run has one call of
  each; the theorem covers any number, crashes and lost writes.
- **judge**: two concurrent runs, three alerts, a failure, midnights. The spend
  exceeds the cap by at most one verdict per run (`OvershootBounded`); the real
  bill by one verdict and one per lost call while runs do not overlap
  (`BillBounded`); separate runs do not pay twice (`NeverRejudged`); every alert is
  judged or leaves the window (`EveryAlertJudged`).
- **ingest**: two overlapping cycles over three watches that share listings and of
  which the budget never reaches the third, results in any order, more listings than
  the pages hold, a failure, a crash or a sale. `NoGap`: while new listings come up
  first, behind a known listing of a watch everything is known, unless one of the named
  lossy events happened or another watch brought in one of its listings (`crossed`).
  `EveryListingIngested` says what is left in any other order: a listing gets into the
  database, ends, is lost to a lossy event, or stays behind a known one in each watch
  within the budget (`Hidden`); overlaps and failures that are not lossy do not lose
  it. `CallsBounded`: how far the cycle budget really reaches.
- **ebay**: two searches at once, `SyncQuota` and several days of eBay, from every
  stored state. `QuotaKept`: unless the counter forgot a search, the limit is
  overrun by less than two searches per caller (one that passed the check together
  with others, one that was admitted before midnight and sent after it).
  `QuotaComesBack`: neither a stale sync nor an old stored window blocks searches
  for good. `TokenLive`: no search carries an expired token.
- **outbound**: Discord: two senders on one notifier, other clients, lost answers,
  429s: `ImplementsPosting` (the refinement of WebhookPosting: no chunk is counted that
  was not taken, none is posted again once it was), `PacedAfterFirstAnswer` (no call
  posts again in the window of its own 429, whoever else posts; and a lone sender's
  batches meet no 429 once an answer was read, but in a window in which an answer was
  lost), `BatchReturns` (every call ends unless Discord never answers one of its
  posts). Langfuse: a full channel, retries, `Stop` and its deadline at any
  point: `ImplementsLog` (the refinement of TelemetryLog), `FlushComplete` (`Stop`
  that returns nil has settled what was queued when it was called),
  `TakenIsSettled`.
- **pricing**: about 450 titles and specifics, every spelling of seven products and
  every pair of mistakes in an answer, three backends: `AcceptedCanBePriced`;
  `OneKeyPerProduct`: one key for all spellings of a product, and exactly one other
  for a size of a multiple of 128 GB that the LLM gives in decimal MB; `TitleDecides`:
  what is classified without the LLM, that a title that names the part is believed, and
  that accessories get the one key `other:other`. Then two listings with three offers, a
  worker and the cron's refresh that interleave (the rescore endpoint is not in the run): `MonotoneInPrice` for every baseline that arises,
  `ScoresSettle` and `DealEventuallyAlerted`: stale writes of scores are overtaken,
  and a lasting deal is alerted of also if its worker saw it too early.
- **operations**: two pods, three migrations of which the second cannot be
  repeated and the first undoes the later ones, eight configurations, crashes:
  `SchemaBeforeServe` (a pod serves after every file, and no file is undone unless two
  pods migrated at one time), `PodsMigrate`, `PoolOutlivesJobs`, `RoutesHaveParts`. Two clients of the watch table:
  `SerialEditsKept`, the sentence of the command's help for updates that overlap no
  other write. One reader and two operators on the review pages: `NoneSkipped`,
  `LabelTruthful` (per trace, unless requests for it overlapped or its score was lost).

Two more runs end in a counterexample to a sentence of the documents; see
[below](#where-code-and-documents-disagree).

Several properties are conditional on a history variable (`overran`,
`overlapped`, `crowded`, `uncounted`, `lossy`, `newestFirst`, `crossed`, `forgot`,
`disturbed`, `raced`, `missed`). The condition is part of what they say: without it the code does not have the property, and it is the
weakest one found under which it does. Each conditional run has many states in
which the condition holds and the interesting step happens; the mutants in
`PROJECT.json` violate the properties there.

## Bounds

- *Two of each process.* Every protocol here is between pairs: two claims, two
  holders, two senders, a reader and a writer. Where the argument is pairwise and
  proved (all safety properties but `OneKeyPerProduct`) the theorem removes the bound.
- *Two listings, two title versions, two jobs* (queue): one job of a listing next
  to one of another, and a second job of a listing after its first; one title
  change while a worker holds the older title. Mutants with a missing conflict
  clause or claim test need no more.
- *Batches* (alerts): threshold 2 and chunks of 1 in place of 5 and 10, so that a
  watch with one alert takes the single path, one with two the batch path, and a
  batch is cut between two chunks. *alerts_progress* has a third alert, for one
  that is created after another has been notified; with one evaluator three is also
  one more than `CooldownBounded` allows.
- *TTL 1, cutoff 2* (lock): the code's order TTL (30 or 60 minutes) < cutoff (2
  hours) with the smallest numbers; a tick can be within, at and past both.
- *Budget 1, cost 0 or 1, batch 2 of 3 alerts* (judge): the cap is met within a
  batch, a verdict may be free, the limit leaves an alert for the next run.
- *Page size 1, 2 pages, 3 listings, a budget of 2 calls for three watches* (ingest):
  each page boundary is a case, the pages can be too few for the second watch, which
  shares a listing with each of the others; a first watch of one page leaves one call,
  which the second overshoots. The third shows what the budget starves.
- *Capacity 1, window 2, two chunks, one other post* (outbound): each chunk
  exhausts the bucket, and another client can use up the window before the retry.
- *Limit 1, a day of two ticks, four searches* (ebay): the second caller is always
  at the limit, the window can end inside eBay's day and the other way round; with
  four searches the counter can reach the first value `QuotaKept` excludes. Token life 5, margin 2:
  a token passes through valid, within the margin, expired.
- *Three records, a buffer of two, one retry* (outbound): one in work, two queued,
  one dropped; the retry fails or succeeds. With fewer retries than the code's
  three, the loop has the same exits.
- *Two listings, pages of one, baselines from two samples, three events* (pricing):
  a refresh has a page before and a page after the worker's listing; an offer, a
  change of it and one failed call, or ageing and a toggled watch, in any order.
  `MonotoneInPrice` looks at the prices next to each percentile. The titles
  have up to three phrases, as the longest rule needs three.
- *Three migrations, two crashes; one watch id, five commands; three alerts of two
  kinds that share a trace, pages of one, two clicks* (operations): a pod crashes on a file and on its repetition;
  two updates of a watch overlap each other or a toggle; a walk crosses two page boundaries.
- *Faults*: one per run, two for the lock (a failed release and a crash, say), none but
  failed posts in *alerts_progress*, where any other fault excuses a pending alert. A
  fault is any failed call, crash or shutdown, at any step.

Symmetry is used in *alerts* only, where no liveness is checked.

## Fairness

- A process in the middle of a call goes on (`WF` of its step): the statements of the
  database return, and the clients of eBay, the LLM and Langfuse have timeouts.
  Workers loop until their context ends.
- The webhook is the exception. The notifier posts with `http.DefaultClient`, which has
  no timeout (`discord.go:48`, `serve.go:452-465`), under the scheduler's context, which
  has no deadline (`scheduler.go:183`). DiscordNotifier therefore has no fairness on
  `PostOnce`, and `BatchReturns` is conditional on Discord answering each post.
  `PendingEventuallyNotified` (*alerts_progress*) assumes that each post ends, with
  success or failure: a webhook that never answers holds that cycle for ever.
- Cron starts a job at every interval: `WF` of a cycle, of a run, of a processor;
  for the lock `SF` of `Acquire`, as cron and the HTTP triggers share the slots
  of `Ticks` in the model and do not in the program, where each tick has a
  goroutine of its own.
- Time passes (`TimePasses`, `Midnight`, `Tick`), and the orchestrator restarts
  pods (`Restart`, `Drained`; in Deployment `MigrateStep`).
- The drain goroutine of the Langfuse client is started and runs (`WF` of
  `Start \/ Drain`): an attempt ends by the client's timeout. Workers and the
  baseline refresh go on (Deals); nobody has to call the rescore endpoint.
- Nothing is assumed of users, of eBay or of failures: triggers, retries,
  dismissals, new listings and faults happen or not.

## Proofs

TLAPS checks the following for every value of the constants. The assumptions are
in the modules that declare the constants, and TLC evaluates them in the runs:
`QueueConstants`, `LockConstants` (`TTL < StaleAfter`), `AlertConstants` (finitely many evaluators),
`JudgeConstants` (finitely many runs, at least one), `NotifierConstants`,
`BufferConstants`, `LimiterConstants` (finitely many callers, at least one),
`TokenConstants` (a refresh margin of at least two ticks and a longer life),
`IngestionConstants`, `DeployConstants` (the files are numbered from 1),
`WatchConstants` (the flags of an update name columns of a watch), `DealConstants`
(finitely many listings, amounts not negative, at least one sample),
`ReviewConstants`. Apart from what is in parentheses they are types: bounds are
natural numbers, scores and query parameters integers, `None` is not a member.

Each component has a theorem `Spec => []Inv` for an inductive invariant, with one
lemma per action, and the properties of the runs as consequences. What follows
says for each why the property alone is not inductive.

**ExtractionQueueProofs**. `QueueInvariant: Spec => []IInv`, where `IInv` is
`TypeOK`, `OneOpenRowPerListing`, `ClaimedOnce`, `VersionsOrdered` and
`SuccessCoversRequest`. That a stored extraction does not go back, for instance,
needs the worker that writes it to hold a title no older than what is stored; that
in turn needs nobody else to write that listing meanwhile; which follows from each
busy worker having a claim on an open row of its own and from one open row per
listing. The lemmas say what appending, claiming and finishing a row preserve
(`EnqueueRow`, `ClaimRow`, `FinishRow`). From `IInv` follow `TypeCorrect`,
`ExclusiveProcessing`, `SuccessIsCovered`, and the action property
`StoredNeverRegresses`. `QueueImplementsRefresh` proves the refinement of
ListingRefresh, action by action. `RefreshInv` adds to `IInv` what only the mapping
needs: a worker about to evaluate alerts still finds the score it has stored
(`ScoreInHand`, because nobody else has a job of that listing), and the rows are named
by `1..MaxJobs`. Failures, shutdowns, crashes and the steps that only move a worker on
are one lemma (`QuietMaps`): they change no row and give up what they drop.

**SchedulerLockProofs**. `LockInvariant` with `LockInv` as `TypeOK`,
`LockIsHolders` and `RecoveryOnlyHitsTheDead`. A tick that holds the lock has to
know that the row is its own and not expired, `left = lease[t]`, which is what time
and the deletion by host name preserve until some tick overruns. `MutualExclusion`
and `RecoveryIsSafe` follow; the latter uses `TTL < StaleAfter`.

**AlertDeliveryProofs**. `AlertInvariant`. The two properties speak of the tables;
the steps that write them rely on locals of `ProcessAlerts` that were set several
steps earlier. `Claims(p)` says for each stage of a call what its locals stand for:
the first `sent[p]` alerts of a batch have reached Discord, so has the alert in hand
once its post was answered, so have all that are left of the attempts to record.
`FlagsAreTrue` and `AttemptsAreTrue` follow. For the action property
`NothingIsSentTwice` the invariant has `Undisturbed` (at most one caller of the
notifier) and `Asked`: what a call is about to post had no success on record when it
asked, and nobody else has recorded one since.
`CooldownInvariant`: the alerts that cool down are not all that counts. A pending alert
will be marked and cool down next, and a call of `evaluateAlert` that has asked may insert
one more; `WithinCooldown` bounds them together, by the cardinalities of `LiveOf` and
`Passed`. Marking then moves an alert from open to cooling and adds none, an insert uses
up the call that made it, and a question is only answered yes when nothing cools down.
That needs `OneOpen`, the partial unique index, and `InHand`: what a call of
`ProcessAlerts` holds has not been marked before, or marking it would start a second
cooldown. `CooldownIsBounded` follows.
`AlertsImplementOutbox` proves the refinement of AlertOutbox. `OutboxInv` adds to
`AlertInv` that whatever a call has listed, grouped or batched are rows of the table
(`HoldRows`), so that messages are posted for rows only. Inserts raise, posts post, the
attempts take receipts and the marks close; all other steps are stutters.

**JudgeWorkerProofs**. `BudgetInvariant: Spec => []RoomForInFlight` charges every
run that has passed the check with the largest cost in advance, as an insert adds to
`spent` with no check; the proof goes through the cardinality of the set of runs in
flight. `SpendingBounded` follows. `JudgeInvariant` is about runs that do not
overlap: `Unjudged` (no candidate of the run has got a verdict since it was listed,
for which the candidates have to be distinct: they are strictly decreasing) and
`Owed` (`billed` is what was recorded, what is in flight and what failures lost).
`BillIsBounded` and the action property `NoSecondVerdict` follow.

**EbayProofs** has three components.
`TokenInvariant`: the provider decides by the expiry it reckoned, which says nothing
of the real one. `TokenInv` bounds the difference, `expiry <= live + 1`, because the
expiry is reckoned from an answer that is at most one tick old (`carries[u] >= Life - 1`
while it is on its way); then a token that passes `TokenValid` has at least two ticks
left, and a search that carries it one. `TokensAreLive` follows.
`QuotaInvariant`: what eBay has counted is compared with the limit by way of the
limiter's counter, which lags behind by the callers between check and increment and
is ahead by those that have incremented and not sent. `CarriedOverOnce`,
`CounterKnows` and `AdmissionBounded` bound each difference by a cardinality of a set
of callers; `QuotaIsKept` adds them up.
`CycleInvariant`: `Counted(c)` splits the searches of a cycle into those of finished
watches, those of the watch in hand (by stage, because the budget is tested only at
stage `watch` and `MaxPages` only after a page), and `MaxPages` per failed
pagination. `CyclesStayInBudget` follows.
`GapInvariant`: `NoGap` speaks of moments when no cycle has listings in hand. In
between, a known listing may well have unknown older ones behind it, if some cycle has
found those and is about to upsert them (`Safe`), and what a cycle has read has older
results behind it that are on pages to come (`Later`). `GapInv` says that nothing is
in none of these, for each cycle by its stage (`CoverOK`) and for what is known
(`KnownCovered`). It is stated over sets of listings: a result is on page n if that
many others are newer (`ResultsAre`, `PageIs`), which is what a new listing can only
increase (`ListedLater`) and a sale before the next page decreases, one of the lossy
events. `GapFrame` says once what a step of one cycle must keep of the others. The
invariant holds as long as `newestFirst` does and leaves out the watches in `crossed`
(`Gapless`; a step that ends the order is `OrderLost`); `NothingIsPassedOver` follows.

**OutboundProofs**. `NotifierInvariant`: `CountInv` relates `sent` to what Discord
took from this sender by the stage of the call. `PaceInv` says that a call that met a
429 in this window has the window's end in its answer or its timer, with any number of
senders; and for a lone sender whose posts Discord has counted as the headers say
(`~uncounted`), that whoever finds the window used up also knows how long it lasts: the
shared headers, the answer on its way and a sleeping call's timer never end before the
window does. `SentCountIsTrue` and `BatchesArePaced` follow.
`NotifierImplementsPosting` proves the refinement of WebhookPosting: `InCall` says that a
call that has not returned has a chunk to post, so whatever the answer is, handling it is
one step of the abstract call (success, failure) or none (a 429 that is retried), and
the post itself, the waits and the other clients are stutters.
`BufferInvariant`: a record queued before `Stop` is in the channel, in work or settled
(`KeptUntilSettled`), and the goroutine exits only when all are (`FlushOrder`).
`StopDrains` follows. `BufferImplementsLog` proves the refinement: initial states map
to initial states, and each action to one of TelemetryLog or to a stutter (taking a job
off the channel moves it within the mapped queue, and a retry changes nothing).

**OperationsProofs** has three components.
`DeployInvariant`: the record is a prefix of the files and the schema is that prefix
or one file more (`Rows`); each pod has seen every file before its own in the record
(`Migrated`), which no other pod can take back; what a pod that stops still runs is
known by its stage (`Drained`), and what it has built comes from a configuration that
`validate` accepted (`Built`). `Ordered` adds that pods that migrate one after the other
apply no file that is on record, so that none undoes a newer one; a crash between a
file and its record repeats only the last file. `SchemaIsWhole`, `JobsKeepTheirPool` and
`RoutesAreServed` follow.
`ReviewInvariant`: unless two requests for a trace have overlapped (`raced`), at most
one has still to label it, and carries the present state of an alert of that trace; when
none has, the label is the state of one, unless its score was lost (`missed`).
`LabelsAreTrue` follows.
`WalkInvariant`: what the first page counted is still found by the query, and a row of
it that has not been shown has at least as many rows in front of it as the pages shown
so far hold (`Behind`). New rows in front only add to that. The ORDER BY clauses end
with the id and so are strict (`StrictOrder`): a row is at the position that the rows
before it give it (`PlaceInOrder`), and one with fewer rows in front than a page ends
at is on that page or an earlier one. The last page ends after the last row
(`LastPage`), so `NothingIsSkipped` follows.
`WatchInvariant`: a stored watch has every field, and the request body of an update
that nothing overlapped is still the encoding of what its flags ask of the row as it
is now. That decoding an encoded watch gives it back although zero values are left
out is a lemma (`WatchRoundTrip`). The action property `EditsAreKept` follows.

**PricingProofs**. `ExtractInvariant`: both properties are about an extraction that is
done; `Decided` says what the title has settled when the short cuts are left, for each of the
three parts of `TitleDecides`, and
`Accepted` that the attributes are those of a map that was normalised, passed the
validator and got its condition. `TitlesAreHeeded` follows, and `AcceptedIsPriced` by a
case per component type: the validator's rule for each required attribute excludes what
the key builder writes for a missing one.
`DealInvariant`: the percentiles of a stored baseline never fall (`Ordered`). Its lemmas
go from the set of samples to their order (`AscendingSorted`, by least elements), from
there to the interpolation (`PercentilesRise`), and to the row (`BaselineOrdered`).
`ScoreIsMonotone` adds the price factor: each of its pieces falls (`Piece`), they meet
where they join (`Meets`), and `ScoreFalls` puts the two together, also where two
percentiles coincide and a piece is empty.

Only model-checked:

- All liveness properties: `EveryJobCompletes`, `JobNeverBlocked`,
  `PendingEventuallyNotified`, `EveryAlertJudged`, `EveryListingIngested`,
  `QuotaComesBack`, `BatchReturns`, `TakenIsSettled`, `ScoresSettle`,
  `DealEventuallyAlerted`, `PodsMigrate`. Fairness and ENABLED are outside the prover's
  reach.
- `OneKeyPerProduct` (Extractor) is about the particular spellings of particular
  products.

## Where code and documents disagree

With a run that shows it (`findings` has the quotations):

- **queue_orphan**: interrupted extraction jobs are said to be recovered at the
  next start. In the run the process ends while a worker holds a claimed row, and is
  started again. `RecoverStaleJobRuns` does not look at `extraction_queue`: the row stays
  claimed for ever, and the unique index then refuses new jobs of its listing.
- **alerts_stuck**: a deal that reappears is to fire again. An alert that was
  delivered and recorded but not marked is skipped as already sent in each later
  cycle and never marked, and stands in the way of its successors.

Met while modelling; most are visible in the conditions of the properties:

Scheduling, alerts, ingestion
- After a failed `InsertJobRun` the job goes on with its lock released, next to
  another replica (`scheduler.go:126`; `docs/impl/0005` lines 362-363 has one replica
  run it). `MutexWithinTTL` leaves such a run out.
- Dismissing sets `dismissed_at` only: a pending alert that was dismissed is still
  sent (`docs/design/0010` lines 65-66 has it marked notified).
- The search request leaves the order to eBay (`engine.go:385`), although pagination
  relies on newest first, which the documents take for granted (`docs/impl/0001` lines
  366-367, `docs/IMPLEMENTATION.md` line 352). In another order a new listing may stay
  behind a known one, and out of the database, for ever (`Hidden`).
- A tick that outlives its TTL overlaps with the next one, on the same replica
  too (`overran`).
- A crashed run shows as running until a start more than two hours later.
- An enqueue for re-extraction that meets an open row keeps that row's priority 0.
- Overlapping cycles, and summary mode always, send alerts again that have a
  recorded success (`NotResent`). The cooldown is read before the insert, so a
  second alert can be created within it (`docs/impl/0012` line 346 has it prevent
  that); `CooldownBounded` says how many.
- The judge's cap is exceeded by verdicts in flight, and lost verdicts are not
  counted; overlapping runs pay twice for an alert.
- `max_calls_per_cycle` is tested between watches and ignores failed paginations
  (`CallsBounded`). With more watches than calls, those at the end of the fixed
  order are never polled.
- A listing brought in by one watch ends the pagination of another one that finds
  it too, in front of listings the other has not seen (`crossed`).
- `SendAlert` does not wait for the rate limit bucket. When the answer to a post is lost,
  the headers of the one before stay in force, and the next chunk of a lone sender may
  meet a 429 (`uncounted`). A webhook that never answers holds the call, and with it the
  cycle, for ever: the client has no timeout (`BatchReturns` leaves out such a call).

eBay client and telemetry
- `Wait` checks and increments in two steps, and `Sync` replaces the counter by an
  older one: each lets more searches through than the limit (`QuotaKept`).
- What is queued for Langfuse after the final flush is lost without being counted.

Extraction and scoring
- The LLM answer "other" is a valid class, but there is no prompt for it: the
  extraction then fails. The JSON text `null` becomes a nil map, and the first write
  to it panics; no worker recovers.
- The unit repair tries 1024 before 1000: 128000 MB is read as 125 GB, 256000 as 250, and
  so for all multiples of 128 GB, which splits the baseline of the product in two
  (`Misread` in `OneKeyPerProduct`). A system line like "poweredge" stays in
  the key when the model suggests no other; required text fields accept "unknown".
- Parts and accessories all have the key `other:other` (`productkey.go:65`), and one
  baseline like any other product (`engine.go:215`, `queries.go:180`): a rail kit is
  scored against cables.
- The worker passes no item specifics, so that short cut is for the endpoint only;
  it records a constant confidence of 0.9, and scores with the attributes the listing
  had before its extraction until the next refresh. No auction is ever ending soon.
- `processListing` evaluates alerts for listings that have no score yet.
- `recompute_baseline` keeps the old row when fewer than 5 samples are left.

Operations
- A migration that is applied and not recorded when the process dies is applied
  again; those that cannot be repeated (001 to 006, 008, 009) then fail at every
  start (`PodsMigrate` names the case).
- Nothing keeps two init containers apart. One that has found 010 or 007 unrecorded and
  executes it after another pod has gone on to 011 or 008 puts the older constraint or
  function back; its own record then fails, it starts again, finds every file on record,
  and all pods serve on the older version (`undone`, the condition of
  `SchemaBeforeServe`).
- `/readyz` without a database and rescore without an engine call a nil part; a
  listener that cannot be opened is only logged; shutdown does not wait for the
  extraction workers.
- Two overlapping `spt watches update` lose one of the edits, and an update of a
  watch that was deleted meanwhile reports success. `--type` refuses gpu,
  workstation and desktop; `attr:capacity_gb=eq:32` is stored as a string.
- Rows that leave the list while an operator pages through it push others past the
  reader; two operators on one alert may leave the older label.
- A label in Langfuse is best-effort (`alerts_ui.go:128-138`), and one that was lost is
  not sent again until somebody decides anew (`missed`). It belongs to the trace of an
  evaluation: dismissing the alert of one watch labels those of other watches with it.
- `ListListings` selects one column fewer than it scans.

## Not modelled

- What a prompt, an embed or a verdict says: text in, text out of an external
  service. The protocol around each call is modelled, and that it may fail.
- The regular expressions themselves: which phrases a pattern matches is a table of
  Preclassify and Normalize, with the phrases on which the lists overlap.
- Queries that only read, the conversion of eBay items, templates, metrics and
  tracing, the spt commands other than those for watches: request decoding,
  formatting and one call each; nothing in the pipeline depends on them.
- In parts that are modelled: alert ids are UUIDs in the code, and numbers here, of which
  only the total order matters; no watch is renamed during a walk sorted by watch; the
  pricing run refreshes by cron only; with a batch threshold of 2, *alerts_progress*
  exercises abandoned chunks more than full batches.
- `tools/`, regression data, charts: not part of the running program.
- The 30-day purge of `job_runs`: beyond the horizon of the lock protocol.
- PostgreSQL itself: a statement is atomic, `FOR UPDATE SKIP LOCKED` and the
  partial unique indexes do what they promise, and pods and database share a clock.

## Plan

Done: every component of the inventory that keeps state; proofs of every safety
property of the runs but `OneKeyPerProduct`, and of the four refinements: of
ListingRefresh, AlertOutbox, WebhookPosting and TelemetryLog.

Next: a run of two products and two watches in Deals, should the bound matter.
