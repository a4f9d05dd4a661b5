--------------------------- MODULE ExtractionQueue ---------------------------
(***************************************************************************)
(* The asynchronous extraction pipeline: ingestion upserts a listing and   *)
(* enqueues it in the extraction_queue table; the workers of every pod     *)
(* claim rows, run the LLM extraction, store the result, score the         *)
(* listing, evaluate its alerts and complete the row.                      *)
(*                                                                         *)
(* Source: internal/engine/engine.go (workers, processExtractionJob,       *)
(* processListing, RunReExtraction), internal/store/queries.go and         *)
(* postgres.go (the SQL of the queue), migrations/004_extraction_queue.sql *)
(* (one open row per listing), cmd/serve.go (shutdown).                    *)
(*                                                                         *)
(* A title is abstracted to its version number: what an extraction, a      *)
(* score or an alert evaluation was computed from is the version the       *)
(* worker read.                                                            *)
(***************************************************************************)
EXTENDS Naturals, Sequences, FiniteSets

CONSTANTS
    Listings,   \* listing ids
    Pods,       \* replicas of the server
    Workers,    \* worker goroutines, over all pods
    PodOf,      \* [Workers -> Pods]
    Ingesters,  \* concurrent ingestion loops (cron ticks, POST /ingest)
    None,       \* SQL NULL in claimed_by
    MaxJobs,    \* bound: rows ever inserted in extraction_queue
    MaxTitle,   \* bound: versions of a title
    MaxFaults   \* bound: failed database calls, crashes and shutdowns

ASSUME QueueConstants ==
    /\ PodOf \in [Workers -> Pods]
    /\ None \notin Workers
    /\ None \notin Listings
    /\ MaxJobs \in Nat
    /\ MaxTitle \in Nat
    /\ MaxFaults \in Nat

VARIABLES
    queue,      \* extraction_queue: row i is the i-th row inserted
    title,      \* listings.title, as a version; 0: the listing does not exist
    extracted,  \* version that listings.product_key etc. were extracted from
    scored,     \* version that listings.score was computed from
    evaluated,  \* version handed to evaluateAlertsForListing
    ingesting,  \* per ingester: the listing upserted but not yet enqueued
    pc,         \* per worker: where it is in runExtractionWorker
    job,        \* per worker: index of the row it works on; 0: none
    seen,       \* per worker: version of the title it read; 0: none
    ctx,        \* per pod: the worker context
    faults      \* failures so far

listingVars == <<title, extracted, scored, evaluated>>
workerVars  == <<pc, job, seen>>
vars == <<queue, listingVars, ingesting, workerVars, ctx, faults>>

Version == 0..MaxTitle

Stages == {"loop", "fetch", "extract", "update", "score", "evaluate",
           "complete", "fail", "stopped"}

\* `wanted` is a history field: the title's version when the row was inserted.
Row == [listing   : Listings,
        priority  : {0, 1},
        claimedBy : Workers \cup {None},
        attempts  : Nat,
        outcome   : {"open", "ok", "error"},
        wanted    : Version]

TypeOK ==
    /\ queue \in Seq(Row)
    /\ title \in [Listings -> Version]
    /\ extracted \in [Listings -> Version]
    /\ scored \in [Listings -> Version]
    /\ evaluated \in [Listings -> Version]
    /\ ingesting \in [Ingesters -> Listings \cup {None}]
    /\ pc \in [Workers -> Stages]
    /\ job \in [Workers -> Nat]
    /\ seen \in [Workers -> Version]
    /\ ctx \in [Pods -> {"live", "cancelled", "down"}]
    /\ faults \in 0..MaxFaults

Init ==
    /\ queue = <<>>
    /\ title = [l \in Listings |-> 0]
    /\ extracted = [l \in Listings |-> 0]
    /\ scored = [l \in Listings |-> 0]
    /\ evaluated = [l \in Listings |-> 0]
    /\ ingesting = [i \in Ingesters |-> None]
    /\ pc = [w \in Workers |-> "loop"]
    /\ job = [w \in Workers |-> 0]
    /\ seen = [w \in Workers |-> 0]
    /\ ctx = [p \in Pods |-> "live"]
    /\ faults = 0

-----------------------------------------------------------------------------
(* The SQL of the queue. *)

Open(row) == row.outcome = "open"

HasOpenRow(l) == \E i \in DOMAIN queue : Open(queue[i]) /\ queue[i].listing = l

NewRow(l, prio) == [listing |-> l, priority |-> prio, claimedBy |-> None,
                    attempts |-> 0, outcome |-> "open", wanted |-> title[l]]

InsertAlways(l, prio) == Append(queue, NewRow(l, prio))  \* mutant: no ON CONFLICT

\* INSERT ... ON CONFLICT (listing_id) WHERE completed_at IS NULL DO NOTHING
Enqueued(l, prio) ==
    IF HasOpenRow(l) THEN queue ELSE Append(queue, NewRow(l, prio))

EnqueueExtraction(l, prio) ==
    /\ Len(queue) < MaxJobs
    /\ queue' = Enqueued(l, prio)

\* WHERE completed_at IS NULL AND claimed_at IS NULL
Claimable == {i \in DOMAIN queue : Open(queue[i]) /\ queue[i].claimedBy = None}

\* ORDER BY priority DESC, enqueued_at ASC LIMIT 1
First(i, S) ==
    \A k \in S : \/ queue[k].priority < queue[i].priority
                 \/ queue[k].priority = queue[i].priority /\ i <= k

\* UPDATE ... SET claimed_at, claimed_by, attempts = attempts + 1
Claim(i, w) == queue' = [queue EXCEPT ![i].claimedBy = w, ![i].attempts = @ + 1]

-----------------------------------------------------------------------------
(* Failures. A call made with a cancelled context fails; any call may fail. *)

Live(w) == ctx[PodOf[w]] = "live"

Glitch ==
    /\ faults < MaxFaults
    /\ faults' = faults + 1

CallSucceeds(w) == Live(w) /\ UNCHANGED faults

CallFails(w) == \/ Live(w) /\ Glitch
                \/ ctx[PodOf[w]] = "cancelled" /\ UNCHANGED faults

Goto(w, stage) == pc' = [pc EXCEPT ![w] = stage]

-----------------------------------------------------------------------------
(* Producers. *)

\* processListing, first half: UpsertListing, with a new title or the same one.
UpsertListing(i, l) ==
    /\ ingesting[i] = None
    /\ \E v \in {title[l], title[l] + 1} :
          /\ v \in 1..MaxTitle
          /\ title' = [title EXCEPT ![l] = v]
    /\ ingesting' = [ingesting EXCEPT ![i] = l]
    /\ UNCHANGED <<queue, extracted, scored, evaluated, workerVars, ctx, faults>>

\* processListing, second half: EnqueueExtraction with priority 0. The trailing
\* evaluateAlert sees a listing without a score and returns at once.
EnqueueNew(i) ==
    /\ ingesting[i] # None
    /\ EnqueueExtraction(ingesting[i], 0)
    /\ ingesting' = [ingesting EXCEPT ![i] = None]
    /\ UNCHANGED <<listingVars, workerVars, ctx, faults>>

\* EnqueueExtraction failed and was logged, or the pod died in between.
EnqueueLost(i) ==
    /\ ingesting[i] # None
    /\ Glitch
    /\ ingesting' = [ingesting EXCEPT ![i] = None]
    /\ UNCHANGED <<queue, listingVars, workerVars, ctx>>

\* RunReExtraction, one listing of its loop: EnqueueExtraction with priority 1.
RunReExtraction(l) ==
    /\ title[l] > 0
    /\ EnqueueExtraction(l, 1)
    /\ UNCHANGED <<listingVars, ingesting, workerVars, ctx, faults>>

-----------------------------------------------------------------------------
(* A worker: runExtractionWorker and processExtractionJob. *)

DequeueExtractions(w) ==
    /\ pc[w] = "loop"
    /\ CallSucceeds(w)
    /\ \E i \in Claimable :
          /\ First(i, Claimable)
          /\ Claim(i, w)
          /\ job' = [job EXCEPT ![w] = i]
    /\ Goto(w, "fetch")
    /\ UNCHANGED <<listingVars, ingesting, seen, ctx>>

\* The claim committed but its answer was lost: the worker sleeps and goes on.
DequeueAnswerLost(w) ==
    /\ pc[w] = "loop"
    /\ Live(w)
    /\ Glitch
    /\ \E i \in Claimable : First(i, Claimable) /\ Claim(i, w)
    /\ UNCHANGED <<listingVars, ingesting, workerVars, ctx>>

\* case <-ctx.Done(): return
WorkerReturns(w) ==
    /\ pc[w] = "loop"
    /\ ctx[PodOf[w]] = "cancelled"
    /\ Goto(w, "stopped")
    /\ UNCHANGED <<queue, listingVars, ingesting, job, seen, ctx, faults>>

JobListing(w) == queue[job[w]].listing

GetListingByID(w) ==
    /\ pc[w] = "fetch"
    /\ \/ /\ CallSucceeds(w)
          /\ seen' = [seen EXCEPT ![w] = title[JobListing(w)]]
          /\ Goto(w, "extract")
       \/ /\ CallFails(w)
          /\ Goto(w, "fail")
          /\ UNCHANGED seen
    /\ UNCHANGED <<queue, listingVars, ingesting, job, ctx>>

\* mutant: an extraction error returns without completing the row
ExtractOrForget(w) ==
    /\ pc[w] = "extract"
    /\ \E next \in {"update", "loop"} : Goto(w, next)
    /\ UNCHANGED <<queue, listingVars, ingesting, job, seen, ctx, faults>>

\* The LLM answers, or its answer is an error: not one of the bounded faults.
ClassifyAndExtract(w) ==
    /\ pc[w] = "extract"
    /\ \E next \in {"update", "fail"} : Goto(w, next)
    /\ UNCHANGED <<queue, listingVars, ingesting, job, seen, ctx, faults>>

Extraction(w) == [extracted EXCEPT ![JobListing(w)] = seen[w]]

\* mutant: the error of the UPDATE is logged and the job goes on
UpdateIgnoringErrors(w) ==
    /\ pc[w] = "update"
    /\ \/ CallSucceeds(w) /\ extracted' = Extraction(w)
       \/ CallFails(w) /\ UNCHANGED extracted
    /\ Goto(w, "score")
    /\ UNCHANGED <<queue, title, scored, evaluated, ingesting, job, seen, ctx>>

\* A failed UPDATE may have committed before its answer was lost.
UpdateListingExtraction(w) ==
    /\ pc[w] = "update"
    /\ \/ /\ CallSucceeds(w)
          /\ extracted' = Extraction(w)
          /\ Goto(w, "score")
       \/ /\ CallFails(w)
          /\ extracted' \in {extracted, Extraction(w)}
          /\ Goto(w, "fail")
    /\ UNCHANGED <<queue, title, scored, evaluated, ingesting, job, seen, ctx>>

\* A scoring error is logged: the alerts are skipped, the row still completes.
ScoreListing(w) ==
    LET score == [scored EXCEPT ![JobListing(w)] = seen[w]] IN
    /\ pc[w] = "score"
    /\ \/ CallSucceeds(w) /\ scored' = score /\ Goto(w, "evaluate")
       \/ CallFails(w) /\ scored' \in {scored, score} /\ Goto(w, "complete")
    /\ UNCHANGED <<queue, title, extracted, evaluated, ingesting, job, seen, ctx>>

\* The alerts themselves are the subject of module AlertDelivery.
EvaluateAlertsForListing(w) ==
    /\ pc[w] = "evaluate"
    /\ \/ /\ CallSucceeds(w)
          /\ evaluated' = [evaluated EXCEPT ![JobListing(w)] = seen[w]]
       \/ CallFails(w) /\ UNCHANGED evaluated
    /\ Goto(w, "complete")
    /\ UNCHANGED <<queue, title, extracted, scored, ingesting, job, seen, ctx>>

\* completeJob: a failure of the UPDATE is only logged.
CompleteJob(w) ==
    /\ pc[w] \in {"complete", "fail"}
    /\ \/ /\ CallSucceeds(w)
          /\ queue' = [queue EXCEPT ![job[w]].outcome =
                          IF pc[w] = "complete" THEN "ok" ELSE "error"]
       \/ CallFails(w) /\ UNCHANGED queue
    /\ Goto(w, "loop")
    /\ job' = [job EXCEPT ![w] = 0]
    /\ seen' = [seen EXCEPT ![w] = 0]
    /\ UNCHANGED <<listingVars, ingesting, ctx>>

WorkerStep(w) ==
    \/ DequeueExtractions(w)
    \/ WorkerReturns(w)
    \/ GetListingByID(w)
    \/ ClassifyAndExtract(w)
    \/ UpdateListingExtraction(w)
    \/ ScoreListing(w)
    \/ EvaluateAlertsForListing(w)
    \/ CompleteJob(w)

-----------------------------------------------------------------------------
(* The processes the workers live in. *)

\* shutdownServer calls workerCancel and does not wait for the workers.
Shutdown(p) ==
    /\ ctx[p] = "live"
    /\ Glitch
    /\ ctx' = [ctx EXCEPT ![p] = "cancelled"]
    /\ UNCHANGED <<queue, listingVars, ingesting, workerVars>>

\* The process ends: after a shutdown at any time, or by a crash.
Exit(p) ==
    /\ \/ ctx[p] = "live" /\ Glitch
       \/ ctx[p] = "cancelled" /\ UNCHANGED faults
    /\ ctx' = [ctx EXCEPT ![p] = "down"]
    /\ pc' = [w \in Workers |-> IF PodOf[w] = p THEN "stopped" ELSE pc[w]]
    /\ job' = [w \in Workers |-> IF PodOf[w] = p THEN 0 ELSE job[w]]
    /\ seen' = [w \in Workers |-> IF PodOf[w] = p THEN 0 ELSE seen[w]]
    /\ UNCHANGED <<queue, listingVars, ingesting>>

\* A new process starts its workers; RecoverStaleJobRuns, which it calls,
\* writes job_runs only.
Restart(p) ==
    /\ ctx[p] = "down"
    /\ ctx' = [ctx EXCEPT ![p] = "live"]
    /\ pc' = [w \in Workers |-> IF PodOf[w] = p THEN "loop" ELSE pc[w]]
    /\ UNCHANGED <<queue, listingVars, ingesting, job, seen, faults>>

-----------------------------------------------------------------------------
Next ==
    \/ \E i \in Ingesters :
          \/ \E l \in Listings : UpsertListing(i, l)
          \/ EnqueueNew(i)
          \/ EnqueueLost(i)
    \/ \E l \in Listings : RunReExtraction(l)
    \/ \E w \in Workers : WorkerStep(w) \/ DequeueAnswerLost(w)
    \/ \E p \in Pods : Shutdown(p) \/ Exit(p) \/ Restart(p)

Spec == Init /\ [][Next]_vars

\* Worker goroutines loop until their context is cancelled, every call they
\* make returns (HTTP and database timeouts), and the orchestrator restarts a
\* pod that ended.
FairSpec ==
    /\ Spec
    /\ \A w \in Workers : WF_vars(WorkerStep(w))
    /\ \A p \in Pods : WF_vars(Restart(p))

-----------------------------------------------------------------------------
(* Properties. *)

Busy(w) == pc[w] \notin {"loop", "stopped"}

\* The partial unique index: at most one open row per listing.
OneOpenRowPerListing ==
    \A i, k \in DOMAIN queue :
        Open(queue[i]) /\ Open(queue[k]) /\ queue[i].listing = queue[k].listing
            => i = k

\* Two workers, of one pod or of two, never process the same listing at the
\* same time, whatever fails: processExtractionJob writes the listing without
\* any other lock.
ListingExclusive ==
    \A v, w \in Workers :
        Busy(v) /\ Busy(w) /\ JobListing(v) = JobListing(w) => v = w

\* No row is handed out twice, and a worker in processExtractionJob holds a
\* claim on an open row: what it completes by id is its own job.
ClaimedOnce ==
    /\ \A i \in DOMAIN queue :
          queue[i].attempts = IF queue[i].claimedBy = None THEN 0 ELSE 1
    /\ \A w \in Workers : Busy(w) =>
          /\ job[w] \in DOMAIN queue
          /\ Open(queue[job[w]])
          /\ queue[job[w]].claimedBy = w

\* A row completed without error text has stored an extraction of a title at
\* least as new as the one it was enqueued for.
SuccessCoversRequest ==
    \A i \in DOMAIN queue :
        queue[i].outcome = "ok" => extracted[queue[i].listing] >= queue[i].wanted

\* The versions that flow through the pipeline stay in order: a score is never
\* ahead of the stored extraction it needs, an extraction never ahead of the
\* title, and a worker never holds a title older than the row it works on or
\* than what is already stored.
VersionsOrdered ==
    /\ \A l \in Listings : scored[l] <= extracted[l] /\ extracted[l] <= title[l]
    /\ \A i \in DOMAIN queue : queue[i].wanted <= title[queue[i].listing]
    /\ \A w \in Workers :
          pc[w] \in {"extract", "update", "score", "evaluate", "complete"} =>
             /\ queue[job[w]].wanted <= seen[w]
             /\ extracted[JobListing(w)] <= seen[w]
             /\ seen[w] <= title[JobListing(w)]
    /\ \A w \in Workers :
          pc[w] \in {"score", "evaluate", "complete"} =>
             extracted[JobListing(w)] = seen[w]

\* What is stored for a listing never goes back to an older title: neither its
\* extraction nor its score, although several workers write them.
NoRegress ==
    [][\A l \in Listings : extracted'[l] >= extracted[l]
                           /\ scored'[l] >= scored[l]]_vars

\* The rows as requests, and the requests that a worker has in hand.
RequestState(row) ==
    IF row.outcome = "ok" THEN "done" ELSE IF row.outcome = "error" THEN "failed"
    ELSE IF row.claimedBy = None THEN "waiting" ELSE "taken"
Requests == [i \in DOMAIN queue |-> [listing |-> queue[i].listing,
                                     wanted  |-> queue[i].wanted,
                                     state   |-> RequestState(queue[i])]]
Working == {i \in DOMAIN queue : \E w \in Workers : Busy(w) /\ job[w] = i}

\* Ingestion, the scorer and the alerts count on this of the pipeline, whatever
\* is enqueued, claimed, lost, shut down or crashes: a listing is worked on for
\* one open request at a time, what is stored for it only gets newer and is
\* never ahead of what it is computed from, and no request is answered "ok"
\* before its extraction is there.
Refresh == INSTANCE ListingRefresh WITH
    Ids <- 1..MaxJobs, requests <- Requests, working <- Working
ImplementsRefresh == Refresh!RefreshSpec

\* The inductive invariant behind the theorems of ExtractionQueueProofs.
IInv ==
    /\ TypeOK
    /\ OneOpenRowPerListing
    /\ ClaimedOnce
    /\ VersionsOrdered
    /\ SuccessCoversRequest

\* As long as nothing fails or shuts down, every enqueued row is completed (or
\* recorded as an error), whatever is enqueued in front of it later.
EveryJobCompletes ==
    \A i \in 1..MaxJobs :
        i \in DOMAIN queue ~> (i \in DOMAIN queue /\ ~Open(queue[i])) \/ faults > 0

\* The process of the worker that claimed the row has ended, and the row is open.
Interrupted(i) ==
    /\ i \in DOMAIN queue /\ Open(queue[i]) /\ queue[i].claimedBy # None
    /\ ctx[PodOf[queue[i].claimedBy]] = "down"

\* It is closed, free again, or claimed by somebody once more.
Recovered(i) ==
    /\ i \in DOMAIN queue
    /\ \/ ~Open(queue[i])
       \/ queue[i].claimedBy = None
       \/ queue[i].attempts > 1

\* docs/scans/feat-scheduler-db-state.md:62-63: a job that the end of a process
\* interrupts is recovered on the next startup. Restart does nothing of the kind.
InterruptedJobsRecovered == \A i \in 1..MaxJobs : Interrupted(i) ~> Recovered(i)
=============================================================================
