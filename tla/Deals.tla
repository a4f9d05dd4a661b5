-------------------------------- MODULE Deals --------------------------------
(* How a listing becomes a deal: ingestion stores an offer and queues it, an *)
(* extraction worker gives it a product key, scores it against the product's *)
(* baseline and evaluates the watches; the baseline refresh and the rescore  *)
(* endpoint recompute the baselines and rescore everything, page by page.    *)
(* Source: internal/engine/engine.go (processExtractionJob, RescoreAll,      *)
(* RunBaselineRefresh), internal/engine/score.go, internal/store/postgres.go.*)
(*                                                                           *)
(* Worker and refresher share no lock: each works on listings it read        *)
(* earlier.  There is one product, so one baseline, and one watch.           *)
EXTENDS Scoring

CONSTANTS
  Ids,                 \* listings, in the order of their primary keys
  Offers,              \* what eBay may show for a listing
  Refreshers,          \* "cron" recomputes baselines first, others only rescore
  BatchSize,           \* page of ListListingsCursor, 200 in the code
  MinSamples,          \* HAVING count(*) >= 5 in recompute_baseline
  MinBaselineSamples,  \* 10 in the code
  Threshold, Filters,  \* the watch
  MaxEvents            \* bound: offers ingested, ageing, toggles of the watch, failed calls

(* Amounts are not negative, and a baseline has at least one sample.         *)
ASSUME DealConstants ==
  /\ IsFiniteSet(Ids)
  /\ \A o \in Offers : o.price \in Nat /\ o.shipping \in Nat /\ o.quantity \in Nat
  /\ MinSamples \in Nat \ {0}

VARIABLES
  rows,     \* the listings table
  price_baselines,
  jobs,     \* listings with an open extraction job
  worker,   \* the job in hand
  refresh,  \* per refresher: its page of listings
  enabled,  \* the watch is enabled
  alerted,  \* listings the watch was alerted of
  events    \* how many of them happened

dealVars == <<rows, price_baselines, jobs, worker, refresh, enabled, alerted, events>>

NoScore == -1
NoOffer == [price |-> 0]
Idle == [at |-> "idle"]

(* A new row has neither key nor attributes nor score.                       *)
NewRow(offer) == [offer |-> offer, keyed |-> FALSE, attrs |-> FALSE, fresh |-> TRUE, score |-> NoScore]

InitDeals ==
  /\ rows = [i \in {} |-> NewRow(NoOffer)] /\ price_baselines = NoBaseline /\ jobs = {}
  /\ worker = Idle /\ refresh = [r \in Refreshers |-> Idle]
  /\ enabled = TRUE /\ alerted = {} /\ events = 0

Event == events < MaxEvents /\ events' = events + 1

-----------------------------------------------------------------------------
(* What the scorer sees of a listing in memory: HasItemSpecifics is whether  *)
(* it has attributes, the age is that of the moment.  The auction end is not *)
(* among the columns that are read, so that no auction is ending soon.       *)
buildListingData(offer, hasSpecifics, isNew) ==
  [feedback |-> offer.feedback, feedbackPct |-> offer.feedbackPct, topRated |-> offer.topRated,
   condition |-> offer.condition, quantity |-> offer.quantity, hasImages |-> offer.hasImages,
   hasSpecifics |-> hasSpecifics, endingSoon |-> FALSE, isNew |-> isNew]

(* A table: TLC computes it once.                                            *)
FactorsOf ==
  [offer \in Offers, hasSpecifics \in BOOLEAN, isNew \in BOOLEAN |->
     OtherFactors(buildListingData(offer, hasSpecifics, isNew))]

ScoreOf(i, l, b) ==
  Score(UnitPrice(l.offer), FactorsOf[l.offer, l.attrs, rows[i].fresh], b, MinBaselineSamples)

(* Filters look at the offer and at the attributes in memory.  A table too.  *)
MatchOf ==
  [offer \in Offers, extracted \in BOOLEAN |->
     Match(Filters, [k \in DOMAIN offer \cup {"attrs"} |->
                       IF k # "attrs" THEN offer[k]
                       ELSE IF extracted THEN [capacity_gb |-> [n |-> 32]] ELSE [a \in {} |-> 0]])]

Matches(l) == MatchOf[l.offer, l.attrs]

(* evaluateAlert: what passes becomes an alert, unless there is one.         *)
Evaluate(i, l) ==
  IF enabled /\ l.score # NoScore /\ l.score >= Threshold /\ Matches(l)
  THEN alerted \cup {i} ELSE alerted

-----------------------------------------------------------------------------
(* Ingestion stores what eBay shows, whatever was stored before, and queues  *)
(* the listing unless it has an open job.                                    *)
Upsert(i, offer) ==
  IF i \in DOMAIN rows THEN [rows EXCEPT ![i].offer = offer]
  ELSE [k \in DOMAIN rows \cup {i} |-> IF k = i THEN NewRow(offer) ELSE rows[k]]

Ingest(i, offer) ==
  /\ Event /\ (i \in DOMAIN rows => rows[i].offer # offer)
  /\ rows' = Upsert(i, offer) /\ jobs' = jobs \cup {i}
  /\ UNCHANGED <<price_baselines, worker, refresh, enabled, alerted>>

(* A day passes since the listing was first seen.                            *)
Age(i) ==
  /\ Event /\ i \in DOMAIN rows /\ rows[i].fresh
  /\ rows' = [rows EXCEPT ![i].fresh = FALSE]
  /\ UNCHANGED <<price_baselines, jobs, worker, refresh, enabled, alerted>>

SetWatchEnabled ==
  /\ Event /\ enabled' = ~enabled
  /\ UNCHANGED <<rows, price_baselines, jobs, worker, refresh, alerted>>

-----------------------------------------------------------------------------
(* The extraction worker: each database call is a step.                      *)
GetListing(i) ==
  /\ worker.at = "idle" /\ i \in jobs
  /\ worker' = [at |-> "extract", id |-> i, listing |-> rows[i]]
  /\ UNCHANGED <<rows, price_baselines, jobs, refresh, enabled, alerted, events>>

(* The listing in memory gets its key, but not its attributes.               *)
StoreExtraction ==
  /\ worker.at = "extract"
  /\ rows' = [rows EXCEPT ![worker.id].keyed = TRUE, ![worker.id].attrs = TRUE]
  /\ worker' = [worker EXCEPT !.at = "baseline", !.listing.keyed = TRUE]
  /\ UNCHANGED <<price_baselines, jobs, refresh, enabled, alerted, events>>

WorkerGetBaseline ==
  /\ worker.at = "baseline"
  /\ worker' = [at |-> "score", id |-> worker.id, listing |-> worker.listing, base |-> price_baselines]
  /\ UNCHANGED <<rows, price_baselines, jobs, refresh, enabled, alerted, events>>

(* UpdateScore; the score is mirrored into memory.                           *)
WorkerUpdateScore ==
  LET total == ScoreOf(worker.id, worker.listing, worker.base) IN
  /\ worker.at = "score"
  /\ rows' = [rows EXCEPT ![worker.id].score = total]
  /\ worker' = [at |-> "evaluate", id |-> worker.id, listing |-> [worker.listing EXCEPT !.score = total]]
  /\ UNCHANGED <<price_baselines, jobs, refresh, enabled, alerted, events>>

(* Alerts, then the job completes.                                           *)
WorkerEvaluate ==
  /\ worker.at = "evaluate"
  /\ alerted' = Evaluate(worker.id, worker.listing)
  /\ worker' = Idle /\ jobs' = jobs \ {worker.id}
  /\ UNCHANGED <<rows, price_baselines, refresh, enabled, events>>

(* A call fails: the job completes, with an error or (scoring) without one.  *)
WorkerFails ==
  /\ worker.at # "idle" /\ Event
  /\ worker' = Idle /\ jobs' = jobs \ {worker.id}
  /\ UNCHANGED <<rows, price_baselines, refresh, enabled, alerted>>

-----------------------------------------------------------------------------
(* RunBaselineRefresh and the rescore endpoint.                              *)

Samples == {i \in DOMAIN rows : rows[i].keyed /\ rows[i].offer.condition # "for_parts"}

RecomputeBaseline ==
  recompute_baseline([i \in Samples |-> UnitPrice(rows[i].offer)], price_baselines, MinSamples)

At(r, state) == refresh' = [refresh EXCEPT ![r] = state]

BeginRescore(r) ==
  /\ refresh[r].at = "idle" /\ At(r, [at |-> "page", cursor |-> 0])
  /\ price_baselines' = IF r = "cron" THEN RecomputeBaseline ELSE price_baselines
  /\ UNCHANGED <<rows, jobs, worker, enabled, alerted, events>>

(* The next page in the order of the keys; an empty one ends the loop.       *)
PageAfter(cursor, S) ==
  LET all == SetToSortSeq({i \in S : i > cursor}, LAMBDA i, j : i < j)
  IN  SubSeq(all, 1, IF Len(all) < BatchSize THEN Len(all) ELSE BatchSize)

(* The page as ListUnscoredListings would give it.                           *)
ListUnscoredOnly(cursor) == PageAfter(cursor, {i \in DOMAIN rows : rows[i].score = NoScore})

ListListingsCursor(cursor) == PageAfter(cursor, DOMAIN rows)

NextPage(r) ==
  LET page == ListListingsCursor(refresh[r].cursor) IN
  /\ refresh[r].at = "page"
  /\ At(r, IF page = <<>> THEN Idle
           ELSE [at |-> "baseline", ids |-> page, batch |-> [k \in DOMAIN page |-> rows[page[k]]]])
  /\ UNCHANGED <<rows, price_baselines, jobs, worker, enabled, alerted, events>>

(* The rest of the page after its first listing, or the next page.           *)
Onward(state) ==
  IF Len(state.ids) = 1 THEN [at |-> "page", cursor |-> Head(state.ids)]
  ELSE [at |-> "baseline", ids |-> Tail(state.ids), batch |-> Tail(state.batch)]

(* ScoreListing leaves a listing without a key alone: it has no new score,   *)
(* and RescoreAll then evaluates the one it was read with.                   *)
GetBaseline(r) ==
  LET s == refresh[r] IN
  /\ s.at = "baseline"
  /\ At(r, IF Head(s.batch).keyed
           THEN [at |-> "score", ids |-> s.ids, batch |-> s.batch, base |-> price_baselines]
           ELSE [at |-> "evaluate", ids |-> s.ids, batch |-> s.batch])
  /\ UNCHANGED <<rows, price_baselines, jobs, worker, enabled, alerted, events>>

UpdateScore(r) ==
  LET s == refresh[r]
      i == Head(s.ids)
      total == ScoreOf(i, Head(s.batch), s.base)
  IN  /\ s.at = "score"
      /\ rows' = [rows EXCEPT ![i].score = total]
      /\ At(r, [at |-> "evaluate", ids |-> s.ids, batch |-> [s.batch EXCEPT ![1].score = total]])
      /\ UNCHANGED <<price_baselines, jobs, worker, enabled, alerted, events>>

(* The package function RescoreAll of score.go evaluates nothing.            *)
ScoreAllOnly(r) ==
  /\ refresh[r].at = "evaluate" /\ At(r, Onward(refresh[r]))
  /\ UNCHANGED <<rows, price_baselines, jobs, worker, enabled, alerted, events>>

evaluateAlertsForListing(r) ==
  /\ refresh[r].at = "evaluate"
  /\ alerted' = Evaluate(Head(refresh[r].ids), Head(refresh[r].batch))
  /\ At(r, Onward(refresh[r]))
  /\ UNCHANGED <<rows, price_baselines, jobs, worker, enabled, events>>

(* A failed scoring goes on with the next listing, a failed page ends it.    *)
RescoreFails(r) ==
  /\ Event
  /\ \/ refresh[r].at = "page" /\ At(r, Idle)
     \/ refresh[r].at \in {"baseline", "score", "evaluate"} /\ At(r, Onward(refresh[r]))
  /\ UNCHANGED <<rows, price_baselines, jobs, worker, enabled, alerted>>

-----------------------------------------------------------------------------
WorkerStep ==
  \/ \E i \in Ids : GetListing(i)
  \/ StoreExtraction \/ WorkerGetBaseline \/ WorkerUpdateScore \/ WorkerEvaluate

RescoreStep(r) ==
  BeginRescore(r) \/ NextPage(r) \/ GetBaseline(r) \/ UpdateScore(r) \/ evaluateAlertsForListing(r)

NextDeals ==
  \/ \E i \in Ids, offer \in Offers : Ingest(i, offer)
  \/ \E i \in Ids : Age(i)
  \/ SetWatchEnabled \/ WorkerStep \/ WorkerFails
  \/ \E r \in Refreshers : RescoreStep(r) \/ RescoreFails(r)

(* Workers loop until shutdown and the refresh is a cron job.  Nobody is     *)
(* obliged to call the rescore endpoint.                                     *)
SpecDeals == InitDeals /\ [][NextDeals]_dealVars /\ WF_dealVars(WorkerStep) /\ WF_dealVars(RescoreStep("cron"))

-----------------------------------------------------------------------------
(* A cheaper listing never scores lower, whatever percentiles the baseline   *)
(* has: the pieces of priceScore (scorer.go) fall and meet, also where       *)
(* percentiles coincide. They are linear, so the prices next to each         *)
(* percentile decide.                                                        *)
MonotoneInPrice ==
  price_baselines # NoBaseline =>
    \A k \in {"p10", "p25", "p50", "p75", "p90"}, step \in {-1, 0} :
      LET p == price_baselines[k] + step
          s == priceScore(p, price_baselines)
          t == priceScore(p + 1, price_baselines)
      IN  s.n * t.d >= t.n * s.d

(* Once nothing changes, every stored score becomes, and stays, the score of *)
(* what is stored: the writes of stale snapshots by workers, refreshes and   *)
(* rescores are all overtaken by a later refresh.                            *)
ScoresSettle ==
  <>[](\A i \in DOMAIN rows : rows[i].keyed => rows[i].score = ScoreOf(i, rows[i], price_baselines))

Deal(i) ==
  /\ enabled /\ i \in DOMAIN rows /\ rows[i].keyed
  /\ ScoreOf(i, rows[i], price_baselines) >= Threshold /\ Matches(rows[i])

(* A listing that stays a deal is alerted of, even if it became one only by  *)
(* a change of the baseline or if its worker evaluated it too early.         *)
DealEventuallyAlerted == \A i \in Ids : (<>[]Deal(i)) => <>(i \in alerted)

=============================================================================
