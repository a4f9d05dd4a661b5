------------------------- MODULE ExtractionQueueProofs -------------------------
(***************************************************************************)
(* Theorems about ExtractionQueue, for every number of listings, pods,     *)
(* workers and ingesters and every bound.                                  *)
(*                                                                         *)
(* The argument: a step does one of three things to the table, it leaves   *)
(* it alone, appends an unclaimed row of a listing without an open row, or *)
(* rewrites one row without changing its listing. The lemmas below say     *)
(* what each of them preserves; the rest is one case per action. The last  *)
(* part maps the pipeline to ListingRefresh.                               *)
(***************************************************************************)
EXTENDS ExtractionQueue, TLAPS

\* Appending a row keeps the table a table and leaves the other rows alone.
LEMMA AppendRow ==
    ASSUME NEW q \in Seq(Row), NEW r \in Row
    PROVE  /\ Append(q, r) \in Seq(Row)
           /\ DOMAIN Append(q, r) = DOMAIN q \cup {Len(q) + 1}
           /\ Len(q) + 1 \notin DOMAIN q
           /\ \A i \in DOMAIN q : Append(q, r)[i] = q[i]
           /\ Append(q, r)[Len(q) + 1] = r
  OBVIOUS

\* Rewriting one row keeps the table a table and leaves the other rows alone.
LEMMA ReplaceRow ==
    ASSUME NEW q \in Seq(Row), NEW i \in DOMAIN q, NEW r \in Row
    PROVE  /\ [q EXCEPT ![i] = r] \in Seq(Row)
           /\ DOMAIN [q EXCEPT ![i] = r] = DOMAIN q
           /\ [q EXCEPT ![i] = r][i] = r
           /\ \A k \in DOMAIN q : k # i => [q EXCEPT ![i] = r][k] = q[k]
  OBVIOUS

\* A row of the table is a row, and an index of the table a positive number.
LEMMA RowOf ==
    ASSUME NEW q \in Seq(Row), NEW i \in DOMAIN q
    PROVE  q[i] \in Row /\ i \in Nat /\ i > 0
  OBVIOUS

\* A call that fails or succeeds keeps the fault counter in its range.
LEMMA FaultsBounded ==
    ASSUME faults \in 0..MaxFaults,
           \/ Glitch
           \/ UNCHANGED faults
    PROVE  faults' \in 0..MaxFaults
  BY QueueConstants DEF Glitch

-----------------------------------------------------------------------------
\* What the two UPDATE statements of the queue do to one row.
LEMMA RowUpdates ==
    ASSUME NEW r \in Row
    PROVE  /\ \A w \in Workers, n \in Nat :
                 [r EXCEPT !.claimedBy = w, !.attempts = n] \in Row
           /\ \A o \in {"ok", "error"} : [r EXCEPT !.outcome = o] \in Row
  BY DEF Row

\* Claiming a row: Dequeue, with its answer received or lost.
LEMMA ClaimRow ==
    ASSUME IInv, NEW w \in Workers, NEW i \in Claimable, Claim(i, w)
    PROVE  /\ i \in DOMAIN queue /\ Open(queue[i]) /\ queue[i].claimedBy = None
           /\ queue' \in Seq(Row)
           /\ DOMAIN queue' = DOMAIN queue
           /\ \A k \in DOMAIN queue : k # i => queue'[k] = queue[k]
           /\ queue'[i].listing = queue[i].listing
           /\ queue'[i].outcome = queue[i].outcome
           /\ queue'[i].wanted = queue[i].wanted
           /\ queue'[i].claimedBy = w
           /\ queue'[i].attempts = 1
<1> DEFINE r == [queue[i] EXCEPT !.claimedBy = w, !.attempts = @ + 1]
<1>1. i \in DOMAIN queue /\ Open(queue[i]) /\ queue[i].claimedBy = None
  BY DEF Claimable
<1>2. queue \in Seq(Row) /\ queue[i] \in Row
  BY <1>1, RowOf DEF IInv, TypeOK
<1>3. queue[i].attempts = 0
  BY <1>1 DEF IInv, ClaimedOnce
<1>4. r \in Row /\ r.attempts = 1 /\ r.claimedBy = w
      /\ r.listing = queue[i].listing /\ r.outcome = queue[i].outcome
      /\ r.wanted = queue[i].wanted
  <2>1. queue[i].attempts + 1 = 1
    BY <1>3
  <2>2. r = [queue[i] EXCEPT !.claimedBy = w, !.attempts = 1]
    BY <2>1
  <2>3. r \in Row
    BY <2>2, <1>2, RowUpdates
  <2> QED  BY <2>2, <2>3, <1>2 DEF Row
<1>5. queue' = [queue EXCEPT ![i] = r]
  BY <1>1, <1>2 DEF Claim
<1> HIDE DEF r
<1> QED  BY <1>1, <1>2, <1>4, <1>5, ReplaceRow

\* Completing a row: what CompleteJob writes.
LEMMA FinishRow ==
    ASSUME IInv, NEW i \in DOMAIN queue, NEW o \in {"ok", "error"},
           queue' = [queue EXCEPT ![i].outcome = o]
    PROVE  /\ queue' \in Seq(Row)
           /\ DOMAIN queue' = DOMAIN queue
           /\ \A k \in DOMAIN queue : k # i => queue'[k] = queue[k]
           /\ queue'[i].listing = queue[i].listing
           /\ queue'[i].outcome = o
           /\ queue'[i].wanted = queue[i].wanted
           /\ queue'[i].claimedBy = queue[i].claimedBy
           /\ queue'[i].attempts = queue[i].attempts
<1> DEFINE r == [queue[i] EXCEPT !.outcome = o]
<1>2. queue \in Seq(Row) /\ queue[i] \in Row
  BY RowOf DEF IInv, TypeOK
<1>4. r \in Row /\ r.attempts = queue[i].attempts /\ r.claimedBy = queue[i].claimedBy
      /\ r.listing = queue[i].listing /\ r.outcome = o
      /\ r.wanted = queue[i].wanted
  BY <1>2 DEF Row
<1>5. queue' = [queue EXCEPT ![i] = r]
  BY <1>2
<1> HIDE DEF r
<1>6. /\ [queue EXCEPT ![i] = r] \in Seq(Row)
      /\ DOMAIN [queue EXCEPT ![i] = r] = DOMAIN queue
      /\ [queue EXCEPT ![i] = r][i] = r
      /\ \A k \in DOMAIN queue : k # i => [queue EXCEPT ![i] = r][k] = queue[k]
  BY <1>2, <1>4, ReplaceRow
<1> QED  BY <1>4, <1>5, <1>6, Zenon

\* Enqueueing: the table is unchanged, or has one new unclaimed row of a
\* listing that had no open row.
LEMMA EnqueueRow ==
    ASSUME IInv, NEW l \in Listings, NEW prio \in {0, 1}, EnqueueExtraction(l, prio)
    PROVE  \/ queue' = queue
           \/ /\ ~HasOpenRow(l)
              /\ queue' \in Seq(Row)
              /\ DOMAIN queue' = DOMAIN queue \cup {Len(queue) + 1}
              /\ Len(queue) + 1 \notin DOMAIN queue
              /\ \A i \in DOMAIN queue : queue'[i] = queue[i]
              /\ queue'[Len(queue) + 1] = NewRow(l, prio)
<1>1. queue \in Seq(Row)
  BY DEF IInv, TypeOK
<1>2. NewRow(l, prio) \in Row
  BY DEF NewRow, Row, IInv, TypeOK
<1> QED  BY <1>1, <1>2, AppendRow DEF EnqueueExtraction, Enqueued

\* A row that appears unclaimed for a listing without an open row disturbs
\* nothing; this is what EnqueueNew and RunReExtraction do to the invariant.
LEMMA EnqueueKeeps ==
    ASSUME IInv, NEW l \in Listings, NEW prio \in {0, 1}, EnqueueExtraction(l, prio),
           UNCHANGED <<listingVars, workerVars, ctx, faults>>,
           ingesting' \in [Ingesters -> Listings \cup {None}]
    PROVE  IInv'
<1>1. CASE queue' = queue
  BY <1>1 DEF IInv, TypeOK, OneOpenRowPerListing, ClaimedOnce, VersionsOrdered,
     SuccessCoversRequest, listingVars, workerVars, Busy, JobListing, Open
<1>2. CASE queue' # queue
  <2> DEFINE n == Len(queue) + 1
  <2>1. /\ ~HasOpenRow(l)
        /\ queue' \in Seq(Row)
        /\ DOMAIN queue' = DOMAIN queue \cup {n}
        /\ n \notin DOMAIN queue
        /\ \A i \in DOMAIN queue : queue'[i] = queue[i]
        /\ queue'[n] = NewRow(l, prio)
    BY <1>2, EnqueueRow
  <2> HIDE DEF n
  <2>2. /\ queue'[n].listing = l /\ queue'[n].claimedBy = None
        /\ queue'[n].attempts = 0 /\ queue'[n].outcome = "open"
        /\ queue'[n].wanted = title[l]
    BY <2>1 DEF NewRow
  <2>3. TypeOK'
    BY <2>1 DEF IInv, TypeOK, listingVars, workerVars
  <2>4. OneOpenRowPerListing'
    BY <2>1, <2>2 DEF IInv, OneOpenRowPerListing, HasOpenRow, Open
  <2>5. ClaimedOnce'
    BY <2>1, <2>2 DEF IInv, ClaimedOnce, workerVars, Busy, Open
  <2>6. \A w \in Workers : Busy(w) => job[w] \in DOMAIN queue
    BY DEF IInv, ClaimedOnce
  <2>7. VersionsOrdered'
    <3>1. title[l] \in Nat
      BY QueueConstants DEF IInv, TypeOK, Version
    <3>2. \A w \in Workers : pc[w] \in {"extract", "update", "score", "evaluate",
             "complete"} => queue'[job[w]] = queue[job[w]]
      BY <2>1, <2>6 DEF Busy
    <3> QED
      BY <2>1, <2>2, <3>1, <3>2 DEF IInv, VersionsOrdered, JobListing, listingVars,
         workerVars
  <2>8. SuccessCoversRequest'
    BY <2>1, <2>2 DEF IInv, SuccessCoversRequest, listingVars
  <2> QED  BY <2>3, <2>4, <2>5, <2>7, <2>8 DEF IInv
<1> QED  BY <1>1, <1>2

\* A claim on an unclaimed row, by a worker that is at the top of its loop and
\* either starts to work on the row or never learns of it.
LEMMA ClaimKeeps ==
    ASSUME IInv, NEW w \in Workers, NEW i \in Claimable, Claim(i, w), pc[w] = "loop",
           UNCHANGED <<listingVars, ingesting, seen, ctx>>,
           faults' \in 0..MaxFaults,
           \/ job' = [job EXCEPT ![w] = i] /\ Goto(w, "fetch")
           \/ UNCHANGED <<job, pc>>
    PROVE  IInv'
<1>1. /\ i \in DOMAIN queue /\ Open(queue[i]) /\ queue[i].claimedBy = None
      /\ queue' \in Seq(Row)
      /\ DOMAIN queue' = DOMAIN queue
      /\ \A k \in DOMAIN queue : k # i => queue'[k] = queue[k]
      /\ queue'[i].listing = queue[i].listing
      /\ queue'[i].outcome = queue[i].outcome
      /\ queue'[i].wanted = queue[i].wanted
      /\ queue'[i].claimedBy = w
      /\ queue'[i].attempts = 1
  BY ClaimRow
<1>2. i \in Nat
  BY <1>1, RowOf DEF IInv, TypeOK
<1>3. pc \in [Workers -> Stages] /\ job \in [Workers -> Nat]
  BY DEF IInv, TypeOK
<1>4. TypeOK'
  <2>1. pc' \in [Workers -> Stages] /\ job' \in [Workers -> Nat]
    BY <1>2, <1>3 DEF Goto, Stages
  <2> QED  BY <1>1, <2>1 DEF IInv, TypeOK, listingVars
<1>5. /\ \A k \in DOMAIN queue : queue'[k].listing = queue[k].listing
      /\ \A k \in DOMAIN queue : queue'[k].outcome = queue[k].outcome
      /\ \A k \in DOMAIN queue : queue'[k].wanted = queue[k].wanted
  BY <1>1
<1>6. OneOpenRowPerListing'
  BY <1>1, <1>5 DEF IInv, OneOpenRowPerListing, Open
<1>7. None # w
  BY QueueConstants
<1>8. /\ \A v \in Workers : Busy(v)' => (v = w /\ job'[v] = i) \/ (Busy(v) /\ job'[v] = job[v])
      /\ \A v \in Workers : v # w => pc'[v] = pc[v] /\ job'[v] = job[v]
      /\ pc'[w] \in {"fetch", "loop"}
  BY <1>3 DEF Busy, Goto
<1>9. \A v \in Workers : Busy(v) =>
        job[v] \in DOMAIN queue /\ job[v] # i
  BY <1>1, QueueConstants DEF IInv, ClaimedOnce
<1>10. ClaimedOnce'
  BY <1>1, <1>5, <1>7, <1>8, <1>9 DEF IInv, ClaimedOnce, Open
<1>11. VersionsOrdered'
  <2>1. \A v \in Workers : pc'[v] \in {"extract", "update", "score", "evaluate",
             "complete"} => pc'[v] = pc[v] /\ job'[v] = job[v] /\ job[v] \in DOMAIN queue
    BY <1>8, <1>9 DEF Busy
  <2> QED  BY <1>1, <1>5, <2>1 DEF IInv, VersionsOrdered, JobListing, listingVars
<1>12. SuccessCoversRequest'
  BY <1>1, <1>5 DEF IInv, SuccessCoversRequest, listingVars
<1> QED  BY <1>4, <1>6, <1>10, <1>11, <1>12 DEF IInv

-----------------------------------------------------------------------------
\* Two busy workers hold different open rows, hence different listings.
LEMMA Exclusive == IInv => ListingExclusive
  BY DEF IInv, OneOpenRowPerListing, ClaimedOnce, ListingExclusive, JobListing

\* What a busy worker works on exists.
LEMMA BusyListing ==
    ASSUME IInv, NEW w \in Workers, Busy(w)
    PROVE  /\ job[w] \in DOMAIN queue
           /\ queue[job[w]] \in Row
           /\ JobListing(w) \in Listings
<1>1. job[w] \in DOMAIN queue /\ queue \in Seq(Row)
  BY DEF IInv, ClaimedOnce, TypeOK
<1> QED  BY <1>1, RowOf DEF JobListing, Row

\* The parts of the invariant about the table alone, for a step of worker w
\* that leaves the table and the row w works on as they are.
LEMMA SameTable ==
    ASSUME IInv, NEW w \in Workers, Busy(w), UNCHANGED <<queue, job>>,
           NEW s \in Stages, Goto(w, s)
    PROVE  /\ OneOpenRowPerListing'
           /\ ClaimedOnce'
           /\ pc' \in [Workers -> Stages]
           /\ pc'[w] = s
           /\ \A v \in Workers : v # w => pc'[v] = pc[v]
<1>1. pc \in [Workers -> Stages]
  BY DEF IInv, TypeOK
<1>2. pc' \in [Workers -> Stages] /\ pc'[w] = s
      /\ \A v \in Workers : v # w => pc'[v] = pc[v]
  BY <1>1 DEF Goto
<1>3. \A v \in Workers : Busy(v)' => Busy(v)
  BY <1>2 DEF Busy
<1>4. OneOpenRowPerListing'
  BY DEF IInv, OneOpenRowPerListing, Open
<1>5. ClaimedOnce'
  BY <1>3 DEF IInv, ClaimedOnce, Open
<1> QED  BY <1>2, <1>4, <1>5

\* GetListingByID: the worker takes over the current title, which is at least
\* as new as the row asks for and as what is stored; or the job fails.
LEMMA FetchKeeps ==
    ASSUME IInv, NEW w \in Workers, GetListingByID(w)
    PROVE  IInv'
<1> DEFINE l == JobListing(w)
<1>1. Busy(w)
  BY DEF GetListingByID, Busy
<1>2. PICK s \in Stages : Goto(w, s)
  BY DEF GetListingByID, Stages
<1>3. /\ OneOpenRowPerListing' /\ ClaimedOnce' /\ pc' \in [Workers -> Stages]
      /\ \A v \in Workers : v # w => pc'[v] = pc[v]
  BY <1>1, <1>2, SameTable DEF GetListingByID
<1>4. job[w] \in DOMAIN queue /\ l \in Listings
  BY <1>1, BusyListing
<1>5. title[l] \in Version /\ seen \in [Workers -> Version] /\ faults \in 0..MaxFaults
  BY <1>4 DEF IInv, TypeOK
<1>6. \/ seen'[w] = title[l] /\ pc'[w] = "extract"
      \/ seen'[w] = seen[w] /\ pc'[w] = "fail"
  BY <1>5 DEF GetListingByID, Goto, IInv, TypeOK
<1>7. seen' \in [Workers -> Version] /\ \A v \in Workers : v # w => seen'[v] = seen[v]
  BY <1>5 DEF GetListingByID
<1>8. faults' \in 0..MaxFaults
  BY <1>5, FaultsBounded DEF GetListingByID, CallSucceeds, CallFails
<1>9. TypeOK'
  BY <1>3, <1>7, <1>8 DEF IInv, TypeOK, GetListingByID, listingVars
<1>10. VersionsOrdered'
  <2>1. queue[job[w]].wanted <= title[l] /\ extracted[l] <= title[l]
    BY <1>4 DEF IInv, VersionsOrdered, JobListing
  <2>2. title[l] <= title[l]
    BY <1>5, QueueConstants DEF Version
  <2> QED
    BY <1>3, <1>6, <1>7, <2>1, <2>2 DEF IInv, VersionsOrdered, JobListing,
       GetListingByID, listingVars
<1>11. SuccessCoversRequest'
  BY DEF IInv, SuccessCoversRequest, GetListingByID, listingVars
<1> QED  BY <1>3, <1>9, <1>10, <1>11 DEF IInv

\* ClassifyAndExtract moves the worker on and writes nothing.
LEMMA ExtractKeeps ==
    ASSUME IInv, NEW w \in Workers, ClassifyAndExtract(w)
    PROVE  IInv'
<1>1. Busy(w)
  BY DEF ClassifyAndExtract, Busy
<1>2. PICK s \in {"update", "fail"} : Goto(w, s)
  BY DEF ClassifyAndExtract
<1>3. /\ OneOpenRowPerListing' /\ ClaimedOnce' /\ pc' \in [Workers -> Stages]
      /\ pc'[w] = s /\ \A v \in Workers : v # w => pc'[v] = pc[v]
  BY <1>1, <1>2, SameTable DEF ClassifyAndExtract, Stages
<1>4. TypeOK'
  BY <1>3 DEF IInv, TypeOK, ClassifyAndExtract, listingVars
<1>5. VersionsOrdered'
  BY <1>2, <1>3 DEF IInv, VersionsOrdered, JobListing, ClassifyAndExtract, listingVars
<1>6. SuccessCoversRequest'
  BY DEF IInv, SuccessCoversRequest, ClassifyAndExtract, listingVars
<1> QED  BY <1>3, <1>4, <1>5, <1>6 DEF IInv

\* UpdateListingExtraction stores what the worker read; its claim excludes any
\* other worker of the listing, so nothing newer is overwritten.
LEMMA UpdateKeeps ==
    ASSUME IInv, NEW w \in Workers, UpdateListingExtraction(w)
    PROVE  IInv' /\ \A l \in Listings : extracted'[l] >= extracted[l]
<1> DEFINE m == JobListing(w)
<1>1. Busy(w)
  BY DEF UpdateListingExtraction, Busy
<1>2. PICK s \in {"score", "fail"} : Goto(w, s)
  BY DEF UpdateListingExtraction
<1>3. /\ OneOpenRowPerListing' /\ ClaimedOnce' /\ pc' \in [Workers -> Stages]
      /\ pc'[w] = s /\ \A v \in Workers : v # w => pc'[v] = pc[v]
  BY <1>1, <1>2, SameTable DEF UpdateListingExtraction, Stages
<1>4. job[w] \in DOMAIN queue /\ m \in Listings
  BY <1>1, BusyListing
<1>5. /\ extracted \in [Listings -> Version] /\ seen \in [Workers -> Version]
      /\ scored \in [Listings -> Version] /\ title \in [Listings -> Version]
      /\ faults \in 0..MaxFaults
  BY DEF IInv, TypeOK
<1>6. /\ s = "score" => extracted'[m] = seen[w]
      /\ extracted'[m] \in {extracted[m], seen[w]}
      /\ \A l \in Listings : l # m => extracted'[l] = extracted[l]
      /\ extracted' \in [Listings -> Version]
  BY <1>2, <1>4, <1>5, <1>3 DEF UpdateListingExtraction, Extraction, Goto, IInv, TypeOK
<1>7. faults' \in 0..MaxFaults
  BY <1>5, FaultsBounded DEF UpdateListingExtraction, CallSucceeds, CallFails
<1>8. TypeOK'
  BY <1>3, <1>6, <1>7 DEF IInv, TypeOK, UpdateListingExtraction
<1>9. extracted[m] <= seen[w] /\ seen[w] <= title[m] /\ queue[job[w]].wanted <= seen[w]
  BY DEF IInv, VersionsOrdered, UpdateListingExtraction
<1>10. \A l \in Listings : extracted'[l] >= extracted[l] /\ extracted'[l] <= title[l]
  BY <1>4, <1>5, <1>6, <1>9, QueueConstants DEF Version, IInv, VersionsOrdered
<1>11. \A v \in Workers : v # w /\ Busy(v) => JobListing(v) # m /\ JobListing(v) \in Listings
  BY <1>1, Exclusive, BusyListing DEF ListingExclusive
<1>12. VersionsOrdered'
  <2>1. \A l \in Listings : scored'[l] <= extracted'[l] /\ extracted'[l] <= title'[l]
    BY <1>5, <1>6, <1>10, QueueConstants DEF Version, IInv, VersionsOrdered,
       UpdateListingExtraction
  <2>2. \A v \in Workers : v # w /\ Busy(v) =>
            extracted'[JobListing(v)] = extracted[JobListing(v)]
    BY <1>6, <1>11
  <2>3. \A v \in Workers : JobListing(v)' = JobListing(v)
    BY DEF JobListing, UpdateListingExtraction
  <2>4. extracted'[m] <= seen[w]
    BY <1>4, <1>5, <1>6, <1>9, QueueConstants DEF Version
  <2>5. ASSUME NEW v \in Workers, v # w,
               pc'[v] \in {"extract", "update", "score", "evaluate", "complete"}
        PROVE  /\ queue'[job'[v]].wanted <= seen'[v]
               /\ extracted'[JobListing(v)'] <= seen'[v]
               /\ seen'[v] <= title'[JobListing(v)']
               /\ pc'[v] \in {"score", "evaluate", "complete"} =>
                     extracted'[JobListing(v)'] = seen'[v]
    <3>1. Busy(v) /\ pc'[v] = pc[v]
      BY <2>5, <1>3 DEF Busy
    <3> QED
      BY <2>2, <2>3, <2>5, <3>1 DEF IInv, VersionsOrdered, UpdateListingExtraction
  <2> QED
    BY <1>2, <1>3, <1>6, <1>9, <2>1, <2>3, <2>4, <2>5 DEF IInv, VersionsOrdered,
       UpdateListingExtraction
<1>13. SuccessCoversRequest'
  <2>1. SUFFICES ASSUME NEW i \in DOMAIN queue, queue[i].outcome = "ok"
                 PROVE  extracted'[queue[i].listing] >= queue[i].wanted
    BY DEF SuccessCoversRequest, UpdateListingExtraction
  <2>2. queue[i] \in Row
    BY RowOf DEF IInv, TypeOK
  <2>3. extracted[queue[i].listing] >= queue[i].wanted
    BY <2>1 DEF IInv, SuccessCoversRequest
  <2> QED  BY <2>2, <2>3, <1>10, <1>5, <1>6, QueueConstants DEF Row, Version
<1> QED  BY <1>3, <1>8, <1>10, <1>12, <1>13 DEF IInv

\* ScoreListing scores what has just been stored.
LEMMA ScoreKeeps ==
    ASSUME IInv, NEW w \in Workers, ScoreListing(w)
    PROVE  IInv' /\ \A l \in Listings : scored'[l] >= scored[l]
<1> DEFINE m == JobListing(w)
<1>1. Busy(w)
  BY DEF ScoreListing, Busy
<1>2. PICK s \in {"evaluate", "complete"} : Goto(w, s)
  BY DEF ScoreListing
<1>3. /\ OneOpenRowPerListing' /\ ClaimedOnce' /\ pc' \in [Workers -> Stages]
      /\ pc'[w] = s /\ \A v \in Workers : v # w => pc'[v] = pc[v]
  BY <1>1, <1>2, SameTable DEF ScoreListing, Stages
<1>4. m \in Listings
  BY <1>1, BusyListing
<1>5. /\ scored \in [Listings -> Version] /\ seen \in [Workers -> Version]
      /\ extracted \in [Listings -> Version] /\ faults \in 0..MaxFaults
  BY DEF IInv, TypeOK
<1>6. /\ scored'[m] \in {scored[m], seen[w]}
      /\ \A l \in Listings : l # m => scored'[l] = scored[l]
      /\ scored' \in [Listings -> Version]
  BY <1>4, <1>5 DEF ScoreListing
<1>7. faults' \in 0..MaxFaults
  BY <1>5, FaultsBounded DEF ScoreListing, CallSucceeds, CallFails
<1>8. TypeOK'
  BY <1>3, <1>6, <1>7 DEF IInv, TypeOK, ScoreListing
<1>9. extracted[m] = seen[w]
  BY DEF IInv, VersionsOrdered, ScoreListing
<1>10. \A l \in Listings : scored'[l] >= scored[l] /\ scored'[l] <= extracted[l]
  BY <1>4, <1>5, <1>6, <1>9, QueueConstants DEF Version, IInv, VersionsOrdered
<1>11. VersionsOrdered'
  BY <1>2, <1>3, <1>10 DEF IInv, VersionsOrdered, JobListing, ScoreListing
<1>12. SuccessCoversRequest'
  BY DEF IInv, SuccessCoversRequest, ScoreListing
<1> QED  BY <1>3, <1>8, <1>10, <1>11, <1>12 DEF IInv

\* EvaluateAlertsForListing writes history only.
LEMMA EvaluateKeeps ==
    ASSUME IInv, NEW w \in Workers, EvaluateAlertsForListing(w)
    PROVE  IInv'
<1>1. Busy(w)
  BY DEF EvaluateAlertsForListing, Busy
<1>2. Goto(w, "complete")
  BY DEF EvaluateAlertsForListing
<1>3. /\ OneOpenRowPerListing' /\ ClaimedOnce' /\ pc' \in [Workers -> Stages]
      /\ pc'[w] = "complete" /\ \A v \in Workers : v # w => pc'[v] = pc[v]
  BY <1>1, <1>2, SameTable DEF EvaluateAlertsForListing, Stages
<1>4. JobListing(w) \in Listings
  BY <1>1, BusyListing
<1>5. /\ evaluated \in [Listings -> Version] /\ seen \in [Workers -> Version]
      /\ faults \in 0..MaxFaults
  BY DEF IInv, TypeOK
<1>6. evaluated' \in [Listings -> Version]
  BY <1>4, <1>5 DEF EvaluateAlertsForListing
<1>7. faults' \in 0..MaxFaults
  BY <1>5, FaultsBounded DEF EvaluateAlertsForListing, CallSucceeds, CallFails
<1>8. TypeOK'
  BY <1>3, <1>6, <1>7 DEF IInv, TypeOK, EvaluateAlertsForListing
<1>9. VersionsOrdered'
  BY <1>3 DEF IInv, VersionsOrdered, JobListing, EvaluateAlertsForListing
<1>10. SuccessCoversRequest'
  BY DEF IInv, SuccessCoversRequest, EvaluateAlertsForListing
<1> QED  BY <1>3, <1>8, <1>9, <1>10 DEF IInv

\* CompleteExtractionJob closes the worker's own row; on the success path the
\* extraction it asked for has been stored.
LEMMA CompleteKeeps ==
    ASSUME IInv, NEW w \in Workers, CompleteJob(w)
    PROVE  IInv'
<1> DEFINE i == job[w]
           m == JobListing(w)
<1>1. Busy(w)
  BY DEF CompleteJob, Busy
<1>2. i \in DOMAIN queue /\ m \in Listings /\ queue[i] \in Row
  BY <1>1, BusyListing
<1>3. /\ pc \in [Workers -> Stages] /\ job \in [Workers -> Nat]
      /\ seen \in [Workers -> Version] /\ faults \in 0..MaxFaults
      /\ queue \in Seq(Row)
  BY DEF IInv, TypeOK
<1>4. /\ pc' \in [Workers -> Stages] /\ job' \in [Workers -> Nat]
      /\ seen' \in [Workers -> Version]
      /\ pc'[w] = "loop"
      /\ \A v \in Workers : v # w => pc'[v] = pc[v] /\ job'[v] = job[v]
                                    /\ seen'[v] = seen[v]
  BY <1>3, QueueConstants DEF CompleteJob, Goto, Stages, Version
<1>5. faults' \in 0..MaxFaults
  BY <1>3, FaultsBounded DEF CompleteJob, CallSucceeds, CallFails
<1>6. \A v \in Workers : v # w /\ Busy(v) => job[v] \in DOMAIN queue /\ job[v] # i
  BY <1>1, <1>2, Exclusive, BusyListing DEF ListingExclusive, JobListing
<1>7. /\ queue' \in Seq(Row)
      /\ DOMAIN queue' = DOMAIN queue
      /\ \A k \in DOMAIN queue : k # i => queue'[k] = queue[k]
      /\ queue'[i].listing = queue[i].listing
      /\ queue'[i].wanted = queue[i].wanted
      /\ queue'[i].claimedBy = queue[i].claimedBy
      /\ queue'[i].attempts = queue[i].attempts
      /\ \/ queue'[i].outcome = "ok" /\ pc[w] = "complete"
         \/ queue'[i].outcome = "error"
         \/ queue'[i].outcome = queue[i].outcome
  <2>1. CASE UNCHANGED queue
    BY <1>3, <2>1
  <2>2. CASE queue' = [queue EXCEPT ![i].outcome =
                          IF pc[w] = "complete" THEN "ok" ELSE "error"]
    <3> DEFINE o == IF pc[w] = "complete" THEN "ok" ELSE "error"
    <3>1. o \in {"ok", "error"} /\ (o = "ok" => pc[w] = "complete")
      OBVIOUS
    <3>2. queue' = [queue EXCEPT ![i].outcome = o]
      BY <2>2
    <3> HIDE DEF o, i
    <3> QED  BY <1>2, <3>1, <3>2, FinishRow
  <2> QED  BY <2>1, <2>2 DEF CompleteJob
<1>8. TypeOK'
  BY <1>4, <1>5, <1>7 DEF IInv, TypeOK, CompleteJob, listingVars
<1>9. /\ \A k \in DOMAIN queue : queue'[k].listing = queue[k].listing
      /\ \A k \in DOMAIN queue : queue'[k].wanted = queue[k].wanted
      /\ \A k \in DOMAIN queue : queue'[k].claimedBy = queue[k].claimedBy
      /\ \A k \in DOMAIN queue : queue'[k].attempts = queue[k].attempts
      /\ \A k \in DOMAIN queue : queue'[k].outcome = "open" => queue[k].outcome = "open"
  BY <1>2, <1>7
<1>10. OneOpenRowPerListing'
  BY <1>7, <1>9 DEF IInv, OneOpenRowPerListing, Open
<1>11. ClaimedOnce'
  <2>1. \A v \in Workers : Busy(v)' =>
            v # w /\ Busy(v) /\ job'[v] = job[v] /\ queue'[job[v]] = queue[job[v]]
    BY <1>4, <1>6, <1>7 DEF Busy
  <2> HIDE DEF i
  <2> QED  BY <1>7, <1>9, <2>1 DEF IInv, ClaimedOnce, Open
<1>12. VersionsOrdered'
  <2>1. \A v \in Workers : pc'[v] \in {"extract", "update", "score", "evaluate",
            "complete"} => /\ v # w /\ pc'[v] = pc[v] /\ job'[v] = job[v]
                           /\ seen'[v] = seen[v] /\ job[v] \in DOMAIN queue
    BY <1>4, <1>6 DEF Busy
  <2> QED
    BY <1>7, <1>9, <2>1 DEF IInv, VersionsOrdered, JobListing, CompleteJob, listingVars
<1>13. SuccessCoversRequest'
  <2>1. pc[w] = "complete" => extracted[m] = seen[w] /\ queue[i].wanted <= seen[w]
    BY DEF IInv, VersionsOrdered
  <2>2. queue[i].wanted \in Nat /\ extracted[m] \in Nat /\ m = queue[i].listing
    BY <1>2, QueueConstants DEF IInv, TypeOK, Version, Row, JobListing
  <2>3. pc[w] = "complete" => extracted[queue[i].listing] >= queue[i].wanted
    BY <2>1, <2>2
  <2>4. UNCHANGED extracted
    BY DEF CompleteJob, listingVars
  <2> HIDE DEF i
  <2> QED  BY <1>7, <1>9, <2>3, <2>4 DEF IInv, SuccessCoversRequest
<1> QED  BY <1>8, <1>10, <1>11, <1>12, <1>13 DEF IInv

-----------------------------------------------------------------------------
LEMMA UpsertKeeps ==
    ASSUME IInv, NEW i \in Ingesters, NEW l \in Listings, UpsertListing(i, l)
    PROVE  IInv'
<1>1. /\ title \in [Listings -> Version] /\ extracted \in [Listings -> Version]
      /\ ingesting \in [Ingesters -> Listings \cup {None}]
      /\ seen \in [Workers -> Version] /\ queue \in Seq(Row)
  BY DEF IInv, TypeOK
<1>2. /\ title' \in [Listings -> Version]
      /\ \A k \in Listings : title'[k] >= title[k]
      /\ ingesting' \in [Ingesters -> Listings \cup {None}]
  BY <1>1, QueueConstants DEF UpsertListing, Version
<1>3. TypeOK'
  BY <1>2 DEF IInv, TypeOK, UpsertListing, workerVars
<1>4. OneOpenRowPerListing' /\ ClaimedOnce' /\ SuccessCoversRequest'
  BY DEF IInv, OneOpenRowPerListing, ClaimedOnce, SuccessCoversRequest, Busy, Open,
     UpsertListing, workerVars
<1>5. VersionsOrdered'
  <2>1. \A k \in Listings : scored'[k] <= extracted'[k] /\ extracted'[k] <= title'[k]
    BY <1>1, <1>2, QueueConstants DEF IInv, VersionsOrdered, UpsertListing, Version
  <2>2. \A k \in DOMAIN queue : queue[k].wanted <= title'[queue[k].listing]
    <3>1. SUFFICES ASSUME NEW k \in DOMAIN queue
                   PROVE  queue[k].wanted <= title'[queue[k].listing]
      OBVIOUS
    <3>2. queue[k].listing \in Listings /\ queue[k].wanted \in Version
      BY <1>1, RowOf DEF Row
    <3> QED  BY <1>1, <1>2, <3>2, QueueConstants DEF IInv, VersionsOrdered, Version
  <2>3. ASSUME NEW w \in Workers, Busy(w), seen[w] <= title[JobListing(w)]
        PROVE  seen[w] <= title'[JobListing(w)]
    BY <1>1, <1>2, <2>3, BusyListing, QueueConstants DEF Version
  <2> QED
    BY <2>1, <2>2, <2>3 DEF IInv, VersionsOrdered, JobListing, UpsertListing,
       workerVars, Busy
<1> QED  BY <1>3, <1>4, <1>5 DEF IInv

\* The second half of processListing: the enqueue, or its loss.
LEMMA IngestKeeps ==
    ASSUME IInv, NEW i \in Ingesters, EnqueueNew(i) \/ EnqueueLost(i)
    PROVE  IInv'
<1>1. ingesting \in [Ingesters -> Listings \cup {None}] /\ faults \in 0..MaxFaults
  BY DEF IInv, TypeOK
<1>2. ingesting' \in [Ingesters -> Listings \cup {None}]
  BY <1>1 DEF EnqueueNew, EnqueueLost
<1>3. CASE EnqueueNew(i)
  <2>1. ingesting[i] \in Listings
    BY <1>1, <1>3 DEF EnqueueNew
  <2> QED  BY <1>1, <1>2, <1>3, <2>1, EnqueueKeeps DEF EnqueueNew
<1>4. CASE EnqueueLost(i)
  <2>1. faults' \in 0..MaxFaults
    BY <1>1, <1>4, FaultsBounded DEF EnqueueLost
  <2> QED
    BY <1>2, <1>4, <2>1 DEF EnqueueLost, IInv, TypeOK, OneOpenRowPerListing,
       ClaimedOnce, VersionsOrdered, SuccessCoversRequest, listingVars, workerVars,
       Busy, JobListing, Open
<1> QED  BY <1>3, <1>4

\* A pod that stops or starts: its workers are no longer busy, or not yet.
LEMMA PodKeeps ==
    ASSUME IInv, NEW p \in Pods, Shutdown(p) \/ Exit(p) \/ Restart(p)
    PROVE  IInv'
<1>1. /\ ctx \in [Pods -> {"live", "cancelled", "down"}] /\ faults \in 0..MaxFaults
      /\ pc \in [Workers -> Stages] /\ job \in [Workers -> Nat]
      /\ seen \in [Workers -> Version]
  BY DEF IInv, TypeOK
<1>2. UNCHANGED <<queue, listingVars, ingesting>>
  BY DEF Shutdown, Exit, Restart
<1>3. faults' \in 0..MaxFaults
  BY <1>1, FaultsBounded DEF Shutdown, Exit, Restart
<1>4. ctx' \in [Pods -> {"live", "cancelled", "down"}]
  BY <1>1 DEF Shutdown, Exit, Restart
<1>5. /\ pc' \in [Workers -> Stages] /\ job' \in [Workers -> Nat]
      /\ seen' \in [Workers -> Version]
      /\ \A w \in Workers : Busy(w)' =>
            Busy(w) /\ pc'[w] = pc[w] /\ job'[w] = job[w] /\ seen'[w] = seen[w]
  BY <1>1, QueueConstants DEF Shutdown, Exit, Restart, Stages, Version, Busy, workerVars
<1>6. TypeOK'
  BY <1>2, <1>3, <1>4, <1>5 DEF IInv, TypeOK, listingVars
<1>7. OneOpenRowPerListing' /\ SuccessCoversRequest'
  BY <1>2 DEF IInv, OneOpenRowPerListing, SuccessCoversRequest, Open, listingVars
<1>8. ClaimedOnce'
  BY <1>2, <1>5 DEF IInv, ClaimedOnce, Open
<1>9. VersionsOrdered'
  <2>1. \A w \in Workers : pc'[w] \in {"extract", "update", "score", "evaluate",
            "complete"} => pc'[w] = pc[w] /\ job'[w] = job[w] /\ seen'[w] = seen[w]
    BY <1>5 DEF Busy
  <2> QED  BY <1>2, <2>1 DEF IInv, VersionsOrdered, JobListing, listingVars
<1> QED  BY <1>6, <1>7, <1>8, <1>9 DEF IInv

\* The empty tables satisfy the invariant.
LEMMA InitIInv == Init => IInv
<1> SUFFICES ASSUME Init PROVE IInv
  OBVIOUS
<1>1. TypeOK
  BY QueueConstants DEF Init, TypeOK, Version, Stages
<1>2. DOMAIN queue = {}
  BY DEF Init
<1> QED
  BY <1>1, <1>2 DEF Init, IInv, OneOpenRowPerListing, ClaimedOnce, VersionsOrdered,
     SuccessCoversRequest, Busy

\* Every step preserves the invariant: one case per action.
LEMMA NextIInv == IInv /\ [Next]_vars => IInv'
<1> SUFFICES ASSUME IInv, [Next]_vars PROVE IInv'
  OBVIOUS
<1>1. ASSUME NEW i \in Ingesters, NEW l \in Listings, UpsertListing(i, l) PROVE IInv'
  BY <1>1, UpsertKeeps
<1>2. ASSUME NEW i \in Ingesters, EnqueueNew(i) \/ EnqueueLost(i) PROVE IInv'
  BY <1>2, IngestKeeps
<1>3. ASSUME NEW l \in Listings, RunReExtraction(l) PROVE IInv'
  <2>1. ingesting' \in [Ingesters -> Listings \cup {None}]
    BY <1>3 DEF IInv, TypeOK, RunReExtraction
  <2> QED  BY <1>3, <2>1, EnqueueKeeps DEF RunReExtraction
<1>4. ASSUME NEW w \in Workers, DequeueExtractions(w) \/ DequeueAnswerLost(w)
      PROVE  IInv'
  <2>1. faults \in 0..MaxFaults
    BY DEF IInv, TypeOK
  <2>2. faults' \in 0..MaxFaults
    BY <1>4, <2>1, FaultsBounded DEF DequeueExtractions, DequeueAnswerLost, CallSucceeds
  <2>3. PICK i \in Claimable :
           /\ Claim(i, w)
           /\ \/ job' = [job EXCEPT ![w] = i] /\ Goto(w, "fetch")
              \/ UNCHANGED <<job, pc>>
    BY <1>4 DEF DequeueExtractions, DequeueAnswerLost, workerVars
  <2>4. pc[w] = "loop" /\ UNCHANGED <<listingVars, ingesting, seen, ctx>>
    BY <1>4 DEF DequeueExtractions, DequeueAnswerLost, workerVars
  <2> QED  BY <2>2, <2>3, <2>4, ClaimKeeps
<1>5. ASSUME NEW w \in Workers, WorkerReturns(w) PROVE IInv'
  <2>1. pc' \in [Workers -> Stages]
        /\ \A v \in Workers : Busy(v)' => Busy(v) /\ pc'[v] = pc[v]
    BY <1>5 DEF WorkerReturns, Goto, Stages, Busy, IInv, TypeOK
  <2>2. \A v \in Workers : pc'[v] \in {"extract", "update", "score", "evaluate",
            "complete"} => pc'[v] = pc[v]
    BY <2>1 DEF Busy
  <2>3. TypeOK'
    BY <1>5, <2>1 DEF WorkerReturns, IInv, TypeOK, listingVars
  <2>4. ClaimedOnce'
    BY <1>5, <2>1 DEF WorkerReturns, IInv, ClaimedOnce, Open
  <2>5. VersionsOrdered'
    BY <1>5, <2>2 DEF WorkerReturns, IInv, VersionsOrdered, JobListing, listingVars
  <2> QED
    BY <1>5, <2>3, <2>4, <2>5 DEF WorkerReturns, IInv, OneOpenRowPerListing, Open,
       SuccessCoversRequest, listingVars
<1>6. ASSUME NEW w \in Workers, WorkerStep(w) PROVE IInv'
  BY <1>4, <1>5, <1>6, FetchKeeps, ExtractKeeps, UpdateKeeps, ScoreKeeps, EvaluateKeeps,
     CompleteKeeps DEF WorkerStep
<1>7. ASSUME NEW p \in Pods, Shutdown(p) \/ Exit(p) \/ Restart(p) PROVE IInv'
  BY <1>7, PodKeeps
<1>8. CASE UNCHANGED vars
  BY <1>8 DEF vars, IInv, TypeOK, OneOpenRowPerListing, ClaimedOnce, VersionsOrdered,
     SuccessCoversRequest, listingVars, workerVars, Busy, JobListing, Open
<1> QED  BY <1>1, <1>2, <1>3, <1>4, <1>6, <1>7, <1>8 DEF Next

-----------------------------------------------------------------------------
\* The inductive invariant holds in every reachable state of the pipeline.
THEOREM QueueInvariant == Spec => []IInv
  BY InitIInv, NextIInv, PTL DEF Spec

\* Every variable of the pipeline keeps its type.
THEOREM TypeCorrect == Spec => []TypeOK
  BY QueueInvariant, PTL DEF IInv

\* No two workers process one listing at the same time, no row is handed out
\* twice, and completeJob only ever completes the worker's own open row.
THEOREM ExclusiveProcessing ==
    Spec => [](OneOpenRowPerListing /\ ListingExclusive /\ ClaimedOnce)
<1>1. IInv => OneOpenRowPerListing /\ ListingExclusive /\ ClaimedOnce
  BY Exclusive DEF IInv
<1> QED  BY <1>1, QueueInvariant, PTL

\* A row completed without an error has stored what it was enqueued for.
THEOREM SuccessIsCovered == Spec => []SuccessCoversRequest
  BY QueueInvariant, PTL DEF IInv

\* Stored extractions and scores never go back to an older title.
THEOREM StoredNeverRegresses == Spec => NoRegress
<1> DEFINE Mono == \A l \in Listings : extracted'[l] >= extracted[l]
                                      /\ scored'[l] >= scored[l]
<1>1. IInv /\ [Next]_vars => [Mono]_vars
  <2> SUFFICES ASSUME IInv, Next PROVE Mono
    BY DEF vars
  <2>1. \A l \in Listings : extracted[l] >= extracted[l] /\ scored[l] >= scored[l]
    BY QueueConstants DEF IInv, TypeOK, Version
  <2>2. ASSUME NEW w \in Workers, WorkerStep(w) PROVE Mono
    <3>1. CASE UpdateListingExtraction(w)
      BY <3>1, <2>1, UpdateKeeps DEF UpdateListingExtraction
    <3>2. CASE ScoreListing(w)
      BY <3>2, <2>1, ScoreKeeps DEF ScoreListing
    <3>3. CASE UNCHANGED <<extracted, scored>>
      BY <3>3, <2>1
    <3> QED
      BY <2>2, <3>1, <3>2, <3>3 DEF WorkerStep, DequeueExtractions, WorkerReturns,
         GetListingByID, ClassifyAndExtract, EvaluateAlertsForListing, CompleteJob,
         listingVars
  <2>3. CASE UNCHANGED <<extracted, scored>>
    BY <2>3, <2>1
  <2> QED
    BY <2>2, <2>3 DEF Next, UpsertListing, EnqueueNew, EnqueueLost, RunReExtraction,
       DequeueAnswerLost, Shutdown, Exit, Restart, listingVars
<1> QED  BY <1>1, QueueInvariant, PTL DEF Spec, NoRegress

-----------------------------------------------------------------------------
(* The pipeline implements ListingRefresh. Every action changes at most one *)
(* request and takes at most one in hand; IInv says whose, and that what    *)
(* the worker holds is what the request may have. Two facts are missing     *)
(* there: a worker that evaluates has just scored, and the rows are named   *)
(* in Ids.                                                                  *)
ScoreInHand == \A w \in Workers : pc[w] = "evaluate" => scored[JobListing(w)] = seen[w]

RefreshInv == IInv /\ ScoreInHand /\ DOMAIN queue \subseteq 1..MaxJobs

RefreshStep == [Refresh!RefreshNext]_(Refresh!refreshVars)

\* What is in the table stays there, for the same listing and version.
LEMMA RowsStay ==
    ASSUME RefreshInv, Next
    PROVE  /\ DOMAIN queue \subseteq DOMAIN queue' /\ DOMAIN queue' \subseteq 1..MaxJobs
           /\ \A i \in DOMAIN queue : /\ queue'[i].listing = queue[i].listing
                                      /\ queue'[i].wanted = queue[i].wanted
<1> DEFINE Stay == /\ DOMAIN queue \subseteq DOMAIN queue' /\ DOMAIN queue' \subseteq 1..MaxJobs
                   /\ \A i \in DOMAIN queue : /\ queue'[i].listing = queue[i].listing
                                              /\ queue'[i].wanted = queue[i].wanted
<1>1. IInv /\ DOMAIN queue \subseteq 1..MaxJobs /\ queue \in Seq(Row)
  BY DEF RefreshInv, IInv, TypeOK
<1>2. CASE UNCHANGED queue
  BY <1>1, <1>2
<1>3. ASSUME NEW l \in Listings, NEW prio \in {0, 1}, EnqueueExtraction(l, prio) PROVE Stay
  <2>1. Len(queue) < MaxJobs /\ Len(queue) \in Nat /\ MaxJobs \in Nat
    BY <1>1, <1>3, QueueConstants DEF EnqueueExtraction
  <2>2. Len(queue) + 1 \in 1..MaxJobs
    BY <2>1
  <2> QED  BY <1>1, <1>2, <1>3, <2>2, EnqueueRow
<1>4. ASSUME NEW w \in Workers, NEW i \in Claimable, Claim(i, w) PROVE Stay
  <2>1. /\ i \in DOMAIN queue /\ DOMAIN queue' = DOMAIN queue
        /\ \A k \in DOMAIN queue : k # i => queue'[k] = queue[k]
        /\ queue'[i].listing = queue[i].listing /\ queue'[i].wanted = queue[i].wanted
    BY <1>1, <1>4, ClaimRow
  <2> QED  BY <1>1, <2>1
<1>5. ASSUME NEW w \in Workers, CompleteJob(w) PROVE Stay
  <2>1. Busy(w)
    BY <1>5 DEF CompleteJob, Busy
  <2>2. PICK i \in DOMAIN queue : i = job[w]
    BY <1>1, <2>1, BusyListing
  <2>3. PICK o \in {"ok", "error"} : UNCHANGED queue \/ queue' = [queue EXCEPT ![i].outcome = o]
    <3>1. CASE pc[w] = "complete"
      BY <1>5, <2>2, <3>1 DEF CompleteJob
    <3>2. CASE pc[w] = "fail"
      BY <1>5, <2>2, <3>2 DEF CompleteJob
    <3> QED  BY <1>5, <3>1, <3>2 DEF CompleteJob
  <2>4. CASE queue' = [queue EXCEPT ![i].outcome = o]
    <3>1. /\ DOMAIN queue' = DOMAIN queue
          /\ \A k \in DOMAIN queue : k # i => queue'[k] = queue[k]
          /\ queue'[i].listing = queue[i].listing /\ queue'[i].wanted = queue[i].wanted
      BY <1>1, <2>4, FinishRow
    <3> QED  BY <1>1, <3>1
  <2> QED  BY <1>2, <2>3, <2>4
<1>6. ASSUME NEW i \in Ingesters, EnqueueNew(i) PROVE Stay
  <2>1. ingesting[i] \in Listings
    BY <1>1, <1>6 DEF EnqueueNew, IInv, TypeOK
  <2> QED  BY <1>3, <1>6, <2>1 DEF EnqueueNew
<1>7. ASSUME NEW l \in Listings, RunReExtraction(l) PROVE Stay
  BY <1>3, <1>7 DEF RunReExtraction
<1>8. ASSUME NEW w \in Workers, DequeueExtractions(w) \/ DequeueAnswerLost(w) PROVE Stay
  BY <1>4, <1>8 DEF DequeueExtractions, DequeueAnswerLost
<1>9. \/ UNCHANGED queue
      \/ \E i \in Ingesters : EnqueueNew(i)
      \/ \E l \in Listings : RunReExtraction(l)
      \/ \E w \in Workers : DequeueExtractions(w) \/ DequeueAnswerLost(w)
      \/ \E w \in Workers : CompleteJob(w)
  BY DEF Next, WorkerStep, UpsertListing, EnqueueLost, WorkerReturns, GetListingByID,
     ClassifyAndExtract, UpdateListingExtraction, ScoreListing, EvaluateAlertsForListing,
     Shutdown, Exit, Restart
<1> HIDE DEF Stay
<1>10. Stay
  BY <1>2, <1>5, <1>6, <1>7, <1>8, <1>9 DEF Stay
<1> QED  BY <1>10 DEF Stay

\* A worker about to evaluate keeps the score it has made: nobody else scores
\* its listing.
LEMMA ScoreStays ==
    ASSUME RefreshInv, Next
    PROVE  ScoreInHand'
<1>1. IInv /\ ScoreInHand
  BY DEF RefreshInv
<1>2. \A v \in Workers : Busy(v) => job[v] \in DOMAIN queue
                                    /\ queue'[job[v]].listing = queue[job[v]].listing
  BY <1>1, RowsStay, BusyListing
<1>3. /\ pc \in [Workers -> Stages] /\ job \in [Workers -> Nat] /\ seen \in [Workers -> Version]
      /\ scored \in [Listings -> Version]
  BY <1>1 DEF IInv, TypeOK
<1>4. ASSUME UNCHANGED scored,
             \A v \in Workers : pc'[v] = "evaluate" =>
                pc[v] = "evaluate" /\ job'[v] = job[v] /\ seen'[v] = seen[v]
      PROVE  ScoreInHand'
  BY <1>1, <1>2, <1>4 DEF ScoreInHand, JobListing, Busy
<1>5. ASSUME NEW w \in Workers, ScoreListing(w) PROVE ScoreInHand'
  <2>1. Busy(w) /\ UNCHANGED <<queue, job, seen>> /\ pc[w] = "score"
    BY <1>5 DEF ScoreListing, Busy
  <2>2. JobListing(w) \in Listings
    BY <1>1, <2>1, BusyListing
  <2>3. \A v \in Workers : v # w /\ Busy(v) => JobListing(v) # JobListing(w)
    BY <1>1, <2>1, Exclusive DEF ListingExclusive
  <2>4. /\ pc'[w] = "evaluate" => scored'[JobListing(w)] = seen[w]
        /\ \A l \in Listings : l # JobListing(w) => scored'[l] = scored[l]
        /\ \A v \in Workers : v # w => pc'[v] = pc[v]
    BY <1>3, <1>5, <2>2 DEF ScoreListing, Goto
  <2>5. \A v \in Workers : JobListing(v)' = JobListing(v)
    BY <2>1 DEF JobListing
  <2>6. ASSUME NEW v \in Workers, v # w, pc'[v] = "evaluate"
        PROVE  scored'[JobListing(v)] = seen[v]
    <3>1. pc[v] = "evaluate" /\ Busy(v)
      BY <2>4, <2>6 DEF Busy
    <3>2. JobListing(v) \in Listings /\ JobListing(v) # JobListing(w)
      BY <1>1, <2>3, <2>6, <3>1, BusyListing
    <3> QED  BY <1>1, <2>4, <3>1, <3>2 DEF ScoreInHand
  <2> QED  BY <2>1, <2>4, <2>5, <2>6 DEF ScoreInHand
<1>6. ASSUME NEW w \in Workers, WorkerStep(w) PROVE ScoreInHand'
  <2>1. CASE ScoreListing(w)
    BY <1>5, <2>1
  <2>2. CASE DequeueExtractions(w)
    BY <1>3, <1>4, <2>2 DEF DequeueExtractions, listingVars, Goto
  <2>3. CASE WorkerReturns(w) \/ ClassifyAndExtract(w) \/ UpdateListingExtraction(w) \/ EvaluateAlertsForListing(w)
    <3>1. UNCHANGED <<scored, job, seen>>
      BY <2>3 DEF WorkerReturns, ClassifyAndExtract, UpdateListingExtraction,
         EvaluateAlertsForListing, listingVars
    <3>2. PICK s \in Stages \ {"evaluate"} : Goto(w, s)
      BY <2>3 DEF WorkerReturns, ClassifyAndExtract, UpdateListingExtraction,
         EvaluateAlertsForListing, Stages
    <3> QED  BY <1>3, <1>4, <3>1, <3>2 DEF Goto
  <2>4. CASE GetListingByID(w)
    BY <1>3, <1>4, <2>4 DEF GetListingByID, listingVars, Goto
  <2>5. CASE CompleteJob(w)
    BY <1>3, <1>4, <2>5 DEF CompleteJob, listingVars, Goto
  <2> QED  BY <1>6, <2>1, <2>2, <2>3, <2>4, <2>5 DEF WorkerStep
<1>7. ASSUME NEW p \in Pods, Exit(p) \/ Restart(p) PROVE ScoreInHand'
  BY <1>3, <1>4, <1>7 DEF Exit, Restart, listingVars
<1>8. CASE UNCHANGED <<scored, workerVars>>
  BY <1>4, <1>8 DEF workerVars
<1> QED
  BY <1>6, <1>7, <1>8 DEF Next, UpsertListing, EnqueueNew, EnqueueLost, RunReExtraction,
     DequeueAnswerLost, Shutdown, listingVars

\* A worker between ScoreListing and EvaluateAlertsForListing still finds the
\* score it has stored, whatever the others do.
THEOREM RefreshInvariant == Spec => []RefreshInv
<1>1. Init => RefreshInv
  <2> SUFFICES ASSUME Init PROVE RefreshInv
    OBVIOUS
  <2>1. DOMAIN queue = {} /\ ScoreInHand
    BY DEF Init, ScoreInHand
  <2> QED  BY <2>1, InitIInv DEF RefreshInv
<1>2. RefreshInv /\ [Next]_vars => RefreshInv'
  <2> SUFFICES ASSUME RefreshInv, [Next]_vars PROVE RefreshInv'
    OBVIOUS
  <2>1. CASE Next
    <3>1. IInv'
      BY <2>1, NextIInv DEF RefreshInv
    <3> QED  BY <2>1, <3>1, RowsStay, ScoreStays DEF RefreshInv
  <2>2. CASE UNCHANGED vars
    <3>1. IInv'
      BY <2>2, NextIInv DEF RefreshInv
    <3> QED  BY <2>2, <3>1 DEF RefreshInv, ScoreInHand, JobListing, vars, listingVars, workerVars
  <2> QED  BY <2>1, <2>2
<1> QED  BY <1>1, <1>2, PTL DEF Spec

-----------------------------------------------------------------------------
(* The steps. *)

\* A request as the row shows it.
LEMMA RequestOf ==
    ASSUME NEW i \in DOMAIN queue
    PROVE  /\ i \in DOMAIN Requests
           /\ Requests[i].listing = queue[i].listing
           /\ Requests[i].wanted = queue[i].wanted
           /\ Requests[i].state = RequestState(queue[i])
  BY DEF Requests

\* A step that writes nothing but the tables' history and takes nothing in
\* hand: the workers that dropped out of their jobs have given them up.
LEMMA QuietMaps ==
    ASSUME RefreshInv, UNCHANGED <<queue, listingVars>>,
           \A v \in Workers : Busy(v)' => Busy(v) /\ job'[v] = job[v]
    PROVE  RefreshStep
<1>1. Requests' = Requests /\ UNCHANGED <<title, extracted, scored, evaluated>>
  BY DEF Requests, RequestState, listingVars
<1>2. Working \subseteq 1..MaxJobs /\ Working' \subseteq Working
  BY DEF Working, RefreshInv
<1>3. PICK S \in SUBSET (1..MaxJobs) : S = Working \ Working'
  BY <1>2
<1>4. Working' = Working \ S
  BY <1>2, <1>3
<1>5. Refresh!GiveUp(S)
  BY <1>1, <1>4 DEF Refresh!GiveUp, Refresh!productVars
<1> QED  BY <1>5 DEF RefreshStep, Refresh!RefreshNext

\* The requests in hand stay the same when a worker moves on within its job.
LEMMA SameHands ==
    ASSUME UNCHANGED <<queue, job>>, NEW w \in Workers, Busy(w),
           NEW s \in Stages \ {"loop", "stopped"}, Goto(w, s), pc \in [Workers -> Stages]
    PROVE  Working' = Working /\ Requests' = Requests
<1>1. \A v \in Workers : Busy(v)' <=> Busy(v)
  BY DEF Goto, Busy
<1> QED  BY <1>1 DEF Working, Requests, RequestState

LEMMA EnqueueMaps ==
    ASSUME RefreshInv, NEW l \in Listings, NEW prio \in {0, 1}, EnqueueExtraction(l, prio),
           UNCHANGED <<listingVars, workerVars>>
    PROVE  RefreshStep
<1>1. IInv
  BY DEF RefreshInv
<1>2. CASE queue' = queue
  BY <1>2, QuietMaps DEF Busy, workerVars
<1>3. CASE queue' # queue
  <2>1. PICK n : n = Len(queue) + 1
    OBVIOUS
  <2>2. /\ ~HasOpenRow(l)
        /\ DOMAIN queue' = DOMAIN queue \cup {n}
        /\ n \notin DOMAIN queue
        /\ \A i \in DOMAIN queue : queue'[i] = queue[i]
        /\ queue'[n] = NewRow(l, prio)
    BY <1>1, <1>3, <2>1, EnqueueRow
  <2>3. n \in 1..MaxJobs
    BY <1>1, <2>1, QueueConstants DEF EnqueueExtraction, IInv, TypeOK
  <2>4. queue'[n].listing = l /\ queue'[n].wanted = title[l] /\ RequestState(queue'[n]) = "waiting"
    BY <2>2 DEF NewRow, RequestState
  <2>5. Requests' = [k \in DOMAIN Requests \cup {n} |->
                       IF k = n THEN [listing |-> l, wanted |-> title[l], state |-> "waiting"]
                                ELSE Requests[k]]
    <3>1. DOMAIN Requests = DOMAIN queue
      BY DEF Requests
    <3>2. \A i \in DOMAIN queue :
             [listing |-> queue'[i].listing, wanted |-> queue'[i].wanted,
              state |-> RequestState(queue'[i])] = Requests[i]
      BY <2>2 DEF Requests
    <3>3. Requests' = [i \in DOMAIN queue' |-> [listing |-> queue'[i].listing,
                                               wanted  |-> queue'[i].wanted,
                                               state   |-> RequestState(queue'[i])]]
      BY DEF Requests, RequestState
    <3> QED  BY <2>2, <2>4, <3>1, <3>2, <3>3
  <2>6. Working' = Working
    <3>1. \A v \in Workers : (Busy(v)' <=> Busy(v)) /\ job'[v] = job[v]
      BY DEF Busy, workerVars
    <3>2. \A v \in Workers : Busy(v) => job[v] \in DOMAIN queue
      BY <1>1, BusyListing
    <3> QED  BY <2>2, <3>1, <3>2 DEF Working
  <2>7. n \notin DOMAIN Requests
    BY <2>2 DEF Requests
  <2>8. ~ \E k \in DOMAIN Requests : Refresh!OpenRequest(k) /\ Requests[k].listing = l
    <3>1. SUFFICES ASSUME NEW k \in DOMAIN Requests, Refresh!OpenRequest(k), Requests[k].listing = l
                   PROVE  FALSE
      OBVIOUS
    <3>2. k \in DOMAIN queue /\ queue[k].listing = l /\ RequestState(queue[k]) \in {"waiting", "taken"}
      BY <3>1, RequestOf DEF Requests, Refresh!OpenRequest
    <3>3. queue[k] \in Row
      BY <1>1, <3>2, RowOf DEF IInv, TypeOK
    <3>4. Open(queue[k])
      BY <3>2, <3>3 DEF Open, Row, RequestState
    <3> QED  BY <2>2, <3>2, <3>4 DEF HasOpenRow
  <2>9. Refresh!Ask(n, l)
    BY <2>5, <2>6, <2>7, <2>8 DEF Refresh!Ask, Refresh!productVars, listingVars
  <2> QED  BY <2>3, <2>9 DEF RefreshStep, Refresh!RefreshNext
<1> QED  BY <1>2, <1>3

\* An UPDATE of one row changes the state of one request.
LEMMA RowMaps ==
    ASSUME NEW i \in DOMAIN queue, NEW s,
           DOMAIN queue' = DOMAIN queue,
           \A k \in DOMAIN queue : k # i => queue'[k] = queue[k],
           queue'[i].listing = queue[i].listing, queue'[i].wanted = queue[i].wanted,
           RequestState(queue'[i]) = s
    PROVE  Requests' = [Requests EXCEPT ![i].state = s]
<1>1. Requests' = [k \in DOMAIN queue' |-> [listing |-> queue'[k].listing,
                                           wanted  |-> queue'[k].wanted,
                                           state   |-> RequestState(queue'[k])]]
  BY DEF Requests, RequestState
<1>2. \A k \in DOMAIN queue : k # i =>
         [listing |-> queue'[k].listing, wanted |-> queue'[k].wanted,
          state |-> RequestState(queue'[k])] = Requests[k]
  BY DEF Requests
<1>3. [listing |-> queue'[i].listing, wanted |-> queue'[i].wanted,
       state |-> RequestState(queue'[i])] = [Requests[i] EXCEPT !.state = s]
  BY DEF Requests
<1>4. DOMAIN Requests = DOMAIN queue
  BY DEF Requests
<1> QED  BY <1>1, <1>2, <1>3, <1>4

LEMMA ClaimMaps ==
    ASSUME RefreshInv, NEW w \in Workers, NEW i \in Claimable, Claim(i, w), pc[w] = "loop",
           UNCHANGED listingVars,
           \/ job' = [job EXCEPT ![w] = i] /\ Goto(w, "fetch")
           \/ UNCHANGED <<job, pc>>
    PROVE  RefreshStep
<1>1. IInv /\ pc \in [Workers -> Stages] /\ job \in [Workers -> Nat]
  BY DEF RefreshInv, IInv, TypeOK
<1>2. /\ i \in DOMAIN queue /\ Open(queue[i]) /\ queue[i].claimedBy = None
      /\ DOMAIN queue' = DOMAIN queue
      /\ \A k \in DOMAIN queue : k # i => queue'[k] = queue[k]
      /\ queue'[i].listing = queue[i].listing
      /\ queue'[i].outcome = queue[i].outcome
      /\ queue'[i].wanted = queue[i].wanted
      /\ queue'[i].claimedBy = w
  BY <1>1, ClaimRow
<1>3. RequestState(queue[i]) = "waiting" /\ RequestState(queue'[i]) = "taken"
  BY <1>2, QueueConstants DEF Open, RequestState
<1>4. Requests' = [Requests EXCEPT ![i].state = "taken"]
  BY <1>2, <1>3, RowMaps
<1>5. i \in DOMAIN Requests /\ Requests[i].state = "waiting"
  BY <1>2, <1>3, RequestOf
<1>6. Working' \in {Working, Working \cup {i}}
  <2>1. CASE job' = [job EXCEPT ![w] = i] /\ Goto(w, "fetch")
    <3>1. /\ Busy(w)' /\ job'[w] = i /\ ~Busy(w)
          /\ \A v \in Workers : v # w => (Busy(v)' <=> Busy(v)) /\ job'[v] = job[v]
      BY <1>1, <2>1 DEF Busy, Goto
    <3> QED  BY <1>2, <3>1 DEF Working
  <2>2. CASE UNCHANGED <<job, pc>>
    BY <1>2, <2>2 DEF Working, Busy
  <2> QED  BY <2>1, <2>2
<1>7. Refresh!Take(i)
  BY <1>4, <1>5, <1>6 DEF Refresh!Take, Refresh!productVars, listingVars
<1> QED  BY <1>2, <1>7 DEF RefreshStep, Refresh!RefreshNext, RefreshInv

\* The worker's own request, as a name: what the lemmas below act on.
LEMMA InHand ==
    ASSUME RefreshInv, NEW w \in Workers, Busy(w), NEW i, i = job[w]
    PROVE  /\ i \in DOMAIN queue /\ i \in 1..MaxJobs /\ i \in Working
           /\ JobListing(w) = queue[i].listing /\ queue[i].listing \in Listings
           /\ Requests[i].listing = queue[i].listing /\ Requests[i].wanted = queue[i].wanted
<1>1. i \in DOMAIN queue /\ JobListing(w) \in Listings
  BY BusyListing DEF RefreshInv
<1> QED  BY <1>1, RequestOf DEF RefreshInv, Working, JobListing

LEMMA UpdateMaps ==
    ASSUME RefreshInv, NEW w \in Workers, UpdateListingExtraction(w)
    PROVE  RefreshStep
<1>1. Busy(w) /\ pc \in [Workers -> Stages] /\ UNCHANGED <<queue, job, title, scored, evaluated>>
  BY DEF UpdateListingExtraction, Busy, RefreshInv, IInv, TypeOK
<1>2. PICK i : i = job[w]
  OBVIOUS
<1>3. /\ i \in 1..MaxJobs /\ i \in Working
      /\ JobListing(w) = queue[i].listing /\ queue[i].listing \in Listings
      /\ Requests[i].listing = queue[i].listing /\ Requests[i].wanted = queue[i].wanted
  BY <1>1, <1>2, InHand
<1>4. PICK s \in {"score", "fail"} : Goto(w, s)
  BY DEF UpdateListingExtraction
<1>5. Working' = Working /\ Requests' = Requests
  BY <1>1, <1>4, SameHands DEF Stages
<1>6. CASE extracted' = Extraction(w)
  <2>1. PICK v : v = seen[w]
    OBVIOUS
  <2>2. extracted' = [extracted EXCEPT ![queue[i].listing] = v]
    BY <1>3, <1>6, <2>1 DEF Extraction
  <2>3. /\ queue[i].wanted <= v /\ extracted[queue[i].listing] <= v
        /\ v <= title[queue[i].listing]
    BY <1>2, <1>3, <2>1 DEF RefreshInv, IInv, VersionsOrdered, UpdateListingExtraction
  <2>4. /\ v \in Nat /\ extracted[queue[i].listing] \in Nat /\ title[queue[i].listing] \in Nat
        /\ queue[i].wanted \in Nat
    <3>1. queue[i] \in Row
      BY <1>1, <1>2, BusyListing DEF RefreshInv
    <3> QED  BY <1>3, <2>1, <3>1, QueueConstants DEF RefreshInv, IInv, TypeOK, Version, Row
  <2>5. v \in extracted[queue[i].listing]..title[queue[i].listing] /\ v >= queue[i].wanted
    BY <2>3, <2>4
  <2>6. Refresh!Store(i)
    BY <1>1, <1>3, <1>5, <2>2, <2>5 DEF Refresh!Store
  <2> QED  BY <1>3, <2>6 DEF RefreshStep, Refresh!RefreshNext
<1>7. CASE extracted' = extracted
  BY <1>1, <1>4, <1>7, QuietMaps DEF Busy, Goto, listingVars
<1> QED  BY <1>6, <1>7 DEF UpdateListingExtraction

LEMMA ScoreMaps ==
    ASSUME RefreshInv, NEW w \in Workers, ScoreListing(w)
    PROVE  RefreshStep
<1>1. Busy(w) /\ pc \in [Workers -> Stages] /\ UNCHANGED <<queue, job, title, extracted, evaluated>>
  BY DEF ScoreListing, Busy, RefreshInv, IInv, TypeOK
<1>2. PICK i : i = job[w]
  OBVIOUS
<1>3. /\ i \in 1..MaxJobs /\ i \in Working
      /\ JobListing(w) = queue[i].listing /\ queue[i].listing \in Listings
      /\ Requests[i].listing = queue[i].listing
  BY <1>1, <1>2, InHand
<1>4. PICK s \in {"evaluate", "complete"} : Goto(w, s)
  BY DEF ScoreListing
<1>5. Working' = Working /\ Requests' = Requests
  BY <1>1, <1>4, SameHands DEF Stages
<1>6. CASE scored' = [scored EXCEPT ![JobListing(w)] = seen[w]]
  <2>1. seen[w] = extracted[queue[i].listing]
    BY <1>3 DEF RefreshInv, IInv, VersionsOrdered, ScoreListing
  <2>2. scored' = [scored EXCEPT ![queue[i].listing] = extracted[queue[i].listing]]
    BY <1>3, <1>6, <2>1
  <2>3. Refresh!Rate(i)
    BY <1>1, <1>3, <1>5, <2>2 DEF Refresh!Rate
  <2> QED  BY <1>3, <2>3 DEF RefreshStep, Refresh!RefreshNext
<1>7. CASE scored' = scored
  BY <1>1, <1>4, <1>7, QuietMaps DEF Busy, Goto, listingVars
<1> QED  BY <1>6, <1>7 DEF ScoreListing

LEMMA EvaluateMaps ==
    ASSUME RefreshInv, NEW w \in Workers, EvaluateAlertsForListing(w)
    PROVE  RefreshStep
<1>1. /\ Busy(w) /\ pc[w] = "evaluate" /\ pc \in [Workers -> Stages]
      /\ UNCHANGED <<queue, job, title, extracted, scored>>
  BY DEF EvaluateAlertsForListing, Busy, RefreshInv, IInv, TypeOK
<1>2. PICK i : i = job[w]
  OBVIOUS
<1>3. /\ i \in 1..MaxJobs /\ i \in Working
      /\ JobListing(w) = queue[i].listing /\ queue[i].listing \in Listings
      /\ Requests[i].listing = queue[i].listing
  BY <1>1, <1>2, InHand
<1>4. Goto(w, "complete")
  BY DEF EvaluateAlertsForListing
<1>5. Working' = Working /\ Requests' = Requests
  BY <1>1, <1>4, SameHands DEF Stages
<1>6. CASE evaluated' = [evaluated EXCEPT ![JobListing(w)] = seen[w]]
  <2>1. seen[w] = extracted[queue[i].listing] /\ seen[w] = scored[queue[i].listing]
    BY <1>1, <1>3 DEF RefreshInv, IInv, VersionsOrdered, ScoreInHand
  <2>2. evaluated' = [evaluated EXCEPT ![queue[i].listing] = scored[queue[i].listing]]
    BY <1>3, <1>6, <2>1
  <2>3. Refresh!Evaluate(i)
    BY <1>1, <1>3, <1>5, <2>1, <2>2 DEF Refresh!Evaluate
  <2> QED  BY <1>3, <2>3 DEF RefreshStep, Refresh!RefreshNext
<1>7. CASE evaluated' = evaluated
  BY <1>1, <1>4, <1>7, QuietMaps DEF Busy, Goto, listingVars
<1> QED  BY <1>6, <1>7 DEF EvaluateAlertsForListing

LEMMA CompleteMaps ==
    ASSUME RefreshInv, NEW w \in Workers, CompleteJob(w)
    PROVE  RefreshStep
<1>1. /\ Busy(w) /\ pc \in [Workers -> Stages] /\ job \in [Workers -> Nat]
      /\ UNCHANGED listingVars
  BY DEF CompleteJob, Busy, RefreshInv, IInv, TypeOK
<1>2. PICK i : i = job[w]
  OBVIOUS
<1>3. /\ i \in DOMAIN queue /\ i \in 1..MaxJobs /\ i \in Working
      /\ JobListing(w) = queue[i].listing /\ queue[i].listing \in Listings
      /\ Requests[i].listing = queue[i].listing /\ Requests[i].wanted = queue[i].wanted
  BY <1>1, <1>2, InHand
<1>4. /\ ~Busy(w)'
      /\ \A v \in Workers : v # w => (Busy(v)' <=> Busy(v)) /\ job'[v] = job[v]
  BY <1>1 DEF CompleteJob, Goto, Busy
<1>5. CASE UNCHANGED queue
  BY <1>1, <1>4, <1>5, QuietMaps
<1>6. CASE queue' = [queue EXCEPT ![job[w]].outcome = IF pc[w] = "complete" THEN "ok" ELSE "error"]
  <2>1. PICK o \in {"ok", "error"} : o = IF pc[w] = "complete" THEN "ok" ELSE "error"
    OBVIOUS
  <2>2. PICK state \in {"done", "failed"} : state = IF o = "ok" THEN "done" ELSE "failed"
    OBVIOUS
  <2>3. queue' = [queue EXCEPT ![i].outcome = o]
    BY <1>2, <1>6, <2>1
  <2>4. IInv
    BY DEF RefreshInv
  <2>5. /\ DOMAIN queue' = DOMAIN queue
        /\ \A k \in DOMAIN queue : k # i => queue'[k] = queue[k]
        /\ queue'[i].listing = queue[i].listing
        /\ queue'[i].outcome = o
        /\ queue'[i].wanted = queue[i].wanted
    BY <1>3, <2>3, <2>4, FinishRow
  <2>6. RequestState(queue'[i]) = state
    BY <2>1, <2>2, <2>5 DEF RequestState
  <2>7. Requests' = [Requests EXCEPT ![i].state = state]
    BY <1>3, <2>5, <2>6, RowMaps
  <2>8. \A v \in Workers : v # w /\ Busy(v) => job[v] # i
    BY <1>1, <1>2, <2>4, Exclusive DEF ListingExclusive, JobListing
  <2>9. Working' = Working \ {i}
    BY <1>2, <1>4, <2>5, <2>8 DEF Working
  <2>10. state = "done" => extracted[queue[i].listing] >= queue[i].wanted
    <3>1. SUFFICES ASSUME pc[w] = "complete" PROVE extracted[queue[i].listing] >= queue[i].wanted
      BY <2>1, <2>2 DEF CompleteJob
    <3>2. extracted[queue[i].listing] = seen[w] /\ queue[i].wanted <= seen[w]
      BY <1>2, <1>3, <2>4, <3>1 DEF IInv, VersionsOrdered
    <3>3. queue[i] \in Row
      BY <1>1, <1>2, <2>4, BusyListing
    <3>4. seen[w] \in Nat /\ queue[i].wanted \in Nat
      BY <2>4, <3>3, QueueConstants DEF IInv, TypeOK, Version, Row
    <3> QED  BY <3>2, <3>4
  <2>11. Refresh!Answer(i, state)
    BY <1>1, <1>3, <2>7, <2>9, <2>10 DEF Refresh!Answer, Refresh!productVars, listingVars
  <2> QED  BY <1>3, <2>2, <2>11 DEF RefreshStep, Refresh!RefreshNext
<1> QED  BY <1>5, <1>6 DEF CompleteJob

LEMMA UpsertMaps ==
    ASSUME RefreshInv, NEW i \in Ingesters, NEW l \in Listings, UpsertListing(i, l)
    PROVE  RefreshStep
<1>1. UNCHANGED <<queue, extracted, scored, evaluated, pc, job>> /\ title \in [Listings -> Version]
  BY DEF UpsertListing, workerVars, RefreshInv, IInv, TypeOK
<1>2. title' = title \/ title' = [title EXCEPT ![l] = title[l] + 1]
  BY <1>1 DEF UpsertListing
<1>3. CASE title' = title
  BY <1>1, <1>3, QuietMaps DEF Busy, listingVars
<1>4. CASE title' = [title EXCEPT ![l] = title[l] + 1]
  <2>1. Requests' = Requests /\ Working' = Working
    BY <1>1 DEF Requests, RequestState, Working, Busy
  <2>2. Refresh!NewTitle(l)
    BY <1>1, <1>4, <2>1 DEF Refresh!NewTitle, Refresh!productVars
  <2> QED  BY <2>2 DEF RefreshStep, Refresh!RefreshNext
<1> QED  BY <1>2, <1>3, <1>4

LEMMA NextRefreshes == RefreshInv /\ [Next]_vars => RefreshStep
<1> SUFFICES ASSUME RefreshInv, [Next]_vars PROVE RefreshStep
  OBVIOUS
<1>1. pc \in [Workers -> Stages] /\ ingesting \in [Ingesters -> Listings \cup {None}]
  BY DEF RefreshInv, IInv, TypeOK
<1>2. ASSUME NEW i \in Ingesters, EnqueueNew(i) PROVE RefreshStep
  <2>1. ingesting[i] \in Listings
    BY <1>1, <1>2 DEF EnqueueNew
  <2> QED  BY <1>2, <2>1, EnqueueMaps DEF EnqueueNew
<1>3. ASSUME NEW l \in Listings, RunReExtraction(l) PROVE RefreshStep
  BY <1>3, EnqueueMaps DEF RunReExtraction
<1>4. ASSUME NEW w \in Workers, DequeueExtractions(w) \/ DequeueAnswerLost(w) PROVE RefreshStep
  <2>1. PICK i \in Claimable :
           /\ Claim(i, w)
           /\ \/ job' = [job EXCEPT ![w] = i] /\ Goto(w, "fetch")
              \/ UNCHANGED <<job, pc>>
    BY <1>4 DEF DequeueExtractions, DequeueAnswerLost, workerVars
  <2>2. pc[w] = "loop" /\ UNCHANGED listingVars
    BY <1>4 DEF DequeueExtractions, DequeueAnswerLost
  <2> QED  BY <2>1, <2>2, ClaimMaps
<1>5. ASSUME NEW w \in Workers, WorkerReturns(w) \/ GetListingByID(w) \/ ClassifyAndExtract(w)
      PROVE  RefreshStep
  <2>1. UNCHANGED <<queue, listingVars, job>>
    BY <1>5 DEF WorkerReturns, GetListingByID, ClassifyAndExtract
  <2>2. \A v \in Workers : Busy(v)' => Busy(v)
    BY <1>1, <1>5 DEF WorkerReturns, GetListingByID, ClassifyAndExtract, Busy, Goto
  <2> QED  BY <2>1, <2>2, QuietMaps
<1>6. ASSUME NEW w \in Workers, WorkerStep(w) PROVE RefreshStep
  BY <1>4, <1>5, <1>6, UpdateMaps, ScoreMaps, EvaluateMaps, CompleteMaps DEF WorkerStep
<1>7. ASSUME NEW p \in Pods, Shutdown(p) \/ Exit(p) \/ Restart(p) PROVE RefreshStep
  <2>1. UNCHANGED <<queue, listingVars>>
    BY <1>7 DEF Shutdown, Exit, Restart
  <2>2. \A v \in Workers : Busy(v)' => Busy(v) /\ job'[v] = job[v]
    BY <1>1, <1>7 DEF Shutdown, Exit, Restart, Busy, workerVars
  <2> QED  BY <2>1, <2>2, QuietMaps
<1>8. CASE (\E i \in Ingesters : EnqueueLost(i)) \/ UNCHANGED vars
  <2>1. UNCHANGED <<queue, listingVars, pc, job>>
    BY <1>8 DEF EnqueueLost, vars, workerVars
  <2> QED  BY <2>1, QuietMaps DEF Busy
<1> QED  BY <1>2, <1>3, <1>4, <1>6, <1>7, <1>8, UpsertMaps DEF Next

\* For any workers, pods and listings, and whatever fails or crashes: the table
\* and its workers refresh listings as ListingRefresh says.
THEOREM QueueImplementsRefresh == Spec => ImplementsRefresh
<1>1. Init => Refresh!RefreshInit
  <2> SUFFICES ASSUME Init PROVE Refresh!RefreshInit
    OBVIOUS
  <2>1. DOMAIN queue = {}
    BY DEF Init
  <2>2. Requests = [i \in {} |-> {}] /\ Working = {}
    BY <2>1 DEF Requests, Working
  <2> QED  BY <2>2 DEF Init, Refresh!RefreshInit
<1> QED
  BY <1>1, NextRefreshes, RefreshInvariant, PTL DEF Spec, RefreshStep, ImplementsRefresh,
     Refresh!RefreshSpec
=============================================================================
