---------------------------- MODULE AlertDelivery ----------------------------
(***************************************************************************)
(* The life of an alert: evaluateAlert creates it, ProcessAlerts delivers  *)
(* it to Discord one by one, in batches or as one summary, and records     *)
(* attempts and the notified flag; operators dismiss, restore and retry.   *)
(*                                                                         *)
(* Source: internal/engine/engine.go (evaluateAlert), internal/engine/     *)
(* alert.go, internal/notify/discord.go (SendBatchAlert), the alert SQL of *)
(* internal/store, internal/api/handlers/alerts_ui.go and watches.go.      *)
(*                                                                         *)
(* ProcessAlerts runs at the end of every ingestion cycle; cycles overlap  *)
(* (HTTP trigger, another replica), so there are several processors.       *)
(***************************************************************************)
EXTENDS Naturals, Sequences, FiniteSets

CONSTANTS
    Watches, Listings,
    Processors,      \* concurrent calls of ProcessAlerts
    Evaluators,      \* concurrent calls of evaluateAlert
    None,
    Modes,           \* values of AlertProcessingConfig.SummaryOnly to start with
    BatchThreshold,  \* 5 in the code
    ChunkSize,       \* maxEmbedsPerMessage, 10 in the code
    MaxAlerts,       \* bound: alert rows
    MaxFaults,       \* bound: failed database calls and crashes
    MaxSendFails,    \* bound: failed webhook posts
    MaxRetries,      \* bound: retries by operators
    MaxDismissals,   \* bound: dismissals and restores by operators
    MaxDeletes       \* bound: watches deleted

ASSUME AlertConstants ==
    /\ Modes \subseteq BOOLEAN
    /\ None \notin Watches \X Listings
    /\ BatchThreshold \in Nat \ {0}
    /\ ChunkSize \in Nat \ {0}
    /\ IsFiniteSet(Evaluators)
    /\ {MaxAlerts, MaxFaults, MaxSendFails, MaxRetries, MaxDismissals,
        MaxDeletes} \subseteq Nat

VARIABLES
    alerts,     \* the alerts table: row i is the i-th row inserted
    succeeded,  \* alerts with a notification_attempts row, succeeded = true
    reached,    \* history: per alert, embeds that ProcessAlerts got into Discord
    byHand,     \* history: alerts whose embed Retry got into Discord
    alive,      \* watches not deleted
    summaryOnly,\* AlertProcessingConfig.SummaryOnly, read at the start
    overlapped, \* history: two callers of the notifier were active at one time
    eval,       \* per evaluator: the pair that passed all checks of evaluateAlert
    stage,      \* per processor: where it is in ProcessAlerts
    snap,       \* per processor: listed as pending, group not yet handled
    todo,       \* per processor: alerts of the current watch not yet handled
    batch,      \* per processor: toSend
    sent,       \* per processor: sentCount
    retry,      \* the Retry handler between its send and its insert
    budget      \* what is left of the bounds

tableVars == <<alerts, succeeded>>
procVars == <<stage, snap, todo, batch, sent>>
world == <<alive, summaryOnly, overlapped>>
vars == <<tableVars, reached, byHand, world, eval, procVars, retry, budget>>

Ids == 1..MaxAlerts

Init ==
    /\ alerts = <<>>
    /\ succeeded = {}
    /\ reached = [a \in Ids |-> 0]
    /\ byHand = {}
    /\ alive = Watches
    /\ summaryOnly \in Modes
    /\ overlapped = FALSE
    /\ eval = [e \in Evaluators |-> None]
    /\ stage = [p \in Processors |-> "idle"]
    /\ snap = [p \in Processors |-> {}]
    /\ todo = [p \in Processors |-> <<>>]
    /\ batch = [p \in Processors |-> <<>>]
    /\ sent = [p \in Processors |-> 0]
    /\ retry = None
    /\ budget = [faults |-> MaxFaults, sends |-> MaxSendFails, retries |-> MaxRetries,
                 dismissals |-> MaxDismissals, deletes |-> MaxDeletes]

-----------------------------------------------------------------------------
Spend(kind) == budget[kind] > 0 /\ budget' = [budget EXCEPT ![kind] = @ - 1]
Glitch == Spend("faults")

\* A caller of the notifier begins; one of P, or the Retry handler, has not ended.
Overlapping(P, retrying) ==
    overlapped' = (overlapped \/ retrying \/ \E q \in P : stage[q] # "idle")

\* Rows cascade with their watch.
Exists(a) == a \in DOMAIN alerts /\ alerts[a].watch \in alive
Pending(a) == Exists(a) /\ ~alerts[a].notified

SetOf(s) == {s[i] : i \in DOMAIN s}

\* ORDER BY created_at DESC: the one way to list the rows of S.
NewestFirst(S) ==
    {s \in [1..Cardinality(S) -> S] : \A i, k \in DOMAIN s : i < k => s[i] > s[k]}

-----------------------------------------------------------------------------
(* evaluateAlert *)

\* mutant: nobody asks for the cooldown
NeverRecent(w, l) == FALSE

HasRecentAlert(w, l) ==
    \E a \in DOMAIN alerts : /\ Exists(a)
                             /\ alerts[a].watch = w /\ alerts[a].listing = l
                             /\ alerts[a].notified /\ alerts[a].recent

\* The score is above the threshold, the filters match, the cooldown is over.
EvaluateAlert(e, w, l) ==
    /\ eval[e] = None
    /\ w \in alive
    /\ ~HasRecentAlert(w, l)
    /\ Len(alerts) < MaxAlerts
    /\ eval' = [eval EXCEPT ![e] = <<w, l>>]
    /\ UNCHANGED <<tableVars, reached, byHand, world, procVars, retry, budget>>

NewAlert(w, l) == [watch |-> w, listing |-> l, notified |-> FALSE, recent |-> FALSE,
                   dismissed |-> FALSE]

\* mutant: the conflict clause is gone
InsertedAnyway(w, l) == Append(alerts, NewAlert(w, l))

\* INSERT ... ON CONFLICT (watch_id, listing_id) WHERE notified = false DO NOTHING
Inserted(w, l) ==
    IF \E a \in DOMAIN alerts : Pending(a) /\ alerts[a].watch = w
                                           /\ alerts[a].listing = l
    THEN alerts ELSE Append(alerts, NewAlert(w, l))

\* CreateAlert; it fails when the watch has been deleted meanwhile.
CreateAlert(e) ==
    /\ eval[e] # None
    /\ LET w == eval[e][1]
           l == eval[e][2]
       IN  IF w \in alive
           THEN alerts' = Inserted(w, l) /\ Len(alerts') <= MaxAlerts
           ELSE UNCHANGED alerts
    /\ eval' = [eval EXCEPT ![e] = None]
    /\ UNCHANGED <<succeeded, reached, byHand, world, procVars, retry, budget>>

-----------------------------------------------------------------------------
(* ProcessAlerts: locals of processor p, and what each write does. *)

To(p, s) == stage' = [stage EXCEPT ![p] = s]

Abandon(p) ==
    /\ To(p, "watch")
    /\ todo' = [todo EXCEPT ![p] = <<>>]
    /\ batch' = [batch EXCEPT ![p] = <<>>]
    /\ sent' = [sent EXCEPT ![p] = 0]

\* mutant: the UPDATE stamps notified_at and leaves notified alone
StampedOnly(S) ==
    [a \in DOMAIN alerts |->
        IF a \in S /\ Exists(a) THEN [alerts[a] EXCEPT !.recent = TRUE] ELSE alerts[a]]

\* MarkAlertNotified, MarkAlertsNotified
Marked(S) ==
    [a \in DOMAIN alerts |->
        IF a \in S /\ Exists(a)
        THEN [alerts[a] EXCEPT !.notified = TRUE, !.recent = TRUE] ELSE alerts[a]]

\* InsertNotificationAttempt; the foreign key refuses a deleted alert.
Recorded(a, ok) == IF ok /\ Exists(a) THEN succeeded \cup {a} ELSE succeeded

\* mutant: any attempt counts, so nothing is ever taken for delivered
NeverDelivered(a) == FALSE

HasSuccessfulNotification(a) == a \in succeeded

\* A webhook post of the embeds S. A post that is reported as failed may have
\* been delivered (timeout after Discord accepted it).
Delivered(S) == [a \in Ids |-> IF a \in S THEN reached[a] + 1 ELSE reached[a]]
PostSucceeds(S) == reached' = Delivered(S) /\ UNCHANGED budget
PostFails(S) == Spend("sends") /\ reached' \in {reached, Delivered(S)}

\* ListPendingAlerts, then the grouping or the summary.
ListPendingAlerts(p) ==
    LET pending == {a \in DOMAIN alerts : Pending(a)} IN
    /\ stage[p] = "idle"
    /\ pending # {}
    /\ IF summaryOnly
       THEN To(p, "post") /\ \E rows \in NewestFirst(pending) : batch' = [batch EXCEPT ![p] = rows]
                          /\ UNCHANGED snap
       ELSE To(p, "watch") /\ snap' = [snap EXCEPT ![p] = pending]
                           /\ UNCHANGED batch
    /\ Overlapping(Processors \ {p}, retry # None)
    /\ UNCHANGED <<tableVars, reached, byHand, alive, summaryOnly, eval, todo, sent,
                   retry, budget>>

\* The next group of the map; a deleted watch is skipped, as is one that
\* GetWatch fails for.
NextWatch(p) ==
    /\ stage[p] = "watch"
    /\ IF snap[p] = {}
       THEN To(p, "idle") /\ UNCHANGED <<snap, todo, budget>>
       ELSE \E w \in {alerts[a].watch : a \in snap[p]} :
              LET group == {a \in snap[p] : alerts[a].watch = w} IN
              /\ snap' = [snap EXCEPT ![p] = @ \ group]
              /\ \/ /\ w \in alive
                    /\ \E rows \in NewestFirst(group) : todo' = [todo EXCEPT ![p] = rows]
                    /\ To(p, IF Cardinality(group) >= BatchThreshold
                             THEN "filter" ELSE "check")
                    /\ UNCHANGED budget
                 \/ /\ IF w \in alive THEN Glitch ELSE UNCHANGED budget
                    /\ UNCHANGED <<stage, todo>>
    /\ UNCHANGED <<tableVars, reached, byHand, world, eval, batch, sent, retry>>

-----------------------------------------------------------------------------
(* sendSingle, for the head of todo; an error abandons the rest of the watch. *)

Current(p) == Head(todo[p])
Advance(p) == todo' = [todo EXCEPT ![p] = Tail(@)]

\* HasSuccessfulNotification and GetListingByID
CheckSingle(p) ==
    /\ stage[p] = "check"
    /\ \/ /\ todo[p] = <<>>
          /\ To(p, "watch")
          /\ UNCHANGED <<todo, batch, sent, budget>>
       \/ /\ todo[p] # <<>>
          /\ IF HasSuccessfulNotification(Current(p))
             THEN Advance(p) /\ UNCHANGED stage
             ELSE To(p, "send") /\ UNCHANGED todo
          /\ UNCHANGED <<batch, sent, budget>>
       \/ todo[p] # <<>> /\ Glitch /\ Abandon(p)
    /\ UNCHANGED <<tableVars, reached, byHand, world, eval, snap, retry>>

\* SendAlert; `sent` is 1 when it returned nil.
SendSingle(p) ==
    /\ stage[p] = "send"
    /\ \/ PostSucceeds({Current(p)}) /\ sent' = [sent EXCEPT ![p] = 1]
       \/ PostFails({Current(p)}) /\ UNCHANGED sent
    /\ To(p, "attempt")
    /\ UNCHANGED <<tableVars, byHand, world, eval, snap, todo, batch, retry>>

\* InsertNotificationAttempt: an error is logged; a failed send ends the watch.
AttemptSingle(p) ==
    /\ stage[p] = "attempt"
    /\ \/ succeeded' = Recorded(Current(p), sent[p] = 1) /\ UNCHANGED budget
       \/ Glitch /\ UNCHANGED succeeded
    /\ IF sent[p] = 1
       THEN To(p, "mark") /\ sent' = [sent EXCEPT ![p] = 0]
                          /\ UNCHANGED <<todo, batch>>
       ELSE Abandon(p)
    /\ UNCHANGED <<alerts, reached, byHand, world, eval, snap, retry>>

\* MarkAlertNotified; a failed UPDATE may have committed.
MarkSingle(p) ==
    /\ stage[p] = "mark"
    /\ \/ /\ alerts' = Marked({Current(p)})
          /\ To(p, "check")
          /\ Advance(p)
          /\ UNCHANGED <<batch, sent, budget>>
       \/ Glitch /\ Abandon(p) /\ alerts' \in {alerts, Marked({Current(p)})}
    /\ UNCHANGED <<succeeded, reached, byHand, world, eval, snap, retry>>

-----------------------------------------------------------------------------
(* sendBatch, and processSummary from its send on. *)

\* The loop that builds toSend: skip on an error and when already delivered.
FilterBatch(p) ==
    /\ stage[p] = "filter"
    /\ todo[p] # <<>>
    /\ \/ /\ batch' = IF HasSuccessfulNotification(Current(p)) THEN batch
                      ELSE [batch EXCEPT ![p] = Append(@, Current(p))]
          /\ UNCHANGED budget
       \/ Glitch /\ UNCHANGED batch
    /\ Advance(p)
    /\ UNCHANGED <<tableVars, reached, byHand, world, eval, stage, snap, sent, retry>>

BatchBuilt(p) ==
    /\ stage[p] = "filter"
    /\ todo[p] = <<>>
    /\ To(p, IF batch[p] = <<>> THEN "watch" ELSE "post")
    /\ UNCHANGED <<tableVars, reached, byHand, world, eval, snap, todo, batch, sent,
                   retry, budget>>

\* The next chunk of SendBatchAlert; a summary is one post for all its alerts.
Chunk(p) ==
    LET end == IF summaryOnly \/ sent[p] + ChunkSize > Len(batch[p])
               THEN Len(batch[p]) ELSE sent[p] + ChunkSize
    IN  SubSeq(batch[p], sent[p] + 1, end)

\* mutant: the whole batch counts as delivered
WholeBatch(p, n) == batch[p]

\* toSend[0:sentCount]
DeliveredIds(p, n) == SubSeq(batch[p], 1, n)

\* Posting ends with n alerts sent: the loop of recordAttempt is next.
PostingEnds(p, n) ==
    /\ To(p, "attempts")
    /\ todo' = [todo EXCEPT ![p] = DeliveredIds(p, n)]

SendChunk(p) ==
    /\ stage[p] = "post"
    /\ \/ /\ PostSucceeds(SetOf(Chunk(p)))
          /\ sent' = [sent EXCEPT ![p] = @ + Len(Chunk(p))]
          /\ IF sent'[p] = Len(batch[p])
             THEN PostingEnds(p, sent'[p]) ELSE UNCHANGED <<stage, todo>>
       \/ /\ PostFails(SetOf(Chunk(p)))
          /\ PostingEnds(p, sent[p])
          /\ UNCHANGED sent
    /\ UNCHANGED <<tableVars, byHand, world, eval, snap, batch, retry>>

\* recordAttempt for the next delivered alert: an error is logged. (The failed
\* attempts recorded for the others are never read by the pipeline.)
RecordAttempt(p) ==
    /\ stage[p] = "attempts"
    /\ todo[p] # <<>>
    /\ \/ succeeded' = Recorded(Current(p), TRUE) /\ UNCHANGED budget
       \/ Glitch /\ UNCHANGED succeeded
    /\ Advance(p)
    /\ UNCHANGED <<alerts, reached, byHand, world, eval, stage, snap, batch, sent, retry>>

AttemptsRecorded(p) ==
    /\ stage[p] = "attempts"
    /\ todo[p] = <<>>
    /\ IF sent[p] > 0
       THEN To(p, "markAll") /\ UNCHANGED <<todo, batch, sent>>
       ELSE Abandon(p)
    /\ UNCHANGED <<tableVars, reached, byHand, world, eval, snap, retry, budget>>

\* MarkAlertsNotified, one statement; an error is logged.
MarkBatch(p) ==
    /\ stage[p] = "markAll"
    /\ \/ alerts' = Marked(SetOf(DeliveredIds(p, sent[p]))) /\ UNCHANGED budget
       \/ Glitch /\ UNCHANGED alerts
    /\ Abandon(p)
    /\ UNCHANGED <<succeeded, reached, byHand, world, eval, snap, retry>>

ProcessorStep(p) ==
    \/ ListPendingAlerts(p) \/ NextWatch(p)
    \/ CheckSingle(p) \/ SendSingle(p) \/ AttemptSingle(p) \/ MarkSingle(p)
    \/ FilterBatch(p) \/ BatchBuilt(p) \/ SendChunk(p)
    \/ RecordAttempt(p) \/ AttemptsRecorded(p) \/ MarkBatch(p)

\* The process of p dies; the next cycle starts from the tables.
Crash(p) ==
    /\ stage[p] # "idle"
    /\ Glitch
    /\ To(p, "idle")
    /\ snap' = [snap EXCEPT ![p] = {}]
    /\ todo' = [todo EXCEPT ![p] = <<>>]
    /\ batch' = [batch EXCEPT ![p] = <<>>]
    /\ sent' = [sent EXCEPT ![p] = 0]
    /\ UNCHANGED <<tableVars, reached, byHand, world, eval, retry>>

-----------------------------------------------------------------------------
(* Operators and time. *)

\* Retry: GetAlertDetail, SendAlert ...
RetrySend(a) ==
    /\ retry = None
    /\ Exists(a)
    /\ Spend("retries")
    /\ \E ok \in BOOLEAN :
          /\ retry' = [alert |-> a, ok |-> ok]
          /\ byHand' \in IF ok THEN {byHand \cup {a}} ELSE {byHand, byHand \cup {a}}
    /\ Overlapping(Processors, FALSE)
    /\ UNCHANGED <<tableVars, reached, alive, summaryOnly, eval, procVars>>

\* ... InsertNotificationAttempt. Neither notified nor dismissed changes.
RetryRecord ==
    /\ retry # None
    /\ \/ succeeded' = Recorded(retry.alert, retry.ok) /\ UNCHANGED budget
       \/ Glitch /\ UNCHANGED succeeded
    /\ retry' = None
    /\ UNCHANGED <<alerts, reached, byHand, world, eval, procVars>>

\* DismissOne, DismissBulk (one of its ids) and Restore set and clear dismissed_at,
\* and nothing else.
SetDismissed(a, to) ==
    /\ Exists(a)
    /\ alerts[a].dismissed # to
    /\ Spend("dismissals")
    /\ alerts' = [alerts EXCEPT ![a].dismissed = to]
    /\ UNCHANGED <<succeeded, reached, byHand, world, eval, procVars, retry>>

DismissAlert(a) == SetDismissed(a, TRUE)
RestoreAlert(a) == SetDismissed(a, FALSE)

\* DELETE FROM watches, cascading to alerts and notification_attempts.
DeleteWatch(w) ==
    /\ w \in alive
    /\ Spend("deletes")
    /\ alive' = alive \ {w}
    /\ UNCHANGED <<tableVars, reached, byHand, summaryOnly, overlapped, eval, procVars, retry>>

\* The cooldown of a notified alert is over.
CooldownElapses(a) ==
    /\ Exists(a)
    /\ alerts[a].recent
    /\ alerts' = [alerts EXCEPT ![a].recent = FALSE]
    /\ UNCHANGED <<succeeded, reached, byHand, world, eval, procVars, retry, budget>>

-----------------------------------------------------------------------------
Next ==
    \/ \E e \in Evaluators :
          \/ \E w \in Watches, l \in Listings : EvaluateAlert(e, w, l)
          \/ CreateAlert(e)
    \/ \E p \in Processors : ProcessorStep(p) \/ Crash(p)
    \/ \E a \in DOMAIN alerts : \/ RetrySend(a) \/ CooldownElapses(a)
                               \/ DismissAlert(a) \/ RestoreAlert(a)
    \/ RetryRecord
    \/ \E w \in Watches : DeleteWatch(w)

Spec == Init /\ [][Next]_vars

\* ProcessAlerts is called at the end of every cycle and every call in it
\* returns. Failures and operators are not owed to anybody.
FairSpec == Spec /\ \A p \in Processors : WF_vars(ProcessorStep(p))

-----------------------------------------------------------------------------
(* Properties. *)

\* docs/design/0009:59: an alert is marked notified only after its own embed got
\* into Discord, also when a batch is cut short or an earlier crash left a
\* half-recorded one.
NotifiedOnlyIfReached ==
    \A a \in DOMAIN alerts : alerts[a].notified => reached[a] > 0

\* A succeeded attempt is never recorded for an embed that did not arrive.
AttemptsTruthful == \A a \in succeeded : reached[a] > 0 \/ a \in byHand

\* docs/impl/0012:455: an embed is not sent again once a succeeded attempt of
\* its alert is on record. It takes two things that the code does not have for
\* it to hold without conditions: a lock between the question and the send (so
\* nobody else may be sending), and the question itself in processSummary.
NotResent ==
    [][\A a \in Ids : reached'[a] > reached[a] /\ ~summaryOnly /\ ~overlapped
          => a \notin succeeded]_vars

\* The pipeline implements the outbox, whatever is interleaved, lost or crashes:
\* a row is closed and a receipt taken only after the message arrived, messages
\* go out for rows only, a second row only when the first one is closed.
Outbox == INSTANCE AlertOutbox WITH
    rows     <- [a \in DOMAIN alerts |-> [watch   |-> alerts[a].watch,
                                          listing |-> alerts[a].listing,
                                          closed  |-> alerts[a].notified]],
    posted   <- {a \in Ids : reached[a] > 0},
    receipts <- succeeded
ImplementsOutbox == Outbox!OutboxSpec

\* Alerts of a watch and a listing that were notified within the cooldown.
CoolingDown(w, l) ==
    {a \in DOMAIN alerts : /\ Exists(a)
                           /\ alerts[a].watch = w /\ alerts[a].listing = l
                           /\ alerts[a].notified /\ alerts[a].recent}

\* docs/impl/0012:346: the cooldown prevents a second alert for a listing. It is
\* read before the insert, so every call of evaluateAlert that was between the
\* two may add one, and so does an alert that was pending all along; but never
\* more, unless a call of ProcessAlerts marks what another one has marked.
CooldownBounded ==
    ~overlapped => \A w \in Watches, l \in Listings :
                      Cardinality(CoolingDown(w, l)) <= 1 + Cardinality(Evaluators)

\* As long as no database call fails and nobody retries by hand, every pending
\* alert is notified or goes with its watch, once Discord answers again.
PendingEventuallyNotified ==
    \A a \in Ids : (a \in DOMAIN alerts /\ Pending(a))
        ~> (~Pending(a) \/ budget.faults < MaxFaults \/ budget.retries < MaxRetries)

\* docs/impl/0012:454: a deal that reappears fires a second alert. The first
\* one has to leave the pending state once it has been delivered.
DeliveredEventuallyNotified ==
    \A a \in Ids : (a \in succeeded /\ Pending(a)) ~> ~Pending(a)
=============================================================================
