--------------------------- MODULE BufferedClient ---------------------------
(***************************************************************************)
(* Langfuse telemetry: LogGeneration and Score put a record into a bounded *)
(* channel or drop it, one drain goroutine posts the records with retries, *)
(* and Stop lets it flush what is queued before the process ends.          *)
(*                                                                         *)
(* Source: pkg/observability/langfuse/buffered_client.go, http_client.go;  *)
(* the producers in pkg/extract/langfuse_backend.go; Start and Stop in     *)
(* initLangfuse of cmd/server-price-tracker/cmd/serve.go.                  *)
(*                                                                         *)
(* Langfuse is external: an event may arrive although its answer is lost.  *)
(* The parent context is context.Background() and never ends.              *)
(***************************************************************************)
EXTENDS Integers, Sequences

CONSTANTS
    Records,     \* generations and scores, each produced once
    NoRecord,
    BufferSize,  \* observability.langfuse.buffer_size
    MaxRetries   \* HTTPClient.maxRetries, 3 in the code

ASSUME BufferConstants ==
    /\ NoRecord \notin Records
    /\ BufferSize \in Nat \ {0} /\ MaxRetries \in Nat

VARIABLES
    jobs,      \* the channel
    drain,     \* the drain goroutine: "none", "select", "flush" or "exited"
    job,       \* the job it is running
    tries,     \* postWithResponse: the attempt
    stopped,   \* stopCh is closed, shutdownCtx is set
    expired,   \* the deadline of shutdownCtx has passed
    stop,      \* what Stop returned: "none", "nil" or "timeout"
    up,        \* the process is running
    fate,      \* per record: "none", "dropped", "written" or "failed", as the metrics count it
    skipped,   \* records of calls without a trace
    accepted,  \* Langfuse: records whose event it has accepted
    before     \* history: records that were queued or in work when Stop was called

buffer  == <<jobs, fate, skipped>>
writer  == <<drain, job, tries>>
closing == <<stopped, expired, stop, before>>
bufferVars == <<buffer, writer, closing, accepted, up>>

Queued == {jobs[i] : i \in 1..Len(jobs)}
InWork == {job} \ {NoRecord}

InitBuffer ==
    /\ jobs = <<>>
    /\ fate = [r \in Records |-> "none"]
    /\ skipped = {}
    /\ drain = "none" /\ job = NoRecord /\ tries = 0
    /\ stopped = FALSE /\ expired = FALSE /\ stop = "none" /\ before = {}
    /\ accepted = {}
    /\ up = TRUE

\* Start, once; after Stop it does nothing.
Start ==
    /\ up /\ drain = "none" /\ ~stopped
    /\ drain' = "select"
    /\ UNCHANGED <<buffer, job, tries, closing, accepted, up>>

-----------------------------------------------------------------------------
(* The producers. *)

IsNew(r) == up /\ fate[r] = "none" /\ r \notin Queued \cup InWork \cup skipped

\* Plausible fault: the oldest record makes room for the new one.
EnqueueDropOldest(r) ==
    /\ jobs' = IF Len(jobs) < BufferSize THEN Append(jobs, r) ELSE Append(Tail(jobs), r)
    /\ UNCHANGED fate

\* enqueue: the send succeeds if the channel has room, whether or not Stop was
\* called; otherwise the new record is dropped and counted.
Enqueue(r) ==
    \/ /\ Len(jobs) < BufferSize
       /\ jobs' = Append(jobs, r)
       /\ UNCHANGED fate
    \/ /\ Len(jobs) = BufferSize
       /\ fate' = [fate EXCEPT ![r] = "dropped"]
       /\ UNCHANGED jobs

\* LogGeneration and Score.
LogRecord(r) ==
    /\ IsNew(r)
    /\ Enqueue(r)
    /\ UNCHANGED <<skipped, writer, closing, accepted, up>>

\* LangfuseBackend.Generate logs its call whether it failed or not, except
\* without an active trace.
GenerateUntraced(r) ==
    /\ IsNew(r)
    /\ skipped' = skipped \cup {r}
    /\ UNCHANGED <<jobs, fate, writer, closing, accepted, up>>

-----------------------------------------------------------------------------
(* The drain goroutine. *)

\* A select with a job and the stop signal ready may choose either; the flush
\* after the stop signal takes jobs until the channel is empty.
TakeJob ==
    /\ up /\ drain \in {"select", "flush"} /\ job = NoRecord /\ jobs # <<>>
    /\ job' = Head(jobs)
    /\ jobs' = Tail(jobs)
    /\ tries' = 0
    /\ UNCHANGED <<fate, skipped, drain, closing, accepted, up>>

\* Plausible fault: the stop signal ends the goroutine without a flush.
ExitOnStop ==
    /\ up /\ drain = "select" /\ job = NoRecord /\ stopped
    /\ drain' = "exited"
    /\ UNCHANGED <<buffer, job, tries, closing, accepted, up>>

SeeStop ==
    /\ up /\ drain = "select" /\ job = NoRecord /\ stopped
    /\ drain' = "flush"
    /\ UNCHANGED <<buffer, job, tries, closing, accepted, up>>

EndFlush ==
    /\ up /\ drain = "flush" /\ job = NoRecord /\ jobs = <<>>
    /\ drain' = "exited"
    /\ UNCHANGED <<buffer, job, tries, closing, accepted, up>>

\* runJob ends: the outcome is counted.
RecordWrite(outcome) ==
    /\ fate' = [fate EXCEPT ![job] = outcome]
    /\ job' = NoRecord
    /\ tries' = 0

\* The context of a write: the parent's, or in the flush the one of Stop.
CtxDone == drain = "flush" /\ expired

\* ingest: a 2xx answer without errors in its body.
Written ==
    /\ up /\ job # NoRecord /\ ~CtxDone
    /\ accepted' = accepted \cup {job}
    /\ RecordWrite("written")
    /\ UNCHANGED <<jobs, skipped, drain, closing, up>>

\* A 4xx, an answer that does not decode, or a 2xx that lists the event under
\* errors: not retried.
Rejected ==
    /\ up /\ job # NoRecord /\ ~CtxDone
    /\ RecordWrite("failed")
    /\ UNCHANGED <<jobs, skipped, drain, closing, accepted, up>>

\* Plausible fault: a transient error is retried without end.
RetryWithoutEnd ==
    /\ up /\ job # NoRecord
    /\ tries' = IF tries < MaxRetries THEN tries + 1 ELSE 0
    /\ UNCHANGED <<buffer, drain, job, closing, accepted, up>>

\* A transport error or a 5xx. The event may have arrived all the same; a retry
\* sends it with the same id. The last attempt, and a context that is done when
\* the pause begins, end the write.
Transient ==
    /\ up /\ job # NoRecord
    /\ \/ accepted' = accepted \cup (IF CtxDone THEN {} ELSE {job})
       \/ UNCHANGED accepted
    /\ IF tries = MaxRetries \/ CtxDone
       THEN RecordWrite("failed")
       ELSE tries' = tries + 1 /\ UNCHANGED <<fate, job>>
    /\ UNCHANGED <<jobs, skipped, drain, closing, up>>

RunJob == Written \/ Rejected \/ Transient

-----------------------------------------------------------------------------
(* Stop, and the end of the process. Extraction workers are cancelled but  *)
(* not waited for: they may log while Stop runs and after it.              *)

CallStop ==
    /\ up /\ ~stopped
    /\ stopped' = TRUE
    /\ before' = Queued \cup InWork
    /\ UNCHANGED <<buffer, writer, expired, stop, accepted, up>>

Deadline ==
    /\ up /\ stopped /\ ~expired /\ stop = "none"
    /\ expired' = TRUE
    /\ UNCHANGED <<buffer, writer, stopped, stop, before, accepted, up>>

\* Stop waits for the goroutine (which may never have been started) or for
\* its deadline.
ReturnStop ==
    /\ up /\ stopped /\ stop = "none"
    /\ \/ drain \in {"none", "exited"} /\ stop' = "nil"
       \/ expired /\ stop' = "timeout"
    /\ UNCHANGED <<buffer, writer, stopped, expired, before, accepted, up>>

Exit ==
    /\ up /\ stop # "none"
    /\ up' = FALSE
    /\ UNCHANGED <<buffer, writer, closing, accepted>>

-----------------------------------------------------------------------------
Drain == TakeJob \/ SeeStop \/ EndFlush \/ RunJob

NextBuffer ==
    \/ Start
    \/ \E r \in Records : LogRecord(r) \/ GenerateUntraced(r)
    \/ Drain
    \/ CallStop \/ Deadline \/ ReturnStop \/ Exit

SpecBuffer == InitBuffer /\ [][NextBuffer]_bufferVars

(* The goroutine is started and runs, and every attempt ends by the        *)
(* client's timeout.                                                       *)
BufferFairness == WF_bufferVars(Start \/ Drain)

FairBuffer == SpecBuffer /\ BufferFairness

-----------------------------------------------------------------------------
(* Properties.                                                             *)

\* The buffered client implements the abstract log: nothing is reordered, no
\* record is dropped while there is room, none is settled twice, and only the
\* end of the process loses one.
Log == INSTANCE TelemetryLog WITH
    pending <- (IF job = NoRecord THEN <<>> ELSE <<job>>) \o jobs,
    ended   <- ~up
ImplementsLog == Log!LogSpec

\* "Stop drains pending writes": when it returns nil and the goroutine had been
\* started, every record that was queued when Stop was called has been settled,
\* although the select may see the stop signal first and producers go on.
FlushComplete ==
    (stop = "nil" /\ drain # "none") => \A r \in before : fate[r] \in {"written", "failed"}

\* With Langfuse down or not, everything that was taken is settled, unless the
\* process is told to stop: retries end, and a failed record does not hold up
\* the ones behind it.
TakenIsSettled == (jobs # <<>> \/ job # NoRecord) ~> (jobs = <<>> /\ job = NoRecord) \/ stopped
=============================================================================
