---------------------------- MODULE SchedulerLock ----------------------------
(***************************************************************************)
(* Scheduler.runJob for one job name: the row of scheduler_locks, the      *)
(* rows of job_runs, and the cron ticks of several replicas that go        *)
(* through them.                                                           *)
(*                                                                         *)
(* Source: internal/engine/scheduler.go (runJob, RecoverStaleJobRuns),     *)
(* internal/store/postgres.go and queries.go (the SQL), the HTTP triggers  *)
(* of internal/api/handlers/trigger.go, and shutdownServer.                *)
(*                                                                         *)
(* Time is relative: expires_at is kept as the time left until it (below   *)
(* zero: expires_at < now()), started_at as the age of the row. Both       *)
(* saturate, so that time never runs out. Pods and database share one      *)
(* clock.                                                                  *)
(*                                                                         *)
(* cron starts every tick in a goroutine of its own, so ticks of one host  *)
(* overlap. A slot of Ticks stands for one such goroutine and is used      *)
(* again for a later tick; runs[t] is the row of its latest one.           *)
(***************************************************************************)
EXTENDS Integers, FiniteSets

CONSTANTS
    Hosts,       \* replicas; the lock holder is os.Hostname()
    Ticks,       \* bound: goroutines in runJob at the same time
    None,        \* no lock row
    TTL,         \* the ttl argument of runJob (30 or 60 minutes)
    StaleAfter,  \* RecoverStaleJobRuns' cutoff (2 hours)
    MaxFaults    \* bound: failed database calls, crashes and shutdowns

ASSUME LockConstants ==
    /\ None \notin Hosts
    /\ TTL \in Nat
    /\ StaleAfter \in Nat
    /\ TTL < StaleAfter
    /\ MaxFaults \in Nat

VARIABLES
    holder,   \* scheduler_locks.lock_holder; None: no row
    left,     \* scheduler_locks.expires_at, as time left; -1: in the past
    pc,       \* per tick: where it is in runJob
    host,     \* per tick: the replica it runs on
    lease,    \* per tick: time left of the lock it acquired; -1: expired
    runs,     \* job_runs: per tick, its row's status; "none": no row
    age,      \* job_runs: per tick, time since started_at while status = 'running'
    up,       \* per host: "up", "draining" (cron stopped), "down"
    faults,   \* failures so far
    overran   \* history: a tick was still in runJob when its lock expired

lockVars == <<holder, left>>
tickVars == <<pc, host, lease>>
rowVars  == <<runs, age>>
vars == <<lockVars, tickVars, rowVars, up, faults, overran>>

Stages == {"idle", "insert", "unlock", "bare", "running", "manual", "release",
           "record", "done", "dead"}

Statuses == {"running", "succeeded", "failed", "crashed"}

TypeOK ==
    /\ holder \in Hosts \cup {None}
    /\ left \in -1..TTL
    /\ pc \in [Ticks -> Stages]
    /\ host \in [Ticks -> Hosts \cup {None}]
    /\ lease \in [Ticks -> -1..TTL]
    /\ runs \in [Ticks -> Statuses \cup {"none"}]
    /\ age \in [Ticks -> 0..StaleAfter + 1]
    /\ up \in [Hosts -> {"up", "draining", "down"}]
    /\ faults \in 0..MaxFaults
    /\ overran \in BOOLEAN

Init ==
    /\ holder = None
    /\ left = -1
    /\ pc = [t \in Ticks |-> "idle"]
    /\ host = [t \in Ticks |-> None]
    /\ lease = [t \in Ticks |-> -1]
    /\ runs = [t \in Ticks |-> "none"]
    /\ age = [t \in Ticks |-> 0]
    /\ up = [h \in Hosts |-> "up"]
    /\ faults = 0
    /\ overran = FALSE

-----------------------------------------------------------------------------
Glitch == faults < MaxFaults /\ faults' = faults + 1

Goto(t, stage) == pc' = [pc EXCEPT ![t] = stage]

\* Between a successful AcquireSchedulerLock and the attempt to release it.
Holding(t) == pc[t] \in {"insert", "unlock", "running", "release"}

\* Inside the job function: from a cron tick, or from any caller.
InCron(t) == pc[t] \in {"running", "bare"}
InBody(t) == InCron(t) \/ pc[t] = "manual"

\* mutant: ON CONFLICT DO NOTHING, an expired row is never replaced
FreeIfAbsent == holder = None

\* INSERT, or ON CONFLICT DO UPDATE ... WHERE expires_at < now()
LockFree == holder = None \/ left < 0

\* mutant: an expired or expiring row is replaced
TakeAnyLock(h) == holder' = h /\ left' = TTL

TakeLock(h) == LockFree /\ holder' = h /\ left' = TTL

-----------------------------------------------------------------------------
(* runJob, step by step. *)

\* AcquireSchedulerLock and the checks after it.
Acquire(t, h) ==
    /\ pc[t] = "idle"
    /\ up[h] = "up"
    /\ host' = [host EXCEPT ![t] = h]
    /\ \/ /\ TakeLock(h)
          /\ lease' = [lease EXCEPT ![t] = TTL]
          /\ Goto(t, "insert")
       \/ /\ ~LockFree
          /\ Goto(t, "done")
          /\ UNCHANGED <<lockVars, lease>>
    /\ UNCHANGED <<rowVars, up, faults, overran>>

\* The call failed, its statement executed or not: the tick is skipped.
AcquireFails(t, h) ==
    /\ pc[t] = "idle"
    /\ up[h] = "up"
    /\ Glitch
    /\ TakeLock(h) \/ UNCHANGED lockVars
    /\ host' = [host EXCEPT ![t] = h]
    /\ Goto(t, "done")
    /\ UNCHANGED <<lease, rowVars, up, overran>>

\* POST /api/v1/ingest and /baselines/refresh call the engine directly.
Trigger(t, h) ==
    /\ pc[t] = "idle"
    /\ up[h] = "up"
    /\ host' = [host EXCEPT ![t] = h]
    /\ Goto(t, "manual")
    /\ UNCHANGED <<lockVars, lease, rowVars, up, faults, overran>>

InsertedRow(t) ==
    /\ runs' = [runs EXCEPT ![t] = "running"]
    /\ age' = [age EXCEPT ![t] = 0]

\* InsertJobRun; on an error the lock is released and the job runs all the same.
InsertJobRun(t) ==
    /\ pc[t] = "insert"
    /\ \/ /\ InsertedRow(t)
          /\ Goto(t, "running")
          /\ UNCHANGED faults
       \/ /\ Glitch
          /\ InsertedRow(t) \/ UNCHANGED rowVars
          /\ Goto(t, "unlock")
    /\ UNCHANGED <<lockVars, host, lease, up, overran>>

\* DELETE ... WHERE job_name = $1 AND lock_holder = $2
DeleteLock(t) ==
    IF holder = host[t] THEN holder' = None /\ left' = -1 ELSE UNCHANGED lockVars

\* ReleaseSchedulerLock; an error is only logged.
Release(t, from, to) ==
    /\ pc[t] = from
    /\ \/ DeleteLock(t) /\ UNCHANGED faults
       \/ Glitch /\ UNCHANGED lockVars
    /\ Goto(t, to)
    /\ lease' = [lease EXCEPT ![t] = -1]
    /\ UNCHANGED <<host, rowVars, up, overran>>

ReleaseThenRun(t) == Release(t, "unlock", "bare")

\* The job function returns nil or an error.
JobReturns(t) ==
    /\ \/ pc[t] = "running" /\ Goto(t, "release")
       \/ pc[t] \in {"bare", "manual"} /\ Goto(t, "done")
    /\ UNCHANGED <<lockVars, host, lease, rowVars, up, faults, overran>>

DeferredRelease(t) == Release(t, "release", "record")

\* CompleteJobRun, after the release, with the status that the job function's
\* result gave; an error is only logged.
CompleteJobRun(t) ==
    /\ pc[t] = "record"
    /\ \/ /\ \E status \in {"succeeded", "failed"} :
                runs' = [runs EXCEPT ![t] = status]
          /\ age' = [age EXCEPT ![t] = 0]
          /\ UNCHANGED faults
       \/ Glitch /\ UNCHANGED rowVars
    /\ Goto(t, "done")
    /\ UNCHANGED <<lockVars, host, lease, up, overran>>

\* The goroutine has ended; the slot serves a later tick.
NextTick(t) ==
    /\ \/ pc[t] = "done"
       \/ pc[t] = "dead" /\ up[host[t]] = "up"
    /\ Goto(t, "idle")
    /\ host' = [host EXCEPT ![t] = None]
    /\ lease' = [lease EXCEPT ![t] = -1]
    /\ runs' = [runs EXCEPT ![t] = "none"]
    /\ age' = [age EXCEPT ![t] = 0]
    /\ UNCHANGED <<lockVars, up, faults, overran>>

-----------------------------------------------------------------------------
(* Time and processes. *)

Less(n) == IF n < 0 THEN n ELSE n - 1
More(n) == IF n > StaleAfter THEN n ELSE n + 1

TimePasses ==
    /\ left' = Less(left)
    /\ lease' = [t \in Ticks |-> Less(lease[t])]
    /\ age' = [t \in Ticks |-> IF runs[t] = "running" THEN More(age[t]) ELSE 0]
    /\ overran' = (overran \/ \E t \in Ticks : Holding(t) /\ Less(lease[t]) < 0)
    /\ UNCHANGED <<holder, pc, host, runs, up, faults>>

Active(t) == pc[t] \notin {"idle", "done", "dead"}

\* shutdownServer: cron.Stop, then wait for the running jobs.
StopScheduler(h) ==
    /\ up[h] = "up"
    /\ Glitch
    /\ up' = [up EXCEPT ![h] = "draining"]
    /\ UNCHANGED <<lockVars, tickVars, rowVars, overran>>

Drained(h) ==
    /\ up[h] = "draining"
    /\ \A t \in Ticks : host[t] = h => ~Active(t)
    /\ up' = [up EXCEPT ![h] = "down"]
    /\ UNCHANGED <<lockVars, tickVars, rowVars, faults, overran>>

\* The process dies, in the middle of whatever its ticks do.
Crash(h) ==
    /\ up[h] # "down"
    /\ Glitch
    /\ up' = [up EXCEPT ![h] = "down"]
    /\ pc' = [t \in Ticks |-> IF host[t] = h /\ Active(t) THEN "dead" ELSE pc[t]]
    /\ UNCHANGED <<lockVars, host, lease, rowVars, overran>>

\* mutant: no cutoff, every row in 'running' is taken for a crashed one
CrashedAll == [t \in Ticks |-> IF runs[t] = "running" THEN "crashed" ELSE runs[t]]

\* UPDATE job_runs SET status = 'crashed' WHERE status = 'running' AND
\* started_at < now() - 2 hours
MarkedCrashed ==
    [t \in Ticks |-> IF runs[t] = "running" /\ age[t] > StaleAfter
                     THEN "crashed" ELSE runs[t]]

\* A new process: buildEngine calls RecoverStaleJobRuns, whose error is logged.
\* (Rows older than 30 days, which it also deletes, are beyond the horizon.)
Restart(h) ==
    /\ up[h] = "down"
    /\ up' = [up EXCEPT ![h] = "up"]
    /\ \/ /\ runs' = MarkedCrashed
          /\ age' = [t \in Ticks |-> IF runs'[t] = "running" THEN age[t] ELSE 0]
          /\ UNCHANGED faults
       \/ Glitch /\ UNCHANGED rowVars
    /\ UNCHANGED <<lockVars, tickVars, overran>>

-----------------------------------------------------------------------------
TickStep(t) ==
    \/ InsertJobRun(t)
    \/ ReleaseThenRun(t)
    \/ JobReturns(t)
    \/ DeferredRelease(t)
    \/ CompleteJobRun(t)
    \/ NextTick(t)

Next ==
    \/ \E t \in Ticks : TickStep(t)
    \/ \E t \in Ticks, h \in Hosts : Acquire(t, h) \/ AcquireFails(t, h) \/ Trigger(t, h)
    \/ \E h \in Hosts : StopScheduler(h) \/ Drained(h) \/ Crash(h) \/ Restart(h)
    \/ TimePasses

Spec == Init /\ [][Next]_vars

\* Time advances; every call returns, so a tick in runJob moves on; cron keeps
\* firing on a live host, in a goroutine that no HTTP trigger takes from it
\* (strong fairness, as the two share the slots of Ticks); a stopped replica is
\* drained and started again by the orchestrator. Nothing makes Trigger or a
\* failure happen.
FairSpec ==
    /\ Spec
    /\ WF_vars(TimePasses)
    /\ \A t \in Ticks : WF_vars(TickStep(t))
    /\ \A t \in Ticks : SF_vars(\E h \in Hosts : Acquire(t, h))
    /\ \A h \in Hosts : WF_vars(Drained(h)) /\ WF_vars(Restart(h))

-----------------------------------------------------------------------------
(* Properties. *)

\* While no run outlives the TTL of its lock and none was started outside the
\* lock (the HTTP triggers, a failed InsertJobRun), at most one tick of all
\* replicas is in the job function, whatever crashes and whichever release or
\* acquire fails.
MutexWithinTTL ==
    ~overran /\ (\A t \in Ticks : pc[t] \notin {"bare", "manual"}) =>
        \A t, u \in Ticks : InBody(t) /\ InBody(u) => t = u

\* The strengthening that makes MutexWithinTTL inductive: until some run
\* overran, the lock row is the row of the one tick that holds it.
LockIsHolders ==
    ~overran =>
        /\ \A t, u \in Ticks : Holding(t) /\ Holding(u) => t = u
        /\ \A t \in Ticks : Holding(t) =>
              holder = host[t] /\ holder # None /\ left = lease[t] /\ left >= 0

\* RecoverStaleJobRuns on one replica never declares crashed a run that is
\* still going on another one, as long as runs stay within their TTL: the
\* cutoff is longer than any TTL.
RecoveryOnlyHitsTheDead ==
    ~overran => \A t \in Ticks :
        pc[t] = "running" => runs[t] = "running" /\ age[t] <= TTL - lease[t]

\* migrations/002: a crashed holder's lock expires, so the job is never blocked
\* for good: under bounded failures it is run again and again.
JobNeverBlocked == []<>(\E t \in Ticks : InCron(t))
=============================================================================
