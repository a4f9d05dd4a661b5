------------------------- MODULE SchedulerLockProofs -------------------------
(***************************************************************************)
(* Theorems about SchedulerLock, for any replicas, ticks, TTL and cutoff.  *)
(*                                                                         *)
(* The argument: until some tick outlives its TTL, the lock row belongs to *)
(* the one tick that holds it, and its remaining time is that tick's       *)
(* lease. So nobody can replace the row (its time is not over) and the     *)
(* only tick that deletes it is its owner, although a release names the    *)
(* host and not the tick.                                                  *)
(***************************************************************************)
EXTENDS SchedulerLock, TLAPS

\* The inductive invariant.
LockInv == TypeOK /\ LockIsHolders /\ RecoveryOnlyHitsTheDead

\* The empty tables satisfy the invariant.
LEMMA InitLockInv == Init => LockInv
<1> SUFFICES ASSUME Init PROVE LockInv
  OBVIOUS
<1>1. TypeOK
  <2>1. pc \in [Ticks -> Stages] /\ runs \in [Ticks -> Statuses \cup {"none"}]
    BY DEF Init, Stages
  <2>2. left \in -1..TTL /\ lease \in [Ticks -> -1..TTL]
        /\ age \in [Ticks -> 0..StaleAfter + 1] /\ faults \in 0..MaxFaults
    BY LockConstants DEF Init
  <2> QED  BY <2>1, <2>2 DEF Init, TypeOK
<1>2. \A t \in Ticks : pc[t] = "idle"
  BY DEF Init
<1> QED
  BY <1>1, <1>2 DEF LockInv, LockIsHolders, RecoveryOnlyHitsTheDead, Holding

\* A failure keeps the counter in its range.
LEMMA FaultsBounded ==
    ASSUME TypeOK, Glitch \/ UNCHANGED faults
    PROVE  faults' \in 0..MaxFaults
  BY LockConstants DEF TypeOK, Glitch

-----------------------------------------------------------------------------
LEMMA AcquireTypeOK ==
    ASSUME TypeOK, NEW t \in Ticks, NEW h \in Hosts,
           Acquire(t, h) \/ AcquireFails(t, h) \/ Trigger(t, h)
    PROVE  TypeOK'
<1>1. pc' \in [Ticks -> Stages] /\ host' \in [Ticks -> Hosts \cup {None}]
  BY DEF TypeOK, Acquire, AcquireFails, Trigger, Goto, Stages
<1>2. lease' \in [Ticks -> -1..TTL] /\ left' \in -1..TTL /\ holder' \in Hosts \cup {None}
  BY LockConstants DEF TypeOK, Acquire, AcquireFails, Trigger, TakeLock, lockVars
<1>3. faults' \in 0..MaxFaults
  BY FaultsBounded DEF Acquire, AcquireFails, Trigger
<1> QED
  BY <1>1, <1>2, <1>3 DEF TypeOK, Acquire, AcquireFails, Trigger, rowVars

\* The steps of runJob keep the types.
LEMMA StepTypeOK ==
    ASSUME TypeOK, NEW t \in Ticks, TickStep(t)
    PROVE  TypeOK'
<1>1. pc' \in [Ticks -> Stages] /\ host' \in [Ticks -> Hosts \cup {None}]
  BY DEF TypeOK, TickStep, InsertJobRun, ReleaseThenRun, JobReturns, DeferredRelease,
     CompleteJobRun, NextTick, Release, Goto, Stages
<1>2. lease' \in [Ticks -> -1..TTL] /\ left' \in -1..TTL /\ holder' \in Hosts \cup {None}
  BY LockConstants DEF TypeOK, TickStep, InsertJobRun, ReleaseThenRun, JobReturns,
     DeferredRelease, CompleteJobRun, NextTick, Release, DeleteLock, lockVars
<1>3. runs' \in [Ticks -> Statuses \cup {"none"}] /\ age' \in [Ticks -> 0..StaleAfter + 1]
  BY LockConstants DEF TypeOK, TickStep, InsertJobRun, ReleaseThenRun, JobReturns,
     DeferredRelease, CompleteJobRun, NextTick, Release, InsertedRow, rowVars, Statuses
<1>4. faults' \in 0..MaxFaults
  BY FaultsBounded DEF TickStep, InsertJobRun, ReleaseThenRun, JobReturns,
     DeferredRelease, CompleteJobRun, NextTick, Release
<1>5. UNCHANGED <<up, overran>>
  BY DEF TickStep, InsertJobRun, ReleaseThenRun, JobReturns,
     DeferredRelease, CompleteJobRun, NextTick, Release
<1> QED  BY <1>1, <1>2, <1>3, <1>4, <1>5 DEF TypeOK

\* So does the clock.
LEMMA TimeTypeOK == TypeOK /\ TimePasses => TypeOK'
<1> SUFFICES ASSUME TypeOK, TimePasses PROVE TypeOK'
  OBVIOUS
<1>1. left' \in -1..TTL /\ lease' \in [Ticks -> -1..TTL]
  BY LockConstants DEF TypeOK, TimePasses, Less
<1>2. age' \in [Ticks -> 0..StaleAfter + 1]
  BY LockConstants DEF TypeOK, TimePasses, More
<1>3. overran' \in BOOLEAN
  BY DEF TimePasses
<1> QED  BY <1>1, <1>2, <1>3 DEF TypeOK, TimePasses

\* So do starts, drains, crashes and restarts of a replica.
LEMMA HostTypeOK ==
    ASSUME TypeOK, NEW h \in Hosts,
           StopScheduler(h) \/ Drained(h) \/ Crash(h) \/ Restart(h)
    PROVE  TypeOK'
<1>1. up' \in [Hosts -> {"up", "draining", "down"}] /\ pc' \in [Ticks -> Stages]
  BY DEF TypeOK, StopScheduler, Drained, Crash, Restart, tickVars, Stages
<1>2. runs' \in [Ticks -> Statuses \cup {"none"}]
  BY DEF TypeOK, StopScheduler, Drained, Crash, Restart, rowVars, MarkedCrashed, Statuses
<1>3. age' \in [Ticks -> 0..StaleAfter + 1]
  BY LockConstants, <1>2 DEF TypeOK, StopScheduler, Drained, Crash, Restart, rowVars
<1>4. faults' \in 0..MaxFaults
  BY FaultsBounded DEF StopScheduler, Drained, Crash, Restart
<1> QED
  BY <1>1, <1>2, <1>3, <1>4 DEF TypeOK, StopScheduler, Drained, Crash, Restart,
     lockVars, tickVars

-----------------------------------------------------------------------------
\* A tick that acquires the lock while nobody has overrun finds no holder.
LEMMA AcquireKeepsOwner ==
    ASSUME LockInv, NEW t \in Ticks, NEW h \in Hosts,
           Acquire(t, h) \/ AcquireFails(t, h) \/ Trigger(t, h)
    PROVE  LockIsHolders'
<1> SUFFICES ASSUME ~overran
             PROVE  /\ \A v, u \in Ticks : Holding(v)' /\ Holding(u)' => v = u
                    /\ \A v \in Ticks : Holding(v)' =>
                          /\ holder' = host'[v] /\ holder' # None
                          /\ left' = lease'[v] /\ left' >= 0
  BY DEF LockIsHolders, Acquire, AcquireFails, Trigger
<1>1. /\ pc \in [Ticks -> Stages] /\ host \in [Ticks -> Hosts \cup {None}]
      /\ lease \in [Ticks -> -1..TTL]
  BY DEF LockInv, TypeOK
<1>2. \A v \in Ticks : v # t => (Holding(v)' <=> Holding(v)) /\ host'[v] = host[v]
                              /\ lease'[v] = lease[v]
  BY <1>1 DEF Acquire, AcquireFails, Trigger, Goto, Holding
<1>3. ~Holding(t)
  BY DEF Acquire, AcquireFails, Trigger, Holding
<1>4. LockFree => \A v \in Ticks : ~Holding(v)
  BY LockConstants DEF LockInv, LockIsHolders, LockFree, TypeOK
<1>5. CASE UNCHANGED lockVars /\ ~Holding(t)'
  BY <1>2, <1>3, <1>5 DEF LockInv, LockIsHolders, lockVars
<1>6. CASE TakeLock(h)
  <2>1. \A v \in Ticks : ~Holding(v)
    BY <1>4, <1>6 DEF TakeLock
  <2>2. Holding(t)' => host'[t] = h /\ lease'[t] = TTL
    BY <1>1, <1>6 DEF Acquire, AcquireFails, Trigger, Goto, Holding
  <2> QED  BY <1>2, <1>6, <2>1, <2>2, LockConstants DEF TakeLock
<1> QED
  BY <1>1, <1>5, <1>6 DEF Acquire, AcquireFails, Trigger, Goto, Holding

\* The steps of runJob after the acquire: only the owner deletes the row.
LEMMA StepKeepsOwner ==
    ASSUME LockInv, NEW t \in Ticks, TickStep(t)
    PROVE  LockIsHolders'
<1> SUFFICES ASSUME ~overran
             PROVE  /\ \A v, u \in Ticks : Holding(v)' /\ Holding(u)' => v = u
                    /\ \A v \in Ticks : Holding(v)' =>
                          /\ holder' = host'[v] /\ holder' # None
                          /\ left' = lease'[v] /\ left' >= 0
  BY DEF LockIsHolders, TickStep, InsertJobRun, ReleaseThenRun, JobReturns,
     DeferredRelease, CompleteJobRun, NextTick, Release
<1>1. /\ pc \in [Ticks -> Stages] /\ host \in [Ticks -> Hosts \cup {None}]
      /\ lease \in [Ticks -> -1..TTL]
  BY DEF LockInv, TypeOK
<1>2. \A v \in Ticks : v # t => (Holding(v)' <=> Holding(v)) /\ host'[v] = host[v]
                              /\ lease'[v] = lease[v]
  BY <1>1 DEF TickStep, InsertJobRun, ReleaseThenRun, JobReturns, DeferredRelease,
     CompleteJobRun, NextTick, Release, Goto, Holding
<1>3. /\ \A v, u \in Ticks : Holding(v) /\ Holding(u) => v = u
      /\ \A v \in Ticks : Holding(v) =>
            /\ holder = host[v] /\ holder # None /\ left = lease[v] /\ left >= 0
  BY DEF LockInv, LockIsHolders
<1>4. CASE InsertJobRun(t) \/ JobReturns(t)
  <2>1. Holding(t)' => Holding(t) /\ host'[t] = host[t] /\ lease'[t] = lease[t]
    BY <1>1, <1>4 DEF InsertJobRun, JobReturns, Goto, Holding
  <2> QED  BY <1>2, <1>3, <1>4, <2>1 DEF InsertJobRun, JobReturns, lockVars
<1>5. CASE ReleaseThenRun(t) \/ DeferredRelease(t)
  <2>1. Holding(t) /\ ~Holding(t)'
    BY <1>1, <1>5 DEF ReleaseThenRun, DeferredRelease, Release, Goto, Holding
  <2> QED  BY <1>2, <1>3, <2>1
<1>6. CASE CompleteJobRun(t) \/ NextTick(t)
  <2>1. ~Holding(t)' /\ UNCHANGED lockVars
    BY <1>1, <1>6 DEF CompleteJobRun, NextTick, Goto, Holding
  <2> QED  BY <1>2, <1>3, <2>1 DEF lockVars
<1> QED  BY <1>4, <1>5, <1>6 DEF TickStep

\* Steps that neither take nor release the lock leave its owner alone.
LEMMA RestKeepsOwner ==
    ASSUME LockInv,
           \/ TimePasses
           \/ \E h \in Hosts : StopScheduler(h) \/ Drained(h) \/ Crash(h) \/ Restart(h)
    PROVE  LockIsHolders'
<1>1. CASE TimePasses
  <2> SUFFICES ASSUME ~overran'
               PROVE  /\ \A v, u \in Ticks : Holding(v)' /\ Holding(u)' => v = u
                      /\ \A v \in Ticks : Holding(v)' =>
                            /\ holder' = host'[v] /\ holder' # None
                            /\ left' = lease'[v] /\ left' >= 0
    BY DEF LockIsHolders
  <2>1. ~overran /\ \A v \in Ticks : Holding(v) => ~(Less(lease[v]) < 0)
    BY <1>1 DEF TimePasses
  <2>2. left' = Less(left) /\ \A v \in Ticks : lease'[v] = Less(lease[v])
    BY <1>1 DEF TimePasses
  <2>3. \A v \in Ticks : (Holding(v)' <=> Holding(v)) /\ host'[v] = host[v]
    BY <1>1 DEF TimePasses, Holding
  <2>4. \A v \in Ticks : Less(lease[v]) \in Int
    BY LockConstants DEF LockInv, TypeOK, Less
  <2> QED
    BY <1>1, <2>1, <2>2, <2>3, <2>4 DEF LockInv, LockIsHolders, TimePasses
<1>2. ASSUME NEW h \in Hosts, StopScheduler(h) \/ Drained(h) \/ Crash(h) \/ Restart(h)
      PROVE  LockIsHolders'
  <2>1. \A v \in Ticks : Holding(v)' => Holding(v)
    BY <1>2 DEF StopScheduler, Drained, Crash, Restart, tickVars, Holding, LockInv, TypeOK
  <2> QED
    BY <1>2, <2>1 DEF StopScheduler, Drained, Crash, Restart, tickVars, lockVars,
       LockInv, LockIsHolders
<1> QED  BY <1>1, <1>2

-----------------------------------------------------------------------------
\* A run's row is no older than the part of its lease that is used up.
LEMMA NextKeepsRows ==
    ASSUME LockInv, Next, LockIsHolders'
    PROVE  RecoveryOnlyHitsTheDead'
<1> SUFFICES ASSUME NEW v \in Ticks, ~overran', pc'[v] = "running"
             PROVE  runs'[v] = "running" /\ age'[v] <= TTL - lease'[v]
  BY DEF RecoveryOnlyHitsTheDead
<1>1. /\ pc \in [Ticks -> Stages] /\ lease \in [Ticks -> -1..TTL]
      /\ runs \in [Ticks -> Statuses \cup {"none"}] /\ age \in [Ticks -> 0..StaleAfter + 1]
  BY DEF LockInv, TypeOK
<1>2. pc[v] = "running" /\ ~overran =>
          runs[v] = "running" /\ age[v] <= TTL - lease[v]
  BY DEF LockInv, RecoveryOnlyHitsTheDead
<1>3. pc[v] = "running" /\ ~overran => lease[v] >= 0
  BY DEF LockInv, LockIsHolders, Holding
<1>4. CASE \E t \in Ticks, h \in Hosts : Acquire(t, h) \/ AcquireFails(t, h) \/ Trigger(t, h)
  BY <1>1, <1>2, <1>4 DEF Acquire, AcquireFails, Trigger, Goto, rowVars
<1>5. ASSUME NEW t \in Ticks, TickStep(t)
      PROVE  runs'[v] = "running" /\ age'[v] <= TTL - lease'[v]
  <2>1. CASE InsertJobRun(t) /\ t = v
    BY <1>1, <2>1, LockConstants DEF InsertJobRun, InsertedRow, Goto
  <2>2. CASE t = v /\ ~InsertJobRun(t)
    BY <1>1, <1>5, <2>2 DEF TickStep, ReleaseThenRun, JobReturns, DeferredRelease,
       CompleteJobRun, NextTick, Release, Goto
  <2>3. CASE t # v
    BY <1>1, <1>2, <1>5, <2>3 DEF TickStep, InsertJobRun, InsertedRow, ReleaseThenRun,
       JobReturns, DeferredRelease, CompleteJobRun, NextTick, Release, Goto, rowVars
  <2> QED  BY <2>1, <2>2, <2>3
<1>6. CASE TimePasses
  <2>1. ~overran /\ pc[v] = "running"
    BY <1>6 DEF TimePasses
  <2>2. ~(Less(lease[v]) < 0)
    BY <1>6, <2>1 DEF TimePasses, Holding
  <2>3. lease'[v] = Less(lease[v]) /\ age'[v] = More(age[v]) /\ runs'[v] = "running"
    BY <1>2, <1>6, <2>1 DEF TimePasses
  <2>4. age[v] \in Nat /\ lease[v] \in Int /\ lease[v] >= 0 /\ age[v] <= TTL - lease[v]
    BY <1>1, <1>2, <1>3, <2>1, LockConstants
  <2> QED  BY <2>2, <2>3, <2>4, LockConstants DEF Less, More
<1>7. ASSUME NEW h \in Hosts, StopScheduler(h) \/ Drained(h) \/ Crash(h) \/ Restart(h)
      PROVE  runs'[v] = "running" /\ age'[v] <= TTL - lease'[v]
  <2>1. ~overran /\ pc[v] = "running" /\ lease'[v] = lease[v]
    BY <1>1, <1>7 DEF StopScheduler, Drained, Crash, Restart, tickVars
  <2>2. age[v] <= StaleAfter
    BY <1>1, <1>2, <1>3, <2>1, LockConstants
  <2>3. CASE Restart(h)
    BY <1>1, <1>2, <2>1, <2>2, <2>3, LockConstants DEF Restart, MarkedCrashed, rowVars
  <2>4. CASE ~Restart(h)
    BY <1>2, <1>7, <2>1, <2>4 DEF StopScheduler, Drained, Crash, rowVars
  <2> QED  BY <2>3, <2>4
<1> QED  BY <1>4, <1>5, <1>6, <1>7 DEF Next

\* Every step preserves the invariant.
LEMMA NextLockInv == LockInv /\ [Next]_vars => LockInv'
<1> SUFFICES ASSUME LockInv, [Next]_vars PROVE LockInv'
  OBVIOUS
<1>1. CASE Next
  <2>1. TypeOK'
    BY <1>1, AcquireTypeOK, StepTypeOK, TimeTypeOK, HostTypeOK DEF Next, LockInv
  <2>2. LockIsHolders'
    BY <1>1, AcquireKeepsOwner, StepKeepsOwner, RestKeepsOwner DEF Next
  <2>3. RecoveryOnlyHitsTheDead'
    BY <1>1, <2>2, NextKeepsRows
  <2> QED  BY <2>1, <2>2, <2>3 DEF LockInv
<1>2. CASE UNCHANGED vars
  BY <1>2 DEF vars, lockVars, tickVars, rowVars, LockInv, TypeOK, LockIsHolders,
     RecoveryOnlyHitsTheDead, Holding
<1> QED  BY <1>1, <1>2

-----------------------------------------------------------------------------
\* The inductive invariant holds in every reachable state.
THEOREM LockInvariant == Spec => []LockInv
  BY InitLockInv, NextLockInv, PTL DEF Spec

\* Scheduled runs that stay within their TTL exclude each other across and
\* within replicas, whatever crashes and whatever database call fails.
THEOREM MutualExclusion == Spec => []MutexWithinTTL
<1>1. LockInv => MutexWithinTTL
  BY DEF LockInv, LockIsHolders, MutexWithinTTL, InBody, InCron, Holding
<1> QED  BY <1>1, LockInvariant, PTL

\* RecoverStaleJobRuns never marks a run crashed that is within its TTL.
THEOREM RecoveryIsSafe == Spec => []RecoveryOnlyHitsTheDead
  BY LockInvariant, PTL DEF LockInv
=============================================================================
