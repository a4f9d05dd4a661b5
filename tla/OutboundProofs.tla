--------------------------- MODULE OutboundProofs ---------------------------
(***************************************************************************)
(* The two clients that post to other services, for every number of        *)
(* records, senders and retries and every length of the buffer.            *)
(*                                                                         *)
(* BufferedClient implements TelemetryLog: the record in work followed by  *)
(* the channel is the abstract queue. The one thing to know of the         *)
(* reachable states is that the channel never holds more than BufferSize.  *)
(* DiscordNotifier keeps its counts and its pace, and implements           *)
(* WebhookPosting.                                                         *)
(***************************************************************************)
EXTENDS DiscordNotifier, BufferedClient, SequenceTheorems, TLAPS

Fates == {"none", "dropped", "written", "failed"}

BufferTypes ==
    /\ jobs \in Seq(Records) /\ Len(jobs) <= BufferSize
    /\ job \in Records \cup {NoRecord}
    /\ fate \in [Records -> Fates]
    /\ up \in BOOLEAN

\* A record that was taken before Stop is waiting, in work or settled.
KeptUntilSettled ==
    \A r \in before : \/ r \in Queued \cup InWork
                      \/ fate[r] \in {"written", "failed"}

\* The goroutine flushes only after Stop, and leaves nothing of before behind.
FlushOrder ==
    /\ before \subseteq Records
    /\ drain \in {"flush", "exited"} => stopped
    /\ stop # "none" => stopped
    /\ drain = "exited" => \A r \in before : fate[r] \in {"written", "failed"}
    /\ stop = "nil" => drain \in {"none", "exited"}

BufferInv == BufferTypes /\ KeptUntilSettled /\ FlushOrder

LEMMA InitBufferInv == InitBuffer => BufferInv
  BY BufferConstants
  DEF InitBuffer, BufferInv, BufferTypes, KeptUntilSettled, FlushOrder, Fates

-----------------------------------------------------------------------------
(* What the channel operations do to the set of queued records.            *)

LEMMA QueuedAppend ==
    ASSUME NEW s \in Seq(Records), NEW r \in Records
    PROVE  /\ Append(s, r) \in Seq(Records)
           /\ Len(Append(s, r)) = Len(s) + 1
           /\ {Append(s, r)[i] : i \in 1..Len(Append(s, r))} = {s[i] : i \in 1..Len(s)} \cup {r}
  <1>1. /\ Append(s, r) \in Seq(Records) /\ Len(Append(s, r)) = Len(s) + 1 /\ Len(s) \in Nat
        /\ \A i \in 1..Len(s) : Append(s, r)[i] = s[i]
        /\ Append(s, r)[Len(s) + 1] = r
    BY AppendProperties, LenProperties
  <1>2. 1..(Len(s) + 1) = 1..Len(s) \cup {Len(s) + 1}
    BY <1>1
  <1>3. QED BY <1>1, <1>2

LEMMA QueuedTail ==
    ASSUME NEW s \in Seq(Records), s # <<>>
    PROVE  /\ Head(s) \in Records /\ Tail(s) \in Seq(Records)
           /\ Len(Tail(s)) = Len(s) - 1 /\ Len(s) \in Nat
           /\ {s[i] : i \in 1..Len(s)} = {Tail(s)[i] : i \in 1..Len(Tail(s))} \cup {Head(s)}
  <1>1. /\ Head(s) \in Records /\ Tail(s) \in Seq(Records)
        /\ Len(Tail(s)) = Len(s) - 1 /\ Len(s) \in Nat \ {0}
        /\ \A i \in 1..Len(Tail(s)) : Tail(s)[i] = s[i + 1]
        /\ Head(s) = s[1]
    BY HeadTailProperties, EmptySeq
  <1>2. ASSUME NEW i \in 1..Len(s), i # 1
        PROVE  i - 1 \in 1..Len(Tail(s)) /\ s[i] = Tail(s)[i - 1]
    BY <1>1, <1>2
  <1>3. QED BY <1>1, <1>2

-----------------------------------------------------------------------------
(* Every step keeps the invariant.                                         *)

LEMMA EnqueueKeeps ==
    ASSUME BufferInv, NEW r \in Records, LogRecord(r)
    PROVE  BufferInv'
  <1>1. CASE Len(jobs) < BufferSize /\ jobs' = Append(jobs, r) /\ UNCHANGED fate
    <2>1. BufferTypes' /\ Queued' = Queued \cup {r}
      BY <1>1, QueuedAppend, LenProperties, BufferConstants
      DEF BufferInv, BufferTypes, LogRecord, writer, Queued
    <2>2. QED BY <1>1, <2>1
      DEF BufferInv, KeptUntilSettled, FlushOrder, LogRecord, writer, closing, InWork
  <1>2. CASE fate' = [fate EXCEPT ![r] = "dropped"] /\ UNCHANGED jobs
    <2>1. BufferTypes' /\ Queued' = Queued /\ InWork' = InWork
      BY <1>2 DEF BufferInv, BufferTypes, LogRecord, writer, Queued, InWork, Fates
    <2>2. r \notin before
      BY DEF BufferInv, KeptUntilSettled, LogRecord, IsNew
    <2>3. \A q \in before : fate'[q] = fate[q]
      BY <1>2, <2>2 DEF BufferInv, BufferTypes, FlushOrder
    <2>4. QED BY <2>1, <2>3
      DEF BufferInv, KeptUntilSettled, FlushOrder, LogRecord, writer, closing
  <1>3. QED BY <1>1, <1>2 DEF LogRecord, Enqueue

LEMMA TakeJobKeeps ==
    ASSUME BufferInv, TakeJob
    PROVE  BufferInv'
  <1>0. /\ jobs \in Seq(Records) /\ jobs # <<>>
        /\ job = NoRecord /\ job' = Head(jobs) /\ jobs' = Tail(jobs)
        /\ UNCHANGED <<fate, up>>
    BY DEF BufferInv, BufferTypes, TakeJob
  <1>1. BufferTypes'
    BY <1>0, QueuedTail, BufferConstants DEF BufferInv, BufferTypes
  <1>2. Queued \cup InWork \subseteq Queued' \cup InWork'
    <2>1. Queued = Queued' \cup {Head(jobs)}
      BY <1>0, QueuedTail DEF Queued
    <2>2. InWork = {} /\ InWork' = {Head(jobs)}
      BY <1>0, QueuedTail, BufferConstants DEF InWork
    <2>3. QED BY <2>1, <2>2
  <1>3. KeptUntilSettled' /\ FlushOrder'
    BY <1>2 DEF BufferInv, TakeJob, KeptUntilSettled, FlushOrder, closing
  <1>4. QED BY <1>1, <1>3 DEF BufferInv

\* A write that ends settles the record in work.
LEMMA SettleKeeps ==
    ASSUME BufferInv, job # NoRecord, NEW outcome \in {"written", "failed"},
           RecordWrite(outcome), UNCHANGED <<jobs, drain, closing, up>>
    PROVE  BufferInv'
  <1>1. job \in Records /\ BufferTypes'
    BY DEF BufferInv, BufferTypes, RecordWrite, Fates
  <1>2. \A r \in Records : fate'[r] = IF r = job THEN outcome ELSE fate[r]
    BY DEF BufferInv, BufferTypes, RecordWrite
  <1>3. KeptUntilSettled' /\ FlushOrder'
    BY <1>2 DEF BufferInv, KeptUntilSettled, FlushOrder, closing, Queued, InWork
  <1>4. QED BY <1>1, <1>3 DEF BufferInv

LEMMA BufferStep == BufferInv /\ [NextBuffer]_bufferVars => BufferInv'
  <1> SUFFICES ASSUME BufferInv, [NextBuffer]_bufferVars PROVE BufferInv'
    OBVIOUS
  <1> USE DEF Queued, InWork
  <1>1. CASE Start
    BY <1>1 DEF Start, buffer, closing, BufferInv, BufferTypes, KeptUntilSettled, FlushOrder
  <1>2. ASSUME NEW r \in Records, LogRecord(r) PROVE BufferInv'
    BY <1>2, EnqueueKeeps
  <1>3. ASSUME NEW r \in Records, GenerateUntraced(r) PROVE BufferInv'
    BY <1>3 DEF GenerateUntraced, writer, closing,
                BufferInv, BufferTypes, KeptUntilSettled, FlushOrder
  <1>4. CASE TakeJob
    BY <1>4, TakeJobKeeps
  <1>5. CASE SeeStop
    BY <1>5 DEF SeeStop, buffer, closing, BufferInv, BufferTypes, KeptUntilSettled, FlushOrder
  <1>6. CASE EndFlush
    <2>1. Queued = {} /\ InWork = {}
      BY <1>6 DEF EndFlush
    <2>2. \A r \in before : fate[r] \in {"written", "failed"}
      BY <2>1 DEF BufferInv, KeptUntilSettled
    <2>3. QED BY <1>6, <2>2
      DEF EndFlush, buffer, closing, BufferInv, BufferTypes, KeptUntilSettled, FlushOrder
  <1>7. CASE Written
    BY <1>7, SettleKeeps DEF Written
  <1>8. CASE Rejected
    BY <1>8, SettleKeeps DEF Rejected
  <1>9. CASE Transient
    <2>1. CASE RecordWrite("failed")
      BY <1>9, <2>1, SettleKeeps DEF Transient
    <2>2. CASE UNCHANGED <<fate, job>>
      BY <1>9, <2>2 DEF Transient, closing, BufferInv, BufferTypes, KeptUntilSettled, FlushOrder
    <2>3. QED BY <1>9, <2>1, <2>2 DEF Transient
  <1>10. CASE CallStop
    <2>1. Queued \cup InWork \subseteq Records
      BY DEF BufferInv, BufferTypes
    <2>2. QED BY <1>10, <2>1
      DEF CallStop, buffer, writer, BufferInv, BufferTypes, KeptUntilSettled, FlushOrder
  <1>11. CASE Deadline
    BY <1>11 DEF Deadline, buffer, writer, BufferInv, BufferTypes, KeptUntilSettled, FlushOrder
  <1>12. CASE ReturnStop
    BY <1>12 DEF ReturnStop, buffer, writer, BufferInv, BufferTypes, KeptUntilSettled, FlushOrder
  <1>13. CASE Exit
    BY <1>13 DEF Exit, buffer, writer, closing, BufferInv, BufferTypes, KeptUntilSettled, FlushOrder
  <1>14. CASE UNCHANGED bufferVars
    BY <1>14 DEF bufferVars, buffer, writer, closing,
                 BufferInv, BufferTypes, KeptUntilSettled, FlushOrder
  <1>15. QED
    BY <1>1, <1>2, <1>3, <1>4, <1>5, <1>6, <1>7, <1>8, <1>9, <1>10, <1>11, <1>12, <1>13, <1>14
    DEF NextBuffer, Drain, RunJob

\* The channel stays within its capacity, and what was queued before Stop is
\* waiting, in work or settled until drain has exited.
THEOREM BufferInvariant == SpecBuffer => []BufferInv
  BY InitBufferInv, BufferStep, PTL DEF SpecBuffer

\* Stop drains: when it returns nil to a server whose goroutine was started,
\* everything queued or in work at the call has been written or has failed,
\* for every buffer and however many producers go on meanwhile.
THEOREM StopDrains == SpecBuffer => []FlushComplete
  <1>1. BufferInv => FlushComplete
    BY DEF BufferInv, FlushOrder, FlushComplete
  <1>2. QED BY <1>1, BufferInvariant, PTL

-----------------------------------------------------------------------------
(* The refinement, action by action.                                       *)

\* The abstract queue as a name.
PendingRecords == (IF job = NoRecord THEN <<>> ELSE <<job>>) \o jobs

LEMMA PendingIdle ==
    ASSUME jobs \in Seq(Records), job = NoRecord
    PROVE  PendingRecords = jobs
  BY ConcatEmptySeq DEF PendingRecords

LEMMA PendingBusy ==
    ASSUME jobs \in Seq(Records), job \in Records
    PROVE  /\ <<job>> \o jobs \in Seq(Records)
           /\ Len(<<job>> \o jobs) = Len(jobs) + 1 /\ Len(jobs) \in Nat
           /\ Head(<<job>> \o jobs) = job
           /\ Tail(<<job>> \o jobs) = jobs
           /\ <<job>> \o jobs # <<>>
           /\ \A i \in 1..Len(jobs) : (<<job>> \o jobs)[i + 1] = jobs[i]
  <1> DEFINE both == <<job>> \o jobs
  <1>1. <<job>> \in Seq(Records) /\ Len(<<job>>) = 1 /\ <<job>>[1] = job /\ Len(jobs) \in Nat
    BY LenProperties
  <1>2. /\ both \in Seq(Records) /\ Len(both) = 1 + Len(jobs)
        /\ \A i \in 1..(1 + Len(jobs)) : both[i] = IF i <= 1 THEN <<job>>[i] ELSE jobs[i - 1]
    BY <1>1, ConcatProperties
  <1> HIDE DEF both
  <1>3. both # <<>> /\ both[1] = job
    BY <1>1, <1>2
  <1>4. \A i \in 1..Len(jobs) : both[i + 1] = jobs[i]
    <2> TAKE i \in 1..Len(jobs)
    <2>1. i + 1 \in 1..(1 + Len(jobs)) /\ ~(i + 1 <= 1) /\ (i + 1) - 1 = i
      BY <1>1
    <2>2. QED BY <1>2, <2>1
  <1>5. Head(both) = job
    BY <1>3
  <1>6. /\ Tail(both) \in Seq(Records) /\ Len(Tail(both)) = Len(jobs)
        /\ \A i \in 1..Len(jobs) : Tail(both)[i] = jobs[i]
    BY <1>1, <1>2, <1>3, <1>4, HeadTailProperties
  <1>7. Tail(both) = jobs
    BY <1>6, SeqEqual
  <1>8. QED BY <1>1, <1>2, <1>3, <1>4, <1>5, <1>7 DEF both

\* The abstract queue holds what is queued and what is in work, and is at most
\* one longer than the channel.
LEMMA PendingIsQueue ==
    ASSUME BufferTypes
    PROVE  /\ PendingRecords \in Seq(Records)
           /\ Len(PendingRecords) \in {Len(jobs), Len(jobs) + 1}
           /\ \A i \in DOMAIN PendingRecords : PendingRecords[i] \in Queued \cup InWork
  <1>1. CASE job = NoRecord
    BY <1>1, PendingIdle, LenProperties DEF BufferTypes, Queued
  <1>2. CASE job # NoRecord
    <2>1. job \in Records /\ PendingRecords = <<job>> \o jobs
      BY <1>2 DEF BufferTypes, PendingRecords
    <2>2. /\ PendingRecords \in Seq(Records) /\ Len(PendingRecords) = Len(jobs) + 1 /\ Len(jobs) \in Nat
          /\ PendingRecords[1] = job
          /\ \A i \in 1..Len(jobs) : PendingRecords[i + 1] = jobs[i]
      BY <2>1, PendingBusy DEF BufferTypes
    <2>3. ASSUME NEW i \in DOMAIN PendingRecords
          PROVE  PendingRecords[i] \in Queued \cup InWork
      <3>1. i \in 1..(Len(jobs) + 1)
        BY <2>2, LenProperties
      <3>2. CASE i = 1
        BY <1>2, <2>2, <3>2 DEF InWork
      <3>3. CASE i # 1
        <4>1. i - 1 \in 1..Len(jobs) /\ i = (i - 1) + 1
          BY <2>2, <3>1, <3>3
        <4>2. PendingRecords[i] = jobs[i - 1]
          BY <2>2, <4>1
        <4>3. QED BY <4>1, <4>2 DEF Queued
      <3>4. QED BY <3>2, <3>3
    <2>4. QED BY <2>2, <2>3
  <1>3. QED BY <1>1, <1>2

LEMMA LogVars == ASSUME UNCHANGED <<job, jobs, fate, up>> PROVE UNCHANGED Log!logVars
  BY DEF Log!logVars

\* A record that is taken is appended to the abstract queue.
LEMMA LogRecordRefines ==
    ASSUME BufferInv, NEW r \in Records, LogRecord(r)
    PROVE  Log!Take(r) \/ Log!Drop(r)
  <1>1. /\ jobs \in Seq(Records) /\ Len(jobs) \in Nat /\ Len(jobs) <= BufferSize
        /\ up /\ up' = up /\ fate[r] = "none" /\ r \notin Queued \cup InWork /\ job' = job
    BY LenProperties DEF BufferInv, BufferTypes, LogRecord, IsNew, writer
  <1>2. /\ PendingRecords \in Seq(Records)
        /\ Len(PendingRecords) \in {Len(jobs), Len(jobs) + 1}
        /\ \A i \in DOMAIN PendingRecords : PendingRecords[i] # r
    BY <1>1, PendingIsQueue DEF BufferInv
  <1>3. CASE Len(jobs) < BufferSize /\ jobs' = Append(jobs, r) /\ UNCHANGED fate
    <2>1. PendingRecords' = Append(PendingRecords, r)
      <3> DEFINE front == IF job = NoRecord THEN <<>> ELSE <<job>>
      <3>1. front \in Seq(Records)
        BY DEF BufferInv, BufferTypes
      <3>2. <<r>> \in Seq(Records) /\ PendingRecords = front \o jobs
        BY DEF PendingRecords
      <3>3. PendingRecords' = front \o Append(jobs, r)
        BY <1>1, <1>3 DEF PendingRecords
      <3> HIDE DEF front
      <3>4. Append(jobs, r) = jobs \o <<r>> /\ Append(front \o jobs, r) = (front \o jobs) \o <<r>>
        BY <1>1, <1>2, <3>1, <3>2, AppendIsConcat
      <3>5. (front \o jobs) \o <<r>> = front \o (jobs \o <<r>>)
        BY <1>1, <3>1, <3>2, ConcatAssociative
      <3>6. QED BY <3>2, <3>3, <3>4, <3>5
    <2>2. Len(PendingRecords) <= BufferSize
      BY <1>1, <1>2, <1>3, BufferConstants
    <2>3. QED BY <1>1, <1>2, <1>3, <2>1, <2>2 DEF Log!Take, PendingRecords
  <1>4. CASE Len(jobs) = BufferSize /\ fate' = [fate EXCEPT ![r] = "dropped"] /\ UNCHANGED jobs
    <2>1. Len(PendingRecords) >= BufferSize /\ PendingRecords' = PendingRecords
      BY <1>1, <1>2, <1>4, BufferConstants DEF PendingRecords
    <2>2. QED BY <1>1, <1>2, <1>4, <2>1 DEF Log!Drop, PendingRecords
  <1>5. QED BY <1>3, <1>4 DEF LogRecord, Enqueue

\* Moving the head of the channel into the goroutine is not seen outside.
LEMMA TakeJobRefines ==
    ASSUME BufferInv, TakeJob
    PROVE  UNCHANGED Log!logVars
  <1>1. /\ jobs \in Seq(Records) /\ jobs # <<>> /\ job = NoRecord
        /\ job' = Head(jobs) /\ jobs' = Tail(jobs) /\ UNCHANGED <<fate, up>>
    BY DEF BufferInv, BufferTypes, TakeJob
  <1>2. /\ job' \in Records /\ jobs' \in Seq(Records)
        /\ Len(jobs') = Len(jobs) - 1 /\ Len(jobs) \in Nat /\ job' = jobs[1]
        /\ \A i \in 1..Len(jobs') : jobs'[i] = jobs[i + 1]
    BY <1>1, HeadTailProperties, LenProperties
  <1>3. /\ <<job'>> \o jobs' \in Seq(Records) /\ Len(<<job'>> \o jobs') = Len(jobs') + 1
        /\ (<<job'>> \o jobs')[1] = job'
        /\ \A i \in 1..Len(jobs') : (<<job'>> \o jobs')[i + 1] = jobs'[i]
    <2>1. <<job'>> \in Seq(Records) /\ Len(<<job'>>) = 1 /\ <<job'>>[1] = job' /\ Len(jobs') \in Nat
      BY <1>2, LenProperties
    <2>2. /\ <<job'>> \o jobs' \in Seq(Records) /\ Len(<<job'>> \o jobs') = 1 + Len(jobs')
          /\ \A i \in 1..(1 + Len(jobs')) :
                (<<job'>> \o jobs')[i] = IF i <= 1 THEN <<job'>>[i] ELSE jobs'[i - 1]
      BY <1>2, <2>1, ConcatProperties
    <2>3. QED BY <2>1, <2>2
  <1>4. <<job'>> \o jobs' = jobs
    <2> DEFINE both == <<job'>> \o jobs'
    <2> HIDE DEF both
    <2>1. both \in Seq(Records) /\ Len(both) = Len(jobs) /\ both[1] = jobs[1]
      BY <1>2, <1>3 DEF both
    <2>2. ASSUME NEW i \in 1..Len(both) PROVE both[i] = jobs[i]
      <3>1. CASE i = 1
        BY <2>1, <3>1
      <3>2. CASE i # 1
        <4>1. i - 1 \in 1..Len(jobs') /\ (i - 1) + 1 = i
          BY <1>2, <2>1, <3>2
        <4>2. both[(i - 1) + 1] = jobs'[i - 1] /\ jobs'[i - 1] = jobs[(i - 1) + 1]
          BY <1>2, <1>3, <4>1 DEF both
        <4>3. QED BY <4>1, <4>2
      <3>3. QED BY <3>1, <3>2
    <2>3. QED BY <1>1, <2>1, <2>2, SeqEqual DEF both
  <1>5. PendingRecords = jobs
    BY <1>1, PendingIdle
  <1>6. PendingRecords' = jobs
    BY <1>2, <1>4, BufferConstants DEF PendingRecords
  <1>7. QED BY <1>1, <1>5, <1>6 DEF Log!logVars, PendingRecords

\* The record that is settled is the head of the abstract queue.
LEMMA RecordWriteRefines ==
    ASSUME BufferInv, up, job # NoRecord, NEW outcome \in {"written", "failed"},
           RecordWrite(outcome), UNCHANGED <<jobs, up>>
    PROVE  Log!Settle(outcome)
  <1>1. job \in Records /\ jobs \in Seq(Records) /\ PendingRecords = <<job>> \o jobs
    BY DEF BufferInv, BufferTypes, PendingRecords
  <1>2. Head(PendingRecords) = job /\ Tail(PendingRecords) = jobs /\ PendingRecords # <<>>
    BY <1>1, PendingBusy
  <1>3. PendingRecords' = jobs
    BY <1>1, ConcatEmptySeq DEF RecordWrite, PendingRecords
  <1>4. QED BY <1>2, <1>3 DEF Log!Settle, RecordWrite, PendingRecords

LEMMA StepRefines == BufferInv /\ [NextBuffer]_bufferVars => [Log!LogNext]_(Log!logVars)
  <1> SUFFICES ASSUME BufferInv, [NextBuffer]_bufferVars
               PROVE  Log!LogNext \/ UNCHANGED Log!logVars
    OBVIOUS
  <1>1. ASSUME NEW r \in Records, LogRecord(r) PROVE Log!LogNext
    BY <1>1, LogRecordRefines DEF Log!LogNext
  <1>2. CASE TakeJob
    BY <1>2, TakeJobRefines
  <1>3. ASSUME NEW outcome \in {"written", "failed"}, up, job # NoRecord,
               RecordWrite(outcome), UNCHANGED <<jobs, up>>
        PROVE  Log!LogNext
    BY <1>3, RecordWriteRefines DEF Log!LogNext
  <1>4. CASE Written \/ Rejected
    BY <1>3, <1>4 DEF Written, Rejected
  <1>5. CASE Transient
    <2>1. CASE RecordWrite("failed")
      BY <1>3, <1>5, <2>1 DEF Transient
    <2>2. CASE UNCHANGED <<fate, job>>
      BY <1>5, <2>2, LogVars DEF Transient
    <2>3. QED BY <1>5, <2>1, <2>2 DEF Transient
  <1>6. CASE Exit
    <2>1. Log!End
      BY <1>6 DEF Exit, Log!End, buffer, writer
    <2>2. QED BY <2>1 DEF Log!LogNext
  <1>7. ASSUME \/ Start \/ SeeStop \/ EndFlush \/ CallStop \/ Deadline \/ ReturnStop
               \/ \E r \in Records : GenerateUntraced(r)
               \/ UNCHANGED bufferVars
        PROVE  UNCHANGED Log!logVars
    <2>1. UNCHANGED <<job, jobs, fate, up>>
      BY <1>7 DEF Start, SeeStop, EndFlush, CallStop, Deadline, ReturnStop, GenerateUntraced,
                  bufferVars, buffer, writer
    <2>2. QED BY <2>1, LogVars
  <1>8. QED BY <1>1, <1>2, <1>4, <1>5, <1>6, <1>7 DEF NextBuffer, Drain, RunJob

\* The buffered client does what TelemetryLog promises, for any records, any
\* buffer and any number of retries: nothing is reordered, a record is dropped
\* only when the buffer is full, none is settled twice, and only the end of
\* the process loses one.
THEOREM BufferImplementsLog == SpecBuffer => ImplementsLog
  <1>1. InitBuffer => Log!LogInit
    BY DEF InitBuffer, Log!LogInit
  <1>2. QED BY <1>1, StepRefines, BufferInvariant, PTL DEF SpecBuffer, ImplementsLog, Log!LogSpec

-----------------------------------------------------------------------------
(***************************************************************************)
(* The Discord notifier. CountInv relates what a call has counted to what  *)
(* Discord took, by the stage the call is in. RefusedInv says that a call  *)
(* which met a 429 in this window has been told, or will be, to sleep for  *)
(* as long as the window lasts. PaceInv says, for a notifier that nobody   *)
(* disturbs and whose headers miss no post, that whoever finds the window  *)
(* used up also knows how long it lasts: the shared state, the answer on   *)
(* its way and the timer of a sleeping call never end before it does.      *)
(***************************************************************************)

AnswerRecord == [status : {"none", "ok", "429", "error", "global", "lost"}, remaining : Nat, reset : Nat]

NotifierTypes ==
    /\ cap \in Nat /\ left \in Nat \ {0}
    /\ remaining \in Nat /\ resetIn \in Nat \cup {-1}
    /\ pc \in [Senders -> {"idle", "bucket", "sleep", "post", "answer"}]
    /\ batch \in [Senders -> BOOLEAN]
    /\ sent \in [Senders -> Nat] /\ arrived \in [Senders -> Nat]
    /\ attempt \in [Senders -> Nat]
    /\ wait \in [Senders -> Nat]
    /\ answer \in [Senders -> AnswerRecord]
    /\ others \in Nat /\ faults \in Nat /\ crowded \in BOOLEAN
    /\ refused \in [Senders -> BOOLEAN] /\ uncounted \in BOOLEAN

CountInv ==
    \A s \in Senders :
        /\ sent[s] <= arrived[s] /\ arrived[s] <= sent[s] + 1
        /\ pc[s] \in {"bucket", "sleep", "post"} => arrived[s] = sent[s]
        /\ pc[s] = "answer" /\ answer[s].status = "ok" => arrived[s] = sent[s] + 1
        /\ pc[s] = "answer" /\ answer[s].status = "429" => arrived[s] = sent[s]

RefusedInv ==
    \A s \in Senders : refused[s] =>
        \/ pc[s] = "idle"
        \/ pc[s] = "answer" /\ answer[s].status = "429" /\ answer[s].reset >= left
        \/ pc[s] = "sleep" /\ wait[s] >= left

Quiet == others = 0 /\ ~crowded

Alone == \A s, q \in Senders : pc[s] # "idle" /\ pc[q] # "idle" => s = q

\* No answer is on its way that may change what the notifier knows, and what it
\* knows misses no post.
HeadersCurrent ==
    /\ resetIn # -1 /\ ~uncounted
    /\ \A s \in Senders : pc[s] = "answer" => answer[s].status = "lost"

PaceInv ==
    Quiet =>
        /\ Alone
        /\ HeadersCurrent /\ cap = 0 => remaining = 0 /\ resetIn >= left
        /\ \A s \in Senders : pc[s] = "answer" /\ answer[s].status # "lost" /\ cap = 0 =>
              answer[s].remaining = 0 /\ answer[s].reset >= left
        /\ \A s \in Senders : pc[s] = "sleep" /\ ~uncounted /\ cap = 0 => wait[s] >= left
        /\ \A s \in Senders : pc[s] = "post" /\ batch[s] /\ resetIn # -1 /\ ~uncounted => cap > 0

NotifierInv == NotifierTypes /\ CountInv /\ RefusedInv /\ PaceInv

LEMMA InitNotifierInv == Init => NotifierInv
  <1> SUFFICES ASSUME Init PROVE NotifierInv
    OBVIOUS
  <1>1. NotifierTypes
    <2>1. NoAnswer \in AnswerRecord
      BY DEF NoAnswer, AnswerRecord
    <2>2. cap \in Nat /\ left \in Nat \ {0}
      BY NotifierConstants DEF Init
    <2>3. QED BY <2>1, <2>2 DEF Init, NotifierTypes
  <1>2. CountInv
    <2>1. ASSUME NEW s \in Senders PROVE sent[s] = 0 /\ arrived[s] = 0 /\ pc[s] = "idle"
      BY DEF Init
    <2>2. ASSUME NEW s \in Senders
          PROVE  sent[s] <= arrived[s] /\ arrived[s] <= sent[s] + 1
      BY <2>1
    <2>3. QED BY <2>1, <2>2 DEF CountInv
  <1>3. PaceInv
    BY DEF Init, PaceInv, Alone, HeadersCurrent
  <1>4. RefusedInv
    BY DEF Init, RefusedInv
  <1>5. QED BY <1>1, <1>2, <1>3, <1>4 DEF NotifierInv

LEMMA BeginsKeeps ==
    ASSUME NotifierInv, NEW s \in Senders, NEW isBatch \in BOOLEAN, NEW stage \in {"bucket", "post"},
           Begins(s, isBatch, stage), isBatch => stage = "bucket"
    PROVE  NotifierInv'
  <1> USE DEF Begins, Goto, discord, bucket
  <1>1. NotifierTypes'
    BY DEF NotifierInv, NotifierTypes
  <1>2. CountInv'
    BY DEF NotifierInv, NotifierTypes, CountInv
  <1>3. PaceInv'
    <2> SUFFICES ASSUME Quiet' PROVE PaceInv'
      BY DEF PaceInv
    <2>1. Quiet /\ \A q \in Senders \ {s} : pc[q] = "idle"
      BY DEF Quiet, NotifierInv, NotifierTypes
    <2>2. /\ pc'[s] = stage /\ batch'[s] = isBatch
          /\ \A q \in Senders \ {s} : pc'[q] = "idle"
      BY <2>1 DEF NotifierInv, NotifierTypes
    <2>3. QED BY <2>1, <2>2 DEF NotifierInv, PaceInv, Alone, HeadersCurrent
  <1>4. RefusedInv'
    BY DEF NotifierInv, NotifierTypes, RefusedInv
  <1>5. QED BY <1>1, <1>2, <1>3, <1>4 DEF NotifierInv

LEMMA WaitForBucketKeeps ==
    ASSUME NotifierInv, NEW s \in Senders, WaitForBucket(s)
    PROVE  NotifierInv'
  <1> USE DEF WaitForBucket, Goto, Exhausted, discord, bucket, env, history
  <1>1. NotifierTypes'
    BY DEF NotifierInv, NotifierTypes
  <1>2. CountInv'
    BY DEF NotifierInv, NotifierTypes, CountInv
  <1>3. PaceInv'
    BY DEF NotifierInv, NotifierTypes, PaceInv, Quiet, Alone, HeadersCurrent
  <1>4. RefusedInv'
    BY DEF NotifierInv, NotifierTypes, RefusedInv
  <1>5. QED BY <1>1, <1>2, <1>3, <1>4 DEF NotifierInv

LEMMA TimerFiresKeeps ==
    ASSUME NotifierInv, NEW s \in Senders, TimerFires(s)
    PROVE  NotifierInv'
  <1> USE DEF TimerFires, Goto, discord, bucket, env, history
  <1>1. NotifierTypes'
    BY DEF NotifierInv, NotifierTypes
  <1>2. CountInv'
    BY DEF NotifierInv, NotifierTypes, CountInv
  <1>3. PaceInv'
    BY DEF NotifierInv, NotifierTypes, PaceInv, Quiet, Alone, HeadersCurrent
  <1>4. RefusedInv'
    BY DEF NotifierInv, NotifierTypes, RefusedInv
  <1>5. QED BY <1>1, <1>2, <1>3, <1>4 DEF NotifierInv

LEMMA PostOnceKeeps ==
    ASSUME NotifierInv, NEW s \in Senders, PostOnce(s)
    PROVE  NotifierInv'
  <1> USE DEF bucket, Counts
  <1>0. PICK status \in {"ok", "429", "error", "global", "lost"}, n \in Nat :
           /\ Answers(s, status, n)
           /\ status # "lost" => n = cap'
           /\ status = "lost" => cap' = cap \/ uncounted'
           /\ status = "ok"   => arrived' = [arrived EXCEPT ![s] = @ + 1]
           /\ status = "429"  => arrived' = arrived
           /\ cap' \in Nat /\ cap' <= cap
           /\ arrived' \in {arrived, [arrived EXCEPT ![s] = @ + 1]}
           /\ faults' \in {faults, faults + 1}
           /\ uncounted' \in {uncounted, TRUE}
           /\ \/ UNCHANGED refused
              \/ status = "429" /\ refused' = [refused EXCEPT ![s] = TRUE]
    <2>1. Counts => cap' \in Nat /\ cap' <= cap
      BY DEF NotifierInv, NotifierTypes
    <2> HIDE DEF Counts
    <2>2. CASE Takes(s)
      <3>1. cap' \in Nat /\ cap' <= cap /\ Answers(s, "ok", cap')
        BY <2>1, <2>2 DEF Takes
      <3>2. QED BY <2>2, <3>1 DEF Takes, history
    <2>3. CASE Refuses(s)
      <3>1. cap' = 0 /\ cap = 0 /\ Answers(s, "429", 0)
        BY <2>3 DEF Refuses
      <3>2. QED BY <2>3, <3>1 DEF Refuses
    <2>4. CASE Errors(s) /\ faults' = faults + 1
      <3>1. cap' \in Nat /\ cap' <= cap
        BY <2>1, <2>4 DEF Errors, NotifierInv, NotifierTypes
      <3>2. PICK code \in {"error", "global"} : Answers(s, code, cap')
        BY <2>4 DEF Errors
      <3>3. UNCHANGED <<arrived, refused, uncounted>>
        BY <2>4 DEF Errors, history
      <3>4. QED BY <2>4, <3>1, <3>2, <3>3
    <2>5. CASE Loses(s) /\ faults' = faults + 1
      <3>1. cap' \in Nat /\ cap' <= cap
        BY <2>1, <2>5 DEF Loses, NotifierInv, NotifierTypes
      <3>2. QED BY <2>5, <3>1 DEF Loses
    <2>6. QED BY <2>2, <2>3, <2>4, <2>5 DEF PostOnce
  <1>a. [status |-> status, remaining |-> n, reset |-> left] \in AnswerRecord
    BY DEF AnswerRecord, NotifierInv, NotifierTypes
  <1>b. /\ pc[s] = "post" /\ pc' = [pc EXCEPT ![s] = "answer"]
        /\ answer' = [answer EXCEPT ![s] = [status |-> status, remaining |-> n, reset |-> left]]
        /\ UNCHANGED <<left, remaining, resetIn, batch, sent, attempt, wait, others, crowded>>
    BY <1>0 DEF PostOnce, Answers, Goto
  <1>1. NotifierTypes'
    <2>1. answer' \in [Senders -> AnswerRecord] /\ pc' \in [Senders -> {"idle", "bucket", "sleep", "post", "answer"}]
      BY <1>a, <1>b DEF NotifierInv, NotifierTypes
    <2>2. arrived' \in [Senders -> Nat] /\ faults' \in Nat
      BY <1>0 DEF NotifierInv, NotifierTypes
    <2>3. refused' \in [Senders -> BOOLEAN] /\ uncounted' \in BOOLEAN
      BY <1>0 DEF NotifierInv, NotifierTypes
    <2>4. QED BY <1>0, <1>b, <2>1, <2>2, <2>3 DEF NotifierInv, NotifierTypes
  <1>2. CountInv'
    BY <1>0, <1>b DEF NotifierInv, NotifierTypes, CountInv
  <1>3. PaceInv'
    <2> SUFFICES ASSUME Quiet' PROVE PaceInv'
      BY DEF PaceInv
    <2>1. Quiet /\ left' = left /\ UNCHANGED bucket
      BY <1>b DEF Quiet
    <2>2. \A q \in Senders \ {s} : pc'[q] = pc[q] /\ pc[q] = "idle"
      BY <1>b, <2>1 DEF NotifierInv, NotifierTypes, PaceInv, Alone
    <2>3. pc'[s] = "answer" /\ answer'[s].status = status
          /\ (status # "lost" => answer'[s].remaining = cap') /\ answer'[s].reset = left
      BY <1>0, <1>b DEF NotifierInv, NotifierTypes
    <2>4. HeadersCurrent' => HeadersCurrent /\ cap' = cap
      BY <1>0, <1>b, <2>1, <2>2, <2>3 DEF HeadersCurrent
    <2>5. QED BY <1>0, <1>b, <2>1, <2>2, <2>3, <2>4
      DEF NotifierInv, NotifierTypes, PaceInv, Alone
  <1>4. RefusedInv'
    <2>1. ~refused[s]
      BY <1>b DEF NotifierInv, RefusedInv
    <2>2. QED BY <1>0, <1>b, <2>1 DEF NotifierInv, NotifierTypes, RefusedInv
  <1>5. QED BY <1>1, <1>2, <1>3, <1>4 DEF NotifierInv

LEMMA HandleAnswerKeeps ==
    ASSUME NotifierInv, NEW s \in Senders, HandleAnswer(s)
    PROVE  NotifierInv'
  <1> USE DEF HandleAnswer, Handle429, GiveUp, Returns, Update, Goto, discord, bucket
  <1>0. answer[s] \in AnswerRecord /\ answer[s].remaining \in Nat /\ answer[s].reset \in Nat
    BY DEF NotifierInv, NotifierTypes, AnswerRecord
  <1>1. NotifierTypes'
    <2>1. answer' \in [Senders -> AnswerRecord]
      BY DEF NoAnswer, AnswerRecord, NotifierInv, NotifierTypes
    <2>2. remaining' \in Nat /\ resetIn' \in Nat \cup {-1}
      BY <1>0 DEF NotifierInv, NotifierTypes
    <2>3. /\ pc' \in [Senders -> {"idle", "bucket", "sleep", "post", "answer"}]
          /\ sent' \in [Senders -> Nat] /\ attempt' \in [Senders -> Nat] /\ wait' \in [Senders -> Nat]
      BY <1>0 DEF NotifierInv, NotifierTypes
    <2>4. QED BY <2>1, <2>2, <2>3 DEF NotifierInv, NotifierTypes
  <1>2. CountInv'
    BY DEF NoAnswer, NotifierInv, NotifierTypes, CountInv, AnswerRecord
  <1>3. PaceInv'
    <2> SUFFICES ASSUME Quiet' PROVE PaceInv'
      BY DEF PaceInv
    <2>1. Quiet /\ left' = left /\ cap' = cap /\ pc[s] = "answer"
      BY DEF Quiet
    <2>2. \A q \in Senders \ {s} : pc'[q] = pc[q] /\ pc[q] = "idle"
      BY <2>1 DEF NotifierInv, NotifierTypes, PaceInv, Alone
    <2>3. cap = 0 /\ answer[s].status # "lost" => answer[s].remaining = 0 /\ answer[s].reset >= left
      BY <2>1 DEF NotifierInv, PaceInv
    <2>4. /\ pc'[s] \in {"idle", "bucket", "sleep"}
          /\ pc'[s] = "sleep" => wait'[s] = answer[s].reset /\ answer[s].status = "429"
      BY DEF NotifierInv, NotifierTypes
    <2>5. CASE answer[s].status # "lost" /\ remaining' = answer[s].remaining /\ resetIn' = answer[s].reset
      BY <2>1, <2>2, <2>3, <2>4, <2>5 DEF PaceInv, Alone
    <2>6. CASE answer[s].status = "lost" /\ UNCHANGED <<bucket, uncounted>>
      <3>1. resetIn # -1 /\ ~uncounted => HeadersCurrent
        BY <2>2, <2>6 DEF HeadersCurrent
      <3>2. QED BY <2>1, <2>2, <2>3, <2>4, <2>6, <3>1
        DEF NotifierInv, PaceInv, Alone, HeadersCurrent
    <2>7. QED BY <2>5, <2>6
  <1>4. RefusedInv'
    BY DEF NotifierInv, NotifierTypes, RefusedInv
  <1>5. QED BY <1>1, <1>2, <1>3, <1>4 DEF NotifierInv

LEMMA CancelledKeeps ==
    ASSUME NotifierInv, NEW s \in Senders, Cancelled(s)
    PROVE  NotifierInv'
  <1> USE DEF Cancelled, Returns, Goto, discord, bucket, history
  <1>1. NotifierTypes'
    BY DEF NotifierInv, NotifierTypes
  <1>2. CountInv'
    BY DEF NotifierInv, NotifierTypes, CountInv
  <1>3. PaceInv'
    BY DEF NotifierInv, NotifierTypes, PaceInv, Quiet, Alone, HeadersCurrent
  <1>4. RefusedInv'
    BY DEF NotifierInv, NotifierTypes, RefusedInv
  <1>5. QED BY <1>1, <1>2, <1>3, <1>4 DEF NotifierInv

LEMMA TickKeeps ==
    ASSUME NotifierInv, Tick
    PROVE  NotifierInv'
  <1> USE DEF Tick, Down, history
  <1>0. \/ refused' = [s \in Senders |-> FALSE] /\ uncounted' = FALSE
        \/ UNCHANGED <<refused, uncounted>>
    OBVIOUS
  <1>1. NotifierTypes'
    <2>1. refused' \in [Senders -> BOOLEAN] /\ uncounted' \in BOOLEAN
      BY <1>0 DEF NotifierInv, NotifierTypes
    <2>2. QED BY <2>1, NotifierConstants DEF NotifierInv, NotifierTypes
  <1>2. CountInv'
    BY DEF NotifierInv, NotifierTypes, CountInv
  <1>3. PaceInv'
    BY NotifierConstants DEF NotifierInv, NotifierTypes, PaceInv, Quiet, Alone, HeadersCurrent, AnswerRecord
  <1>4. RefusedInv'
    <2>1. CASE left = 1
      BY <2>1 DEF RefusedInv
    <2>2. CASE left # 1
      <3>1. left' = left - 1 /\ left - 1 \in Nat \ {0} /\ UNCHANGED <<refused, pc, answer>>
        BY <2>2 DEF NotifierInv, NotifierTypes
      <3>2. ASSUME NEW s \in Senders, wait[s] >= left PROVE wait'[s] >= left'
        BY <3>1, <3>2 DEF NotifierInv, NotifierTypes
      <3>3. ASSUME NEW s \in Senders, answer[s].status = "429", answer[s].reset >= left
            PROVE  answer[s].reset >= left'
        BY <3>1, <3>3 DEF NotifierInv, NotifierTypes, AnswerRecord
      <3>4. QED BY <3>1, <3>2, <3>3 DEF NotifierInv, RefusedInv
    <2>3. QED BY <2>1, <2>2
  <1>5. QED BY <1>1, <1>2, <1>3, <1>4 DEF NotifierInv

LEMMA NotifierStep == NotifierInv /\ [Next]_vars => NotifierInv'
  <1> SUFFICES ASSUME NotifierInv, [Next]_vars PROVE NotifierInv'
    OBVIOUS
  <1>1. ASSUME NEW s \in Senders, SendBatchAlert(s) \/ SendAlert(s) PROVE NotifierInv'
    BY <1>1, BeginsKeeps DEF SendBatchAlert, SendAlert
  <1>2. ASSUME NEW s \in Senders, (OwnStep(s) \/ PostOnce(s)) PROVE NotifierInv'
    BY <1>2, WaitForBucketKeeps, TimerFiresKeeps, PostOnceKeeps, HandleAnswerKeeps DEF OwnStep
  <1>3. ASSUME NEW s \in Senders, Cancelled(s) PROVE NotifierInv'
    BY <1>3, CancelledKeeps
  <1>4. CASE Tick
    BY <1>4, TickKeeps
  <1>5. CASE OtherPost
    <2>1. ~Quiet'
      BY <1>5 DEF OtherPost, Quiet, NotifierInv, NotifierTypes
    <2>2. QED BY <1>5, <2>1
      DEF OtherPost, bucket, sending, history, NotifierInv, NotifierTypes, CountInv, RefusedInv, PaceInv
  <1>6. CASE UNCHANGED vars
    BY <1>6 DEF vars, discord, bucket, sending, env, history,
                NotifierInv, NotifierTypes, CountInv, RefusedInv, PaceInv, Quiet, Alone, HeadersCurrent
  <1>7. QED BY <1>1, <1>2, <1>3, <1>4, <1>5, <1>6 DEF Next

\* What each call of SendBatchAlert or SendAlert has counted agrees with what
\* Discord took; a call that met a 429 sleeps out the window; and the rate limit
\* state of a notifier that nobody disturbs never ends before the window it stands
\* for, unless an answer was lost in it.
THEOREM NotifierInvariant == Spec => []NotifierInv
  BY InitNotifierInv, NotifierStep, PTL DEF Spec

\* What SendBatchAlert reports as sent is what Discord took, or one chunk less,
\* for any number of senders, chunks, attempts and failures.
THEOREM SentCountIsTrue == Spec => []SentCountTruthful
  <1>1. NotifierInv => SentCountTruthful
    BY DEF NotifierInv, CountInv, SentCountTruthful
  <1>2. QED BY <1>1, NotifierInvariant, PTL

\* No call posts twice into a window that refuses it, for any senders beside it;
\* and a batch that nobody disturbs meets no 429 once an answer has been seen and
\* while none is lost, for every capacity and length of the window and however late
\* answers are.
THEOREM BatchesArePaced == Spec => []PacedAfterFirstAnswer
  <1>1. NotifierInv => PacedAfterFirstAnswer
    BY DEF NotifierInv, RefusedInv, PaceInv, Quiet, PacedAfterFirstAnswer
  <1>2. QED BY <1>1, NotifierInvariant, PTL

-----------------------------------------------------------------------------
(***************************************************************************)
(* The refinement of WebhookPosting. A chunk is posted when its answer is   *)
(* handled; until then the call is between two posts. InCall says that a    *)
(* call which has not returned has chunks left, and how many a single embed *)
(* has counted.                                                             *)
(***************************************************************************)

InCall ==
    \A s \in Senders : pc[s] # "idle" => IF batch[s] THEN sent[s] < Chunks ELSE sent[s] = 0

PostingInv == NotifierInv /\ InCall

LEMMA InCallStep == PostingInv /\ [Next]_vars => InCall'
  <1> SUFFICES ASSUME NotifierInv, InCall, [Next]_vars PROVE InCall'
    BY DEF PostingInv
  <1>1. NotifierTypes /\ Chunks \in Nat \ {0}
    BY NotifierConstants DEF NotifierInv
  <1>2. ASSUME NEW s \in Senders, SendBatchAlert(s) \/ SendAlert(s) PROVE InCall'
    BY <1>1, <1>2 DEF SendBatchAlert, SendAlert, Begins, Goto, InCall, NotifierTypes
  <1>3. ASSUME NEW s \in Senders, HandleAnswer(s) PROVE InCall'
    <2>1. \/ /\ sent' = [sent EXCEPT ![s] = sent[s] + 1]
             /\ pc' = [pc EXCEPT ![s] = IF ~batch[s] \/ sent[s] + 1 = Chunks THEN "idle" ELSE "bucket"]
          \/ UNCHANGED sent /\ \E st : pc' = [pc EXCEPT ![s] = st]
      BY <1>3 DEF HandleAnswer, Handle429, GiveUp, Returns, Goto
    <2>2. pc[s] = "answer" /\ UNCHANGED batch
      BY <1>3 DEF HandleAnswer
    <2>3. QED BY <1>1, <2>1, <2>2 DEF InCall, NotifierTypes
  <1>4. ASSUME NEW s \in Senders, WaitForBucket(s) \/ TimerFires(s) \/ PostOnce(s) \/ Cancelled(s)
        PROVE  InCall'
    <2>1. pc[s] # "idle" /\ UNCHANGED <<sent, batch>> /\ \E st : pc' = [pc EXCEPT ![s] = st]
      BY <1>4 DEF WaitForBucket, TimerFires, PostOnce, Takes, Refuses, Errors, Loses, Answers,
                  Cancelled, Returns, Goto
    <2>2. QED BY <1>1, <2>1 DEF InCall, NotifierTypes
  <1>5. CASE Tick \/ OtherPost \/ UNCHANGED vars
    BY <1>5 DEF Tick, OtherPost, vars, sending, InCall
  <1>6. QED BY <1>2, <1>3, <1>4, <1>5 DEF Next, OwnStep

\* A call that has not returned has chunks left to post, in every state.
THEOREM PostingInvariant == Spec => []PostingInv
  <1>1. Init => InCall
    BY DEF Init, InCall
  <1>2. QED BY <1>1, InCallStep, NotifierInvariant, PTL DEF Spec, PostingInv

-----------------------------------------------------------------------------
\* The calls and the chunks in Discord as the callers see them.
OpenCalls == [s \in Senders |-> IF pc[s] = "idle" THEN 0 ELSE IF batch[s] THEN Chunks ELSE 1]
Taken == [s \in Senders |-> IF pc[s] = "answer" THEN sent[s] ELSE arrived[s]]

PostingStep == Posting!PostingNext \/ UNCHANGED Posting!postingVars

LEMMA PostingStays ==
    ASSUME UNCHANGED <<OpenCalls, Taken, sent>>
    PROVE  PostingStep
  BY DEF PostingStep, Posting!postingVars, OpenCalls, Taken

\* What a step of one call may do to what the callers see.
LEMMA OneCall ==
    ASSUME NotifierTypes, NEW s \in Senders, NEW n, NEW m,
           \A q \in Senders \ {s} : pc'[q] = pc[q] /\ batch'[q] = batch[q] /\ sent'[q] = sent[q] /\ arrived'[q] = arrived[q],
           OpenCalls'[s] = n, Taken'[s] = m
    PROVE  /\ OpenCalls' = [OpenCalls EXCEPT ![s] = n]
           /\ Taken' = [Taken EXCEPT ![s] = m]
  BY DEF OpenCalls, Taken

LEMMA BeginsMaps ==
    ASSUME PostingInv, NEW s \in Senders, SendBatchAlert(s) \/ SendAlert(s)
    PROVE  PostingStep
  <1>1. PICK isBatch \in BOOLEAN, stage \in {"bucket", "post"} : Begins(s, isBatch, stage)
    BY DEF SendBatchAlert, SendAlert
  <1>2. /\ NotifierTypes /\ pc[s] = "idle" /\ pc' = [pc EXCEPT ![s] = stage]
        /\ batch' = [batch EXCEPT ![s] = isBatch] /\ sent' = [sent EXCEPT ![s] = 0]
        /\ arrived' = [arrived EXCEPT ![s] = 0]
    BY <1>1 DEF Begins, Goto, PostingInv, NotifierInv
  <1>3. PICK n \in {1, Chunks} : n = IF isBatch THEN Chunks ELSE 1
    OBVIOUS
  <1>4. OpenCalls[s] = 0 /\ OpenCalls'[s] = n /\ Taken'[s] = 0
    BY <1>2, <1>3 DEF OpenCalls, Taken, NotifierTypes
  <1>5. OpenCalls' = [OpenCalls EXCEPT ![s] = n] /\ Taken' = [Taken EXCEPT ![s] = 0]
    <2>1. \A q \in Senders \ {s} : pc'[q] = pc[q] /\ batch'[q] = batch[q] /\ sent'[q] = sent[q] /\ arrived'[q] = arrived[q]
      BY <1>2 DEF NotifierTypes
    <2>2. PICK m : m = 0
      OBVIOUS
    <2>3. Taken'[s] = m
      BY <1>4, <2>2
    <2>4. Taken' = [Taken EXCEPT ![s] = m] /\ OpenCalls' = [OpenCalls EXCEPT ![s] = n]
      BY <1>2, <1>4, <2>1, <2>3, OneCall
    <2>5. QED BY <2>2, <2>4
  <1>6. Posting!Begin(s)
    BY <1>2, <1>4, <1>5 DEF Posting!Begin, OpenCalls, Taken
  <1>7. QED BY <1>6 DEF PostingStep, Posting!PostingNext

\* The end of a call that has posted nothing since it last counted, or had one
\* post with no answer to count.
LEMMA FailureMaps ==
    ASSUME PostingInv, NEW s \in Senders, pc[s] # "idle", pc' = [pc EXCEPT ![s] = "idle"],
           UNCHANGED <<batch, sent, arrived>>
    PROVE  PostingStep
  <1>1. NotifierTypes /\ CountInv /\ InCall /\ Chunks \in Nat \ {0}
    BY NotifierConstants DEF PostingInv, NotifierInv
  <1>2. OpenCalls'[s] = 0 /\ Taken'[s] = arrived[s] /\ Taken[s] = sent[s] /\ sent[s] < OpenCalls[s]
    BY <1>1 DEF OpenCalls, Taken, NotifierTypes, CountInv, InCall
  <1>3. \A q \in Senders \ {s} : pc'[q] = pc[q] /\ batch'[q] = batch[q] /\ sent'[q] = sent[q] /\ arrived'[q] = arrived[q]
    BY <1>1 DEF NotifierTypes
  <1>4. PICK n : n = 0
    OBVIOUS
  <1>5. OpenCalls' = [OpenCalls EXCEPT ![s] = n] /\ Taken' = [Taken EXCEPT ![s] = arrived[s]]
    <2>1. PICK m : m = arrived[s]
      OBVIOUS
    <2>2. OpenCalls'[s] = n /\ Taken'[s] = m
      BY <1>2, <1>4, <2>1
    <2>3. OpenCalls' = [OpenCalls EXCEPT ![s] = n] /\ Taken' = [Taken EXCEPT ![s] = m]
      BY <1>1, <1>3, <2>2, OneCall
    <2>4. QED BY <2>1, <2>3
  <1>6. arrived[s] = Taken[s] \/ arrived[s] = Taken[s] + 1
    <2>1. sent[s] \in Nat /\ arrived[s] \in Nat /\ sent[s] <= arrived[s] /\ arrived[s] <= sent[s] + 1
      BY <1>1 DEF CountInv, NotifierTypes
    <2>2. QED BY <1>2, <2>1
  <1>7. Taken' \in {Taken, [Taken EXCEPT ![s] = Taken[s] + 1]}
    <2>1. [Taken EXCEPT ![s] = Taken[s]] = Taken
      BY DEF Taken
    <2>2. QED BY <1>5, <1>6, <2>1
  <1>8. Posting!PostFails(s)
    BY <1>2, <1>4, <1>5, <1>7 DEF Posting!PostFails, OpenCalls, Taken
  <1>9. QED BY <1>8 DEF PostingStep, Posting!PostingNext

\* A call that goes on without counting anything.
LEMMA WaitingMaps ==
    ASSUME PostingInv, NEW s \in Senders, pc[s] # "idle", UNCHANGED <<batch, sent>>,
           NEW stage \in {"sleep", "post", "answer"}, pc' = [pc EXCEPT ![s] = stage],
           arrived' \in {arrived, [arrived EXCEPT ![s] = arrived[s] + 1]},
           stage # "answer" => arrived' = arrived /\ arrived[s] = sent[s],
           pc[s] # "answer"  => arrived[s] = sent[s]
    PROVE  PostingStep
  <1>1. NotifierTypes
    BY DEF PostingInv, NotifierInv
  <1>2. OpenCalls' = OpenCalls
    BY <1>1 DEF OpenCalls, NotifierTypes
  <1>3. Taken[s] = sent[s] /\ Taken'[s] = sent[s]
    BY <1>1 DEF Taken, NotifierTypes
  <1>4. \A q \in Senders \ {s} : Taken'[q] = Taken[q]
    BY <1>1 DEF Taken, NotifierTypes
  <1>5. Taken' = Taken
    BY <1>3, <1>4 DEF Taken
  <1>6. QED BY <1>2, <1>5, PostingStays

LEMMA HandleAnswerMaps ==
    ASSUME PostingInv, NEW s \in Senders, HandleAnswer(s)
    PROVE  PostingStep
  <1>1. NotifierTypes /\ CountInv /\ InCall /\ Chunks \in Nat \ {0} /\ pc[s] = "answer"
    BY NotifierConstants DEF PostingInv, NotifierInv, HandleAnswer
  <1>2. UNCHANGED <<batch, arrived>>
    BY DEF HandleAnswer
  <1>3. CASE answer[s].status = "ok"
    <2>1. PICK stage : /\ stage = (IF ~batch[s] \/ sent[s] + 1 = Chunks THEN "idle" ELSE "bucket")
                       /\ pc' = [pc EXCEPT ![s] = stage]
      BY <1>3 DEF HandleAnswer, Returns, Goto
    <2>2. sent' = [sent EXCEPT ![s] = sent[s] + 1]
      BY <1>3 DEF HandleAnswer
    <2>3. arrived[s] = sent[s] + 1
      BY <1>1, <1>3 DEF CountInv
    <2>4. PICK n : n = IF sent[s] + 1 = OpenCalls[s] THEN 0 ELSE OpenCalls[s]
      OBVIOUS
    <2>5. PICK m : m = sent[s] + 1
      OBVIOUS
    <2>6. /\ Taken[s] = sent[s] /\ sent[s] < OpenCalls[s] /\ sent'[s] = m
          /\ OpenCalls'[s] = n /\ Taken'[s] = m
      BY <1>1, <1>2, <2>1, <2>2, <2>3, <2>4, <2>5 DEF OpenCalls, Taken, NotifierTypes, InCall
    <2>7. \A q \in Senders \ {s} : pc'[q] = pc[q] /\ batch'[q] = batch[q] /\ sent'[q] = sent[q] /\ arrived'[q] = arrived[q]
      BY <1>1, <1>2, <2>1, <2>2 DEF NotifierTypes
    <2>8. OpenCalls' = [OpenCalls EXCEPT ![s] = n] /\ Taken' = [Taken EXCEPT ![s] = m]
      BY <1>1, <2>6, <2>7, OneCall
    <2>9. Taken' = [Taken EXCEPT ![s] = Taken[s] + 1]
      BY <2>5, <2>6, <2>8
    <2>10. OpenCalls' = [OpenCalls EXCEPT ![s] = IF sent'[s] = OpenCalls[s] THEN 0 ELSE OpenCalls[s]]
      BY <2>4, <2>5, <2>6, <2>8
    <2>11. Posting!PostSucceeds(s)
      BY <2>2, <2>6, <2>9, <2>10 DEF Posting!PostSucceeds, OpenCalls, Taken
    <2>12. QED BY <2>11 DEF PostingStep, Posting!PostingNext
  <1>4. CASE answer[s].status = "429" /\ attempt[s] < Max429Attempts
    <2>1. pc' = [pc EXCEPT ![s] = "sleep"] /\ UNCHANGED sent
      BY <1>4 DEF HandleAnswer, Handle429, Goto
    <2>2. arrived[s] = sent[s]
      BY <1>1, <1>4 DEF CountInv
    <2>3. PICK stage \in {"sleep", "post", "answer"} : stage = "sleep"
      OBVIOUS
    <2>4. pc' = [pc EXCEPT ![s] = stage] /\ stage # "answer"
      BY <2>1, <2>3
    <2>5. QED BY <1>1, <1>2, <2>1, <2>2, <2>4, WaitingMaps
  <1>5. CASE answer[s].status \in {"error", "global", "lost"} \/ (answer[s].status = "429" /\ ~(attempt[s] < Max429Attempts))
    <2>1. pc' = [pc EXCEPT ![s] = "idle"] /\ UNCHANGED sent
      BY <1>5 DEF HandleAnswer, Handle429, GiveUp, Returns, Goto
    <2>2. QED BY <1>1, <1>2, <2>1, FailureMaps
  <1>6. QED BY <1>3, <1>4, <1>5 DEF HandleAnswer

LEMMA StagesMap ==
    ASSUME PostingInv, NEW s \in Senders, WaitForBucket(s) \/ TimerFires(s) \/ PostOnce(s)
    PROVE  PostingStep
  <1>1. /\ pc[s] \in {"bucket", "sleep", "post"} /\ UNCHANGED <<batch, sent>>
        /\ arrived' \in {arrived, [arrived EXCEPT ![s] = arrived[s] + 1]}
    BY DEF WaitForBucket, TimerFires, PostOnce, Takes, Refuses, Errors, Loses
  <1>2. arrived[s] = sent[s]
    BY <1>1 DEF PostingInv, NotifierInv, CountInv
  <1>3. PICK stage \in {"sleep", "post", "answer"} :
           pc' = [pc EXCEPT ![s] = stage] /\ (stage # "answer" => arrived' = arrived)
    BY DEF WaitForBucket, TimerFires, PostOnce, Takes, Refuses, Errors, Loses, Answers, Goto
  <1>4. QED BY <1>1, <1>2, <1>3, WaitingMaps

LEMMA NextPosts == PostingInv /\ [Next]_vars => [Posting!PostingNext]_(Posting!postingVars)
  <1> SUFFICES ASSUME PostingInv, [Next]_vars PROVE PostingStep
    BY DEF PostingStep
  <1>1. ASSUME NEW s \in Senders, SendBatchAlert(s) \/ SendAlert(s) PROVE PostingStep
    BY <1>1, BeginsMaps
  <1>2. ASSUME NEW s \in Senders, (OwnStep(s) \/ PostOnce(s)) PROVE PostingStep
    BY <1>2, HandleAnswerMaps, StagesMap DEF OwnStep
  <1>3. ASSUME NEW s \in Senders, Cancelled(s) PROVE PostingStep
    <2>1. /\ pc[s] # "idle" /\ pc' = [pc EXCEPT ![s] = "idle"] /\ UNCHANGED <<batch, sent, arrived>>
      BY <1>3 DEF Cancelled, Returns, Goto
    <2>2. QED BY <2>1, FailureMaps
  <1>4. CASE Tick \/ OtherPost \/ UNCHANGED vars
    <2>1. UNCHANGED <<pc, batch, sent, arrived>>
      BY <1>4 DEF Tick, OtherPost, vars, sending
    <2>2. QED BY <2>1, PostingStays DEF OpenCalls, Taken
  <1>5. QED BY <1>1, <1>2, <1>3, <1>4 DEF Next

\* SendBatchAlert and SendAlert do what AlertDelivery takes a post for, for any
\* senders, chunks, attempts and limits, and whatever else posts to the webhook.
THEOREM NotifierImplementsPosting == Spec => ImplementsPosting
  <1>1. Init => Posting!PostingInit
    BY DEF Init, Posting!PostingInit
  <1>2. QED BY <1>1, NextPosts, PostingInvariant, PTL DEF Spec, ImplementsPosting, Posting!PostingSpec
=============================================================================
