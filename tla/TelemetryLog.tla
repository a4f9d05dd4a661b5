---------------------------- MODULE TelemetryLog ----------------------------
(***************************************************************************)
(* What the buffered Langfuse client promises: a queue of bounded length   *)
(* that never blocks a caller. A record is taken or, only if the queue is  *)
(* full, dropped; the records taken are written in order and each is       *)
(* settled once, as written or as failed; what is still queued when the    *)
(* process ends is lost, and then only.                                    *)
(***************************************************************************)
EXTENDS Integers, Sequences

CONSTANTS
    Records,   \* generations and scores
    BufferSize   \* length of the queue

VARIABLES
    pending,   \* records taken and not yet settled, in order
    fate,      \* per record: what the client reported of it
    ended      \* the process has ended

logVars == <<pending, fate, ended>>

LogInit ==
    /\ pending = <<>>
    /\ fate = [r \in Records |-> "none"]
    /\ ended = FALSE

\* The writer holds one record, so one more than BufferSize may be pending.
Take(r) ==
    /\ ~ended /\ fate[r] = "none"
    /\ \A i \in DOMAIN pending : pending[i] # r
    /\ Len(pending) <= BufferSize
    /\ pending' = Append(pending, r)
    /\ UNCHANGED <<fate, ended>>

Drop(r) ==
    /\ ~ended /\ fate[r] = "none"
    /\ \A i \in DOMAIN pending : pending[i] # r
    /\ Len(pending) >= BufferSize
    /\ fate' = [fate EXCEPT ![r] = "dropped"]
    /\ UNCHANGED <<pending, ended>>

Settle(outcome) ==
    /\ ~ended /\ pending # <<>>
    /\ fate' = [fate EXCEPT ![Head(pending)] = outcome]
    /\ pending' = Tail(pending)
    /\ UNCHANGED ended

End ==
    /\ ~ended
    /\ ended' = TRUE
    /\ UNCHANGED <<pending, fate>>

LogNext ==
    \/ \E r \in Records : Take(r) \/ Drop(r)
    \/ \E outcome \in {"written", "failed"} : Settle(outcome)
    \/ End

LogSpec == LogInit /\ [][LogNext]_logVars
=============================================================================
