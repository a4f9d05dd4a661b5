--------------------------- MODULE DiscordNotifier ---------------------------
(***************************************************************************)
(* SendBatchAlert: the chunks of a batch are posted to the webhook one     *)
(* after the other, paced by what the X-RateLimit headers of earlier       *)
(* answers said and retried once after a 429. SendAlert posts one embed    *)
(* without waiting.                                                        *)
(*                                                                         *)
(* Source: internal/notify/discord.go, internal/notify/ratelimit.go.       *)
(*                                                                         *)
(* Senders share one notifier: ProcessAlerts of overlapping cycles and the *)
(* Retry handler. Discord is external: a bucket of Capacity posts that is  *)
(* filled up every Window. Times are kept as the time left until them.     *)
(***************************************************************************)
EXTENDS Integers

CONSTANTS
    Senders,        \* concurrent calls of SendBatchAlert and SendAlert
    Chunks,         \* chunks of a batch
    Capacity,       \* posts per window
    Window,         \* length of a window
    Max429Attempts, \* max429Attempts, 2 in the code
    MaxOthers,      \* bound: posts of other processes to the same webhook
    MaxFaults       \* bound: posts that fail otherwise than with a 429, cancelled waits

ASSUME NotifierConstants ==
    /\ {Chunks, Capacity, Window, Max429Attempts} \subseteq Nat \ {0}
    /\ {MaxOthers, MaxFaults} \subseteq Nat

VARIABLES
    cap,        \* Discord: posts left in this window
    left,       \* Discord: time until the next window
    remaining,  \* rateLimitState.remaining
    resetIn,    \* rateLimitState.resetAt, as time left; -1: the zero time
    pc,         \* per sender: where it is in the call
    batch,      \* per sender: whether it is in SendBatchAlert
    sent,       \* per sender: chunks counted as sent
    attempt,    \* per sender: attempt of post
    wait,       \* per sender: time left of its sleep
    answer,     \* per sender: the response on its way back
    arrived,    \* history, per sender: chunks of this batch that Discord took
    others,     \* posts of other processes so far
    crowded,    \* history: two senders were active at one time
    refused,    \* history, per sender: a 429 met its call in this window
    uncounted,  \* history: in this window Discord has counted a post that the
                \* headers read last do not know of, its answer being lost
    faults      \* failed posts so far

discord  == <<cap, left>>
bucket   == <<remaining, resetIn>>
sending  == <<pc, batch, sent, attempt, wait, answer, arrived>>
history  == <<refused, uncounted>>
env      == <<others, crowded, history, faults>>
vars == <<discord, bucket, sending, env>>

NoAnswer == [status |-> "none", remaining |-> 0, reset |-> 0]

\* newRateLimitState assumes capacity; what earlier processes left of the
\* window is unknown.
Init ==
    /\ cap \in 0..Capacity
    /\ left = Window
    /\ remaining = 1
    /\ resetIn = -1
    /\ pc = [s \in Senders |-> "idle"]
    /\ batch = [s \in Senders |-> FALSE]
    /\ sent = [s \in Senders |-> 0]
    /\ attempt = [s \in Senders |-> 1]
    /\ wait = [s \in Senders |-> 0]
    /\ answer = [s \in Senders |-> NoAnswer]
    /\ arrived = [s \in Senders |-> 0]
    /\ others = 0
    /\ crowded = FALSE
    /\ refused = [s \in Senders |-> FALSE]
    /\ uncounted = FALSE
    /\ faults = 0

-----------------------------------------------------------------------------
Goto(s, stage) == pc' = [pc EXCEPT ![s] = stage]

\* A call begins, with its locals.
Begins(s, isBatch, stage) ==
    /\ pc[s] = "idle"
    /\ Goto(s, stage)
    /\ batch' = [batch EXCEPT ![s] = isBatch]
    /\ sent' = [sent EXCEPT ![s] = 0]
    /\ arrived' = [arrived EXCEPT ![s] = 0]
    /\ crowded' = (crowded \/ \E q \in Senders \ {s} : pc[q] # "idle")
    /\ refused' = [refused EXCEPT ![s] = FALSE]
    /\ UNCHANGED <<discord, bucket, attempt, wait, answer, others, uncounted, faults>>

\* A batch of Chunks chunks; a single embed, which does not ask for the bucket.
SendBatchAlert(s) == Begins(s, TRUE, "bucket")
SendAlert(s) == Begins(s, FALSE, "post")

\* mutant: the wait for the bucket is skipped
Never == FALSE

\* remaining = 0, and the reset is known and in the future
Exhausted == remaining = 0 /\ resetIn > 0

\* The optional inter-chunk delay that follows is time spent in stage "post"; a
\* context that ends during it makes the post fail.
WaitForBucket(s) ==
    /\ pc[s] = "bucket"
    /\ attempt' = [attempt EXCEPT ![s] = 1]
    /\ IF Exhausted
       THEN Goto(s, "sleep") /\ wait' = [wait EXCEPT ![s] = resetIn]
       ELSE Goto(s, "post") /\ UNCHANGED wait
    /\ UNCHANGED <<discord, bucket, batch, sent, answer, arrived, env>>

\* The timer of waitForBucket or of handle429 fires.
TimerFires(s) ==
    /\ pc[s] = "sleep"
    /\ wait[s] = 0
    /\ Goto(s, "post")
    /\ UNCHANGED <<discord, bucket, batch, sent, attempt, wait, answer, arrived, env>>

Answers(s, status, n) ==
    /\ answer' = [answer EXCEPT ![s] = [status |-> status, remaining |-> n, reset |-> left]]
    /\ Goto(s, "answer")

\* Discord counts a post against the window.
Counts == cap > 0 /\ cap' = cap - 1

\* Discord takes the embeds, or refuses them as one post too many.
Takes(s) ==
    /\ Counts
    /\ arrived' = [arrived EXCEPT ![s] = @ + 1]
    /\ Answers(s, "ok", cap')
    /\ UNCHANGED <<history, faults>>

Refuses(s) ==
    /\ cap = 0
    /\ Answers(s, "429", 0)
    /\ refused' = [refused EXCEPT ![s] = TRUE]
    /\ UNCHANGED <<cap, arrived, uncounted, faults>>

\* An error status or a global 429, with headers; Discord may have counted the post.
Errors(s) ==
    /\ Counts \/ UNCHANGED cap
    /\ \E status \in {"error", "global"} : Answers(s, status, cap')
    /\ UNCHANGED <<arrived, history>>

\* No answer with headers comes: a transport error, a cancelled request, a
\* gateway in front of Discord. The post got there all the same, and was counted,
\* or it did not.
Loses(s) ==
    /\ Answers(s, "lost", 0)
    /\ UNCHANGED refused
    /\ \/ /\ Counts
          /\ arrived' = [arrived EXCEPT ![s] = @ + 1]
          /\ uncounted' = TRUE
       \/ UNCHANGED <<cap, arrived, uncounted>>

\* client.Do, as long as it takes Discord to answer: nothing ends it sooner.
PostOnce(s) ==
    /\ pc[s] = "post"
    /\ \/ Takes(s)
       \/ Refuses(s)
       \/ /\ faults < MaxFaults
          /\ faults' = faults + 1
          /\ Errors(s) \/ Loses(s)
    /\ UNCHANGED <<left, bucket, batch, sent, attempt, wait, others, crowded>>

\* rateLimit.update: every answer that has headers overwrites the state.
Update(s) ==
    /\ remaining' = answer[s].remaining
    /\ resetIn' = answer[s].reset
    /\ uncounted' = FALSE

\* The call returns the number of chunks sent, with or without an error.
Returns(s) == Goto(s, "idle") /\ attempt' = [attempt EXCEPT ![s] = 1]

\* mutant: a post that failed without a 429 is tried again
RetryErrors(s) ==
    IF attempt[s] < Max429Attempts
    THEN Goto(s, "post") /\ attempt' = [attempt EXCEPT ![s] = @ + 1] ELSE Returns(s)

\* Any other failure is not retried.
GiveUp(s) == Returns(s)

\* mutant: attempts are not counted
RetryForEver(s) ==
    /\ Goto(s, "sleep")
    /\ wait' = [wait EXCEPT ![s] = answer[s].reset]
    /\ UNCHANGED attempt

\* handle429: one more attempt after Retry-After.
Handle429(s) ==
    IF attempt[s] < Max429Attempts
    THEN /\ attempt' = [attempt EXCEPT ![s] = @ + 1]
         /\ wait' = [wait EXCEPT ![s] = answer[s].reset]
         /\ Goto(s, "sleep")
    ELSE Returns(s) /\ UNCHANGED wait

\* postOnce goes on with the answer, after a transport error without an update.
HandleAnswer(s) ==
    /\ pc[s] = "answer"
    /\ answer' = [answer EXCEPT ![s] = NoAnswer]
    /\ IF answer[s].status = "lost" THEN UNCHANGED <<bucket, uncounted>> ELSE Update(s)
    /\ \/ /\ answer[s].status = "ok"
          /\ sent' = [sent EXCEPT ![s] = @ + 1]
          /\ IF ~batch[s] \/ sent[s] + 1 = Chunks THEN Returns(s)
             ELSE Goto(s, "bucket") /\ UNCHANGED attempt
          /\ UNCHANGED wait
       \/ answer[s].status = "429" /\ Handle429(s) /\ UNCHANGED sent
       \/ answer[s].status \in {"error", "global", "lost"} /\ GiveUp(s) /\ UNCHANGED <<sent, wait>>
    /\ UNCHANGED <<discord, batch, arrived, others, crowded, refused, faults>>

\* The context of the caller is cancelled while it waits.
Cancelled(s) ==
    /\ pc[s] = "sleep"
    /\ faults < MaxFaults
    /\ faults' = faults + 1
    /\ wait' = [wait EXCEPT ![s] = 0]
    /\ Returns(s)
    /\ UNCHANGED <<discord, bucket, batch, sent, answer, arrived, others, crowded, history>>

-----------------------------------------------------------------------------
(* Discord and time. *)

Down(n) == IF n > 0 THEN n - 1 ELSE n

Tick ==
    /\ IF left = 1 THEN /\ left' = Window /\ cap' = Capacity
                        /\ refused' = [s \in Senders |-> FALSE] /\ uncounted' = FALSE
                   ELSE left' = left - 1 /\ UNCHANGED <<cap, history>>
    /\ resetIn' = Down(resetIn)
    /\ wait' = [s \in Senders |-> Down(wait[s])]
    /\ UNCHANGED <<remaining, pc, batch, sent, attempt, answer, arrived, others, crowded, faults>>

\* Another process (a second replica, say) posts to the webhook.
OtherPost ==
    /\ others < MaxOthers
    /\ others' = others + 1
    /\ cap > 0
    /\ cap' = cap - 1
    /\ UNCHANGED <<left, bucket, sending, crowded, history, faults>>

-----------------------------------------------------------------------------
\* What the program does by itself, once its timer fires or its answer is there.
OwnStep(s) == WaitForBucket(s) \/ TimerFires(s) \/ HandleAnswer(s)

Next ==
    \/ \E s \in Senders :
          SendBatchAlert(s) \/ SendAlert(s) \/ OwnStep(s) \/ PostOnce(s) \/ Cancelled(s)
    \/ Tick
    \/ OtherPost

Spec == Init /\ [][Next]_vars

\* Time passes, and a call goes on when it can. Nothing makes a batch arrive,
\* another client post, or Discord answer: http.DefaultClient has no timeout, and
\* the context of the scheduler has no deadline.
FairSpec == Spec /\ WF_vars(Tick) /\ \A s \in Senders : WF_vars(OwnStep(s))

-----------------------------------------------------------------------------
(* Properties. *)

\* The count that SendBatchAlert returns is what Discord took, or one chunk less
\* when the answer to the last post was lost or is still on its way: no chunk is
\* counted that did not arrive, and none is posted again once it has, however
\* 429s, retries and other senders interleave.
SentCountTruthful ==
    \A s \in Senders : sent[s] <= arrived[s] /\ arrived[s] <= sent[s] + 1

\* To its callers a post is one step that succeeds, or fails and ends the call:
\* AlertDelivery is written in these terms. What a batch counts, and stops at,
\* must not depend on 429s, retries and waits, nor on when an answer comes.
Posting == INSTANCE WebhookPosting WITH
    calls   <- [s \in Senders |->
                   IF pc[s] = "idle" THEN 0 ELSE IF batch[s] THEN Chunks ELSE 1],
    counted <- sent,
    taken   <- [s \in Senders |-> IF pc[s] = "answer" THEN sent[s] ELSE arrived[s]]
ImplementsPosting == Posting!PostingSpec

\* No call posts again in the window in which it met a 429, whatever the other
\* senders of the process and other clients do meanwhile to the shared headers and
\* to the window, and however late its answers come.
\* And as long as nobody else posts to the webhook and calls do not overlap, the
\* chunks of a batch never run into a 429 once some answer has been seen:
\* waitForBucket holds each one back until the window that the last headers
\* announced is over, also after error statuses, after single alerts and from one
\* batch to the next. The exception is a window in which a post arrived and its
\* answer was lost: the headers read last promise more than is left.
PacedAfterFirstAnswer ==
    \A s \in Senders : pc[s] = "post" =>
        /\ ~refused[s]
        /\ batch[s] /\ others = 0 /\ ~crowded /\ ~uncounted /\ resetIn # -1 => cap > 0

\* Only Discord can keep a call from returning: a call ends, also when other
\* clients use up each window before the retry, unless one of its posts is never
\* answered. The number of attempts is bounded, and every wait ends.
BatchReturns ==
    \A s \in Senders :
        []<>(pc[s] # "post") => (pc[s] # "idle" ~> pc[s] = "idle")
=============================================================================
