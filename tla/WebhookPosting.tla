--------------------------- MODULE WebhookPosting ---------------------------
(***************************************************************************)
(* What the Discord notifier promises to ProcessAlerts and to Retry, and   *)
(* what AlertDelivery takes for granted: a call posts its chunks in order, *)
(* and a post is one step. It succeeds, and then the chunk is in Discord   *)
(* and counted; or it fails, and then the call ends, and the chunk is in   *)
(* Discord or is not. Waiting and retrying are not to be seen: no chunk is *)
(* posted again once Discord has taken it.                                 *)
(***************************************************************************)
EXTENDS Naturals

CONSTANTS
    Senders,   \* concurrent calls of the notifier
    Chunks     \* chunks of a batch

VARIABLES
    calls,     \* per sender: chunks its call has to post, 0 between two calls
    counted,   \* per sender: chunks that the call counts as sent
    taken      \* per sender: chunks that Discord took from the call

postingVars == <<calls, counted, taken>>

PostingInit ==
    /\ calls = [s \in Senders |-> 0]
    /\ counted = [s \in Senders |-> 0]
    /\ taken = [s \in Senders |-> 0]

\* A batch, or a single embed.
Begin(s) ==
    /\ calls[s] = 0
    /\ \E n \in {1, Chunks} : calls' = [calls EXCEPT ![s] = n]
    /\ counted' = [counted EXCEPT ![s] = 0]
    /\ taken' = [taken EXCEPT ![s] = 0]

PostSucceeds(s) ==
    /\ counted[s] < calls[s]
    /\ taken[s] = counted[s]
    /\ counted' = [counted EXCEPT ![s] = @ + 1]
    /\ taken' = [taken EXCEPT ![s] = @ + 1]
    /\ calls' = [calls EXCEPT ![s] = IF counted'[s] = @ THEN 0 ELSE @]

PostFails(s) ==
    /\ counted[s] < calls[s]
    /\ taken[s] = counted[s]
    /\ taken' \in {taken, [taken EXCEPT ![s] = @ + 1]}
    /\ calls' = [calls EXCEPT ![s] = 0]
    /\ UNCHANGED counted

PostingNext == \E s \in Senders : Begin(s) \/ PostSucceeds(s) \/ PostFails(s)

PostingSpec == PostingInit /\ [][PostingNext]_postingVars
=============================================================================
