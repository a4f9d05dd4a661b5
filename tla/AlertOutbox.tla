---------------------------- MODULE AlertOutbox ----------------------------
(***************************************************************************)
(* What the alert pipeline promises: an outbox. A row asks for a message,  *)
(* and at any time there is at most one open request for a watch and a     *)
(* listing. Messages are posted for rows only, any number of times; a      *)
(* receipt is taken only for a message that arrived, whoever posted it;    *)
(* rows are closed only after their own message arrived, several of them   *)
(* at once maybe. Rows go with their watch. Nothing is ever taken back: no *)
(* row is reopened, no receipt or message forgotten.                       *)
(***************************************************************************)
CONSTANTS
    Ids,                 \* names of the rows
    Watches, Listings

VARIABLES
    rows,       \* row id -> its watch, its listing and whether it is closed
    posted,     \* rows whose message the pipeline got into Discord
    byHand,     \* rows whose message an operator got into Discord
    receipts,   \* rows with a receipt
    alive       \* watches that have not been deleted

outboxVars == <<rows, posted, byHand, receipts, alive>>

Stands(a) == a \in DOMAIN rows /\ rows[a].watch \in alive
Open(a) == Stands(a) /\ ~rows[a].closed

OutboxInit ==
    /\ rows = [a \in {} |-> {}]
    /\ posted = {} /\ byHand = {} /\ receipts = {}
    /\ alive = Watches

Raise(a, w, l) ==
    /\ a \notin DOMAIN rows
    /\ w \in alive
    /\ ~ \E b \in DOMAIN rows : Open(b) /\ rows[b].watch = w /\ rows[b].listing = l
    /\ rows' = [b \in DOMAIN rows \cup {a} |->
                   IF b = a THEN [watch |-> w, listing |-> l, closed |-> FALSE] ELSE rows[b]]
    /\ UNCHANGED <<posted, byHand, receipts, alive>>

Post(S) ==
    /\ S \subseteq DOMAIN rows
    /\ posted' = posted \cup S
    /\ UNCHANGED <<rows, byHand, receipts, alive>>

PostByHand(a) ==
    /\ Stands(a)
    /\ byHand' = byHand \cup {a}
    /\ UNCHANGED <<rows, posted, receipts, alive>>

TakeReceipt(a) ==
    /\ Stands(a)
    /\ a \in posted \cup byHand
    /\ receipts' = receipts \cup {a}
    /\ UNCHANGED <<rows, posted, byHand, alive>>

Close(S) ==
    /\ \A a \in S : Stands(a) /\ a \in posted
    /\ rows' = [a \in DOMAIN rows |-> IF a \in S THEN [rows[a] EXCEPT !.closed = TRUE] ELSE rows[a]]
    /\ UNCHANGED <<posted, byHand, receipts, alive>>

Withdraw(w) ==
    /\ w \in alive
    /\ alive' = alive \ {w}
    /\ UNCHANGED <<rows, posted, byHand, receipts>>

OutboxNext ==
    \/ \E a \in Ids, w \in Watches, l \in Listings : Raise(a, w, l)
    \/ \E S \in SUBSET Ids : Post(S) \/ Close(S)
    \/ \E a \in Ids : PostByHand(a) \/ TakeReceipt(a)
    \/ \E w \in Watches : Withdraw(w)

OutboxSpec == OutboxInit /\ [][OutboxNext]_outboxVars
=============================================================================
