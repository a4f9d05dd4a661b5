--------------------------- MODULE ListingRefresh ---------------------------
(***************************************************************************)
(* What the extraction pipeline promises about a listing, without rows of  *)
(* a table, workers, pods and contexts. A listing has at most one open     *)
(* request. A request is taken once, and from then on one party at most    *)
(* works on it and on its listing. That party stores extractions of titles *)
(* no older than the request and than what is stored, scores what is       *)
(* stored, evaluates alerts on that score, and answers the request: "done" *)
(* only if the extraction that was asked for is there. It may give up at   *)
(* any time; then nobody takes the request again, and it stays open.       *)
(***************************************************************************)
EXTENDS Naturals

CONSTANTS
    Listings,
    Ids          \* names of the requests

VARIABLES
    title,       \* per listing: version of its title
    extracted,   \* per listing: version that was last extracted
    scored,      \* per listing: version of its score
    evaluated,   \* per listing: version its alerts were evaluated on
    requests,    \* request id -> its listing, the version wanted, its state
    working      \* requests that somebody is working on

productVars == <<extracted, scored, evaluated>>
refreshVars == <<title, productVars, requests, working>>

OpenRequest(i) == i \in DOMAIN requests /\ requests[i].state \in {"waiting", "taken"}

RefreshInit ==
    /\ title = [l \in Listings |-> 0]
    /\ extracted = [l \in Listings |-> 0]
    /\ scored = [l \in Listings |-> 0]
    /\ evaluated = [l \in Listings |-> 0]
    /\ requests = [i \in {} |-> {}]
    /\ working = {}

NewTitle(l) ==
    /\ title' = [title EXCEPT ![l] = @ + 1]
    /\ UNCHANGED <<productVars, requests, working>>

Ask(i, l) ==
    /\ i \notin DOMAIN requests
    /\ ~ \E k \in DOMAIN requests : OpenRequest(k) /\ requests[k].listing = l
    /\ requests' = [k \in DOMAIN requests \cup {i} |->
                       IF k = i THEN [listing |-> l, wanted |-> title[l], state |-> "waiting"]
                                ELSE requests[k]]
    /\ UNCHANGED <<title, productVars, working>>

\* Who takes a request may never learn of it.
Take(i) ==
    /\ i \in DOMAIN requests
    /\ requests[i].state = "waiting"
    /\ requests' = [requests EXCEPT ![i].state = "taken"]
    /\ working' \in {working, working \cup {i}}
    /\ UNCHANGED <<title, productVars>>

Store(i) ==
    LET l == requests[i].listing IN
    /\ i \in working
    /\ \E v \in extracted[l]..title[l] :
          /\ v >= requests[i].wanted
          /\ extracted' = [extracted EXCEPT ![l] = v]
    /\ UNCHANGED <<title, scored, evaluated, requests, working>>

Rate(i) ==
    LET l == requests[i].listing IN
    /\ i \in working
    /\ scored' = [scored EXCEPT ![l] = extracted[l]]
    /\ UNCHANGED <<title, extracted, evaluated, requests, working>>

Evaluate(i) ==
    LET l == requests[i].listing IN
    /\ i \in working
    /\ scored[l] = extracted[l]
    /\ evaluated' = [evaluated EXCEPT ![l] = scored[l]]
    /\ UNCHANGED <<title, extracted, scored, requests, working>>

Answer(i, state) ==
    /\ i \in working
    /\ state = "done" => extracted[requests[i].listing] >= requests[i].wanted
    /\ requests' = [requests EXCEPT ![i].state = state]
    /\ working' = working \ {i}
    /\ UNCHANGED <<title, productVars>>

GiveUp(S) ==
    /\ working' = working \ S
    /\ UNCHANGED <<title, productVars, requests>>

RefreshNext ==
    \/ \E l \in Listings : NewTitle(l) \/ \E i \in Ids : Ask(i, l)
    \/ \E i \in Ids : \/ Take(i) \/ Store(i) \/ Rate(i) \/ Evaluate(i)
                      \/ \E state \in {"done", "failed"} : Answer(i, state)
    \/ \E S \in SUBSET Ids : GiveUp(S)

RefreshSpec == RefreshInit /\ [][RefreshNext]_refreshVars
=============================================================================
