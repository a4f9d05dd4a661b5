----------------------------- MODULE OAuthToken -----------------------------
(***************************************************************************)
(* OAuthTokenProvider: one cached token for the browse and the analytics   *)
(* client, refreshed under a mutex when less than refreshBuffer is left.   *)
(*                                                                         *)
(* Source: internal/ebay/auth.go; its callers Search in browse.go and      *)
(* GetBrowseQuota in analytics.go.                                         *)
(*                                                                         *)
(* eBay is external: it issues tokens and knows when they really expire.   *)
(* A tick is the longest that an HTTP client waits for an answer.          *)
(***************************************************************************)
EXTENDS Integers

CONSTANTS
    Users,         \* concurrent calls of Token
    NoUser,
    Life,          \* expires_in of a token
    RefreshBuffer  \* refreshBuffer, 60 seconds

ASSUME TokenConstants ==
    /\ NoUser \notin Users
    /\ {Life, RefreshBuffer} \subseteq Nat
    /\ Life > 2 /\ RefreshBuffer >= 2

VARIABLES
    expiry,  \* time to OAuthTokenProvider.expiry; 0: passed, or no token yet
    live,    \* eBay: how long it will accept the cached token
    mu,      \* who holds OAuthTokenProvider.mu
    at,      \* per user: where it is
    carries, \* per user: how long eBay will accept the token it carries
    slow     \* per user: its HTTP exchange has taken a tick already

cache == <<expiry, live, mu>>
users == <<at, carries, slow>>
tokenVars == <<cache, users>>

InitToken ==
    /\ expiry = 0 /\ live = 0 /\ mu = NoUser
    /\ at = [u \in Users |-> "idle"]
    /\ carries = [u \in Users |-> 0]
    /\ slow = [u \in Users |-> FALSE]

Moves(u, there, left) ==
    /\ at' = [at EXCEPT ![u] = there]
    /\ carries' = [carries EXCEPT ![u] = left]
    /\ slow' = [slow EXCEPT ![u] = FALSE]

\* A plausible fault: the cached token is used until it expires.
ValidToTheEnd == expiry > 0

TokenValid == expiry > RefreshBuffer

CachedToken(u) ==
    /\ at[u] = "idle" /\ mu = NoUser
    /\ TokenValid
    /\ Moves(u, "send", live)
    /\ UNCHANGED cache

\* refreshLocked: eBay issues a token; the mutex stays locked over the request.
RequestToken(u) ==
    /\ at[u] = "idle" /\ mu = NoUser
    /\ ~TokenValid
    /\ mu' = u
    /\ Moves(u, "refresh", Life)
    /\ UNCHANGED <<expiry, live>>

\* The expiry is reckoned from the arrival of the answer. A failed request
\* leaves the old token in place.
TokenAnswer(u) ==
    /\ at[u] = "refresh"
    /\ mu' = NoUser
    /\ \/ /\ expiry' = Life /\ live' = carries[u]
          /\ Moves(u, "send", carries[u])
       \/ Moves(u, "idle", 0) /\ UNCHANGED <<expiry, live>>

\* The request that carries the token arrives at eBay.
Request(u) ==
    /\ at[u] = "send"
    /\ Moves(u, "idle", 0)
    /\ UNCHANGED cache

Less(n) == IF n > 0 THEN n - 1 ELSE 0

TokenTick ==
    /\ \A u \in Users : ~slow[u]
    /\ slow' = [u \in Users |-> at[u] # "idle"]
    /\ expiry' = Less(expiry) /\ live' = Less(live)
    /\ carries' = [u \in Users |-> Less(carries[u])]
    /\ UNCHANGED <<mu, at>>

NextToken ==
    \/ \E u \in Users : CachedToken(u) \/ RequestToken(u) \/ TokenAnswer(u) \/ Request(u)
    \/ TokenTick

SpecToken == InitToken /\ [][NextToken]_tokenVars

\* Why: the reckoned expiry is ahead of the real one by at most the delay of
\* one answer, and an exchange in progress has lost at most one tick.
TokenInv ==
    /\ expiry \in 0..Life /\ live \in 0..Life /\ mu \in Users \cup {NoUser}
    /\ at \in [Users -> {"idle", "refresh", "send"}]
    /\ carries \in [Users -> 0..Life]
    /\ slow \in [Users -> BOOLEAN]
    /\ expiry <= live + 1
    /\ \A u \in Users : at[u] = "refresh" => carries[u] >= (IF slow[u] THEN Life - 1 ELSE Life)
    /\ \A u \in Users : at[u] = "send" => carries[u] >= (IF slow[u] THEN 1 ELSE 2)

\* Token keeps a minute in reserve because it reckons the expiry from the
\* arrival of the answer, after eBay issued the token, and because the request
\* is sent later still: whatever these delays and whoever refreshed the token,
\* eBay never sees an expired one.
TokenLive == \A u \in Users : at[u] = "send" => carries[u] > 0
=============================================================================
