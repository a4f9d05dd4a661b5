---------------------------- MODULE MCEbayClient ----------------------------
(* The two parts of the eBay client that keep state, for TLC: the rate       *)
(* limiter and the token provider. They share none and run one beside the    *)
(* other. A day of two ticks and a limit of one search make two callers meet *)
(* at the limit and at midnight.                                             *)
EXTENDS RateLimiter, OAuthToken

VARIABLE part  \* which of the two runs

mcVars == <<limiterVars, tokenVars, part>>

MCInit ==
  /\ part \in {"limiter", "token"}
  /\ InitLimiter /\ InitToken
  /\ part = "token" => (used = 0 /\ ebayIn = Day /\ stored = NoRow)

Limited == part = "limiter" /\ NextLimiter /\ UNCHANGED <<tokenVars, part>>
Refreshing == part = "token" /\ NextToken /\ UNCHANGED <<limiterVars, part>>

MCNext == Limited \/ Refreshing

(* LimiterFairness, while that part runs.                                    *)
Ticking == part = "limiter" /\ Tick /\ UNCHANGED <<tokenVars, part>>
Warming == part = "limiter" /\ Prewarm /\ UNCHANGED <<tokenVars, part>>
Syncing == part = "limiter" /\ SyncQuota /\ UNCHANGED <<tokenVars, part>>
Waiting(c) == part = "limiter" /\ Wait(c) /\ UNCHANGED <<tokenVars, part>>
Sending(c) == part = "limiter" /\ SearchSent(c) /\ UNCHANGED <<tokenVars, part>>

MCFairness ==
  /\ WF_mcVars(Ticking) /\ WF_mcVars(Warming) /\ WF_mcVars(Syncing)
  /\ \A c \in Callers : WF_mcVars(Waiting(c)) /\ WF_mcVars(Sending(c))

MCSpec == MCInit /\ [][MCNext]_mcVars /\ MCFairness
=============================================================================
