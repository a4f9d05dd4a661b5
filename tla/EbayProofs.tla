----------------------------- MODULE EbayProofs -----------------------------
(***************************************************************************)
(* What is sent to eBay: the two parts of the client that keep state, and  *)
(* the ingestion cycles that call it.                                      *)
(*                                                                         *)
(* OAuthToken: no request carries an expired token, for every set of       *)
(* callers, every token life and every reserve of two ticks and more.      *)
(* TokenLive is not inductive: whether the token that Token hands out is   *)
(* still live depends on how far the reckoned expiry is ahead of the real  *)
(* one, and that on how long the answer took. TokenInv adds both.          *)
(*                                                                         *)
(* RateLimiter: the bound on eBay's daily quota, for any number of callers *)
(* and any limits. QuotaInv counts the searches in three groups: sent by   *)
(* callers admitted today (the counter knows of them), admitted and not    *)
(* yet counted (at most one per caller), and carried over from yesterday   *)
(* (at most one per caller).                                               *)
(*                                                                         *)
(* Ingestion: what max_calls_per_cycle is worth, for any number of         *)
(* overlapping cycles, watches, failures and crashes, any page limit and   *)
(* any market. CallsBounded counts the searches of a cycle. It is not      *)
(* inductive: the engine counts pages, and only when a watch is done.      *)
(* CycleInv says how the searches are spread over the pages counted        *)
(* (total), those of the watch in hand (page), and those that failed       *)
(* watches took with them. NoGap says that stopping at a known listing     *)
(* passes over nothing. It speaks of cycles with nothing in hand; GapInv   *)
(* says what holds of a cycle half way through the pages of a watch, while *)
(* other cycles upsert and listings come and go.                           *)
(***************************************************************************)
EXTENDS RateLimiter, OAuthToken, Ingestion, FiniteSetTheorems, TLAPS

\* The clock of a token stops at zero.
LEMMA LessNat ==
    ASSUME NEW n \in 0..Life
    PROVE  /\ Less(n) \in 0..Life
           /\ Less(n) <= n
           /\ Less(n) >= n - 1
  BY TokenConstants DEF Less

LEMMA InitTokenInv == InitToken => TokenInv
  BY TokenConstants DEF InitToken, TokenInv

\* A caller that moves on within an exchange, or ends one.
LEMMA MovesKeeps ==
    ASSUME TokenInv, NEW u \in Users, NEW left \in 0..Life,
           NEW there \in {"idle", "refresh", "send"},
           Moves(u, there, left),
           there = "refresh" => left = Life,
           there = "send" => left >= 2
    PROVE  /\ at' \in [Users -> {"idle", "refresh", "send"}]
           /\ carries' \in [Users -> 0..Life]
           /\ slow' \in [Users -> BOOLEAN]
           /\ \A v \in Users : at'[v] = "refresh" =>
                 carries'[v] >= (IF slow'[v] THEN Life - 1 ELSE Life)
           /\ \A v \in Users : at'[v] = "send" => carries'[v] >= (IF slow'[v] THEN 1 ELSE 2)
  <1>1. /\ at' \in [Users -> {"idle", "refresh", "send"}]
        /\ carries' \in [Users -> 0..Life]
        /\ slow' \in [Users -> BOOLEAN]
    BY DEF TokenInv, Moves
  <1>2. ASSUME NEW v \in Users
        PROVE  /\ at'[v] = "refresh" => carries'[v] >= (IF slow'[v] THEN Life - 1 ELSE Life)
               /\ at'[v] = "send" => carries'[v] >= (IF slow'[v] THEN 1 ELSE 2)
    <2>1. CASE v = u
      BY <2>1, TokenConstants DEF TokenInv, Moves
    <2>2. CASE v # u
      <3>1. at'[v] = at[v] /\ carries'[v] = carries[v] /\ slow'[v] = slow[v]
        BY <2>2 DEF TokenInv, Moves
      <3>2. QED BY <3>1 DEF TokenInv
    <2>3. QED BY <2>1, <2>2
  <1>3. QED BY <1>1, <1>2

LEMMA TokenStep == TokenInv /\ [NextToken]_tokenVars => TokenInv'
  <1> SUFFICES ASSUME TokenInv, [NextToken]_tokenVars PROVE TokenInv'
    OBVIOUS
  <1>1. ASSUME NEW u \in Users, CachedToken(u) PROVE TokenInv'
    <2>1. live \in 0..Life /\ live >= 2
      BY <1>1, TokenConstants DEF CachedToken, TokenValid, TokenInv
    <2>2. Moves(u, "send", live) /\ UNCHANGED <<expiry, live, mu>>
      BY <1>1 DEF CachedToken, cache
    <2>3. QED BY <2>1, <2>2, MovesKeeps DEF TokenInv
  <1>2. ASSUME NEW u \in Users, RequestToken(u) PROVE TokenInv'
    <2>1. Moves(u, "refresh", Life) /\ mu' = u /\ UNCHANGED <<expiry, live>>
      BY <1>2 DEF RequestToken
    <2>2. Life \in 0..Life
      BY TokenConstants
    <2>3. QED BY <2>1, <2>2, MovesKeeps DEF TokenInv
  <1>3. ASSUME NEW u \in Users, TokenAnswer(u) PROVE TokenInv'
    <2>1. mu' \in Users \cup {NoUser}
      BY <1>3 DEF TokenAnswer
    <2>2. carries[u] \in 0..Life /\ carries[u] >= Life - 1 /\ carries[u] >= 2
      BY <1>3, TokenConstants DEF TokenAnswer, TokenInv
    <2>3. CASE Moves(u, "send", carries[u]) /\ expiry' = Life /\ live' = carries[u]
      BY <2>1, <2>2, <2>3, MovesKeeps, TokenConstants DEF TokenInv
    <2>4. CASE Moves(u, "idle", 0) /\ UNCHANGED <<expiry, live>>
      <3>1. 0 \in 0..Life
        BY TokenConstants
      <3>2. QED BY <2>1, <2>4, <3>1, MovesKeeps DEF TokenInv
    <2>5. QED BY <1>3, <2>3, <2>4 DEF TokenAnswer
  <1>4. ASSUME NEW u \in Users, Request(u) PROVE TokenInv'
    <2>1. Moves(u, "idle", 0) /\ UNCHANGED <<expiry, live, mu>>
      BY <1>4 DEF Request, cache
    <2>2. 0 \in 0..Life
      BY TokenConstants
    <2>3. QED BY <2>1, <2>2, MovesKeeps DEF TokenInv
  <1>5. ASSUME TokenTick PROVE TokenInv'
    <2>1. /\ expiry' \in 0..Life /\ live' \in 0..Life /\ mu' \in Users \cup {NoUser}
          /\ expiry' <= live' + 1
      BY <1>5, TokenConstants DEF TokenTick, Less, TokenInv
    <2>2. /\ at' = at /\ at' \in [Users -> {"idle", "refresh", "send"}]
          /\ slow' = [u \in Users |-> at[u] # "idle"]
          /\ carries' = [u \in Users |-> Less(carries[u])]
      BY <1>5 DEF TokenTick, TokenInv
    <2>3. slow' \in [Users -> BOOLEAN]
      BY <2>2
    <2>4. carries' \in [Users -> 0..Life]
      BY <2>2, LessNat DEF TokenInv
    <2>5. ASSUME NEW u \in Users, at'[u] # "idle"
          PROVE  slow'[u] /\ carries'[u] >= carries[u] - 1 /\ ~slow[u]
                 /\ carries[u] \in 0..Life
      <3>1. slow'[u] /\ ~slow[u]
        BY <1>5, <2>2, <2>5 DEF TokenTick
      <3>2. carries[u] \in 0..Life
        BY DEF TokenInv
      <3>3. carries'[u] = Less(carries[u])
        BY <2>2
      <3>4. QED BY <3>1, <3>2, <3>3, LessNat
    <2>6. \A u \in Users : at'[u] = "refresh" =>
             carries'[u] >= (IF slow'[u] THEN Life - 1 ELSE Life)
      BY <2>2, <2>4, <2>5, TokenConstants DEF TokenInv
    <2>7. \A u \in Users : at'[u] = "send" => carries'[u] >= (IF slow'[u] THEN 1 ELSE 2)
      BY <2>2, <2>4, <2>5, TokenConstants DEF TokenInv
    <2>8. QED BY <2>1, <2>2, <2>3, <2>4, <2>6, <2>7 DEF TokenInv
  <1>6. CASE UNCHANGED tokenVars
    BY <1>6 DEF tokenVars, cache, users, TokenInv
  <1>7. QED BY <1>1, <1>2, <1>3, <1>4, <1>5, <1>6 DEF NextToken

\* The inductive invariant of Token: the reckoned expiry is ahead of the real
\* one by at most one tick, and a token in use has lost at most one.
THEOREM TokenInvariant == SpecToken => []TokenInv
  BY InitTokenInv, TokenStep, PTL DEF SpecToken

\* No request of Search or GetBrowseQuota reaches eBay with an expired token,
\* whoever refreshed it and however late the answer and the request are, as
\* long as refreshBuffer covers two waits of the HTTP client.
THEOREM TokensAreLive == SpecToken => []TokenLive
  <1>1. TokenInv => TokenLive
    BY TokenConstants DEF TokenInv, TokenLive
  <1>2. QED BY <1>1, TokenInvariant, PTL

-----------------------------------------------------------------------------
(* The rate limiter.                                                       *)

Admitted == {c \in Callers : admitted[c]}
InSend   == {c \in Callers : admitted[c] /\ call[c] = "send"}
Carried  == {c \in Callers : ~admitted[c] /\ call[c] \in {"bucket", "send"}}

LimiterTypes ==
    /\ daily \in Nat /\ maxDaily \in {DailyLimit, EbayLimit}
    /\ used \in Nat /\ sent \in Nat /\ ebayIn \in Nat \ {0}
    /\ call \in [Callers -> {"idle", "check", "bucket", "send"}]
    /\ admitted \in [Callers -> BOOLEAN]
    /\ quota \in [count : Nat, reset : Nat]
    /\ stored \in [row : BOOLEAN, count : Nat, reset : Nat]
    /\ forgot \in BOOLEAN /\ booted \in BOOLEAN

\* Before the first SyncQuota has ended nobody searches.
StartUp ==
    /\ ~booted => \A c \in Callers : call[c] = "idle"
    /\ sync = "prewarm" => ~booted /\ ~forgot
    /\ \A c \in Callers : admitted[c] => call[c] \in {"bucket", "send"}

\* A caller admitted yesterday sends at most one search of today.
CarriedOverOnce == used + Cardinality(Carried) <= sent + Cardinality(Callers)

\* The counter knows of every search of today that passed WaitBucket.
CounterKnows ==
    sync # "prewarm" /\ ~forgot => sent + Cardinality(InSend) <= daily

AdmissionBounded == ~forgot => Pending < Limit + Cardinality(Callers)

QuotaInv ==
    LimiterTypes /\ StartUp /\ CarriedOverOnce /\ CounterKnows /\ AdmissionBounded

LEMMA Counts ==
    /\ IsFiniteSet(Admitted) /\ IsFiniteSet(InSend) /\ IsFiniteSet(Carried)
    /\ Cardinality(Admitted) \in Nat /\ Cardinality(InSend) \in Nat /\ Cardinality(Carried) \in Nat
    /\ Cardinality(Callers) \in Nat \ {0}
    /\ Cardinality(InSend) <= Cardinality(Admitted)
    /\ Cardinality(Admitted) <= Cardinality(Callers)
    /\ Cardinality(Carried) <= Cardinality(Callers)
    /\ Pending = sent + Cardinality(Admitted)
  <1>1. IsFiniteSet(Callers) /\ Callers # {}
    BY LimiterConstants
  <1>2. Admitted \subseteq Callers /\ InSend \subseteq Admitted /\ Carried \subseteq Callers
    BY DEF Admitted, InSend, Carried
  <1>3. /\ IsFiniteSet(Admitted) /\ Cardinality(Admitted) <= Cardinality(Callers)
        /\ IsFiniteSet(Carried) /\ Cardinality(Carried) <= Cardinality(Callers)
    BY <1>1, <1>2, FS_Subset
  <1>4. IsFiniteSet(InSend) /\ Cardinality(InSend) <= Cardinality(Admitted)
    BY <1>2, <1>3, FS_Subset
  <1>5. Cardinality(Callers) \in Nat \ {0}
    BY <1>1, FS_CardinalityType, FS_EmptySet
  <1>6. QED BY <1>3, <1>4, <1>5, FS_CardinalityType DEF Pending, Admitted

LEMMA LimitBound ==
    /\ Limit \in Nat /\ DailyLimit <= Limit /\ EbayLimit <= Limit
    /\ DailyLimit \in Nat /\ EbayLimit \in Nat
  BY LimiterConstants DEF Limit

LEMMA InitQuotaInv == InitLimiter => QuotaInv
  <1> SUFFICES ASSUME InitLimiter PROVE QuotaInv
    OBVIOUS
  <1>1. LimiterTypes
    <2>1. daily \in Nat /\ used \in Nat /\ sent \in Nat /\ ebayIn \in Nat \ {0}
      BY LimiterConstants DEF InitLimiter
    <2>2. stored \in [row : BOOLEAN, count : Nat, reset : Nat]
      <3>1. CASE stored = NoRow
        BY <3>1 DEF NoRow
      <3>2. ASSUME NEW n \in 0..EbayLimit, stored = [row |-> TRUE, count |-> n, reset |-> 0]
            PROVE  stored \in [row : BOOLEAN, count : Nat, reset : Nat]
        BY <3>2, LimiterConstants
      <3>3. ASSUME NEW n \in 0..used, stored = [row |-> TRUE, count |-> n, reset |-> ebayIn]
            PROVE  stored \in [row : BOOLEAN, count : Nat, reset : Nat]
        BY <2>1, <3>3
      <3>4. QED BY <3>1, <3>2, <3>3 DEF InitLimiter
    <2>3. quota \in [count : Nat, reset : Nat]
      BY DEF InitLimiter, NoQuota
    <2>4. QED BY <2>1, <2>2, <2>3 DEF InitLimiter, LimiterTypes
  <1>2. StartUp
    BY DEF InitLimiter, StartUp
  <1>3. Admitted = {} /\ Carried = {} /\ used = sent /\ used <= EbayLimit
    BY LimiterConstants DEF InitLimiter, Admitted, Carried
  <1>4. Cardinality(Admitted) = 0 /\ Cardinality(Carried) = 0
    BY <1>3, FS_EmptySet
  <1>5. CarriedOverOnce
    BY <1>1, <1>3, <1>4, Counts DEF CarriedOverOnce, LimiterTypes
  <1>6. CounterKnows
    BY DEF InitLimiter, CounterKnows
  <1>7. AdmissionBounded
    BY <1>1, <1>3, <1>4, Counts, LimitBound DEF AdmissionBounded, LimiterTypes
  <1>8. QED BY <1>1, <1>2, <1>5, <1>6, <1>7 DEF QuotaInv

\* A step that leaves the callers alone leaves the groups alone.
LEMMA SameCallers ==
    ASSUME UNCHANGED <<call, admitted, sent>>
    PROVE  UNCHANGED <<Admitted, InSend, Carried, Pending>>
  BY DEF Admitted, InSend, Carried, Pending

\* The step of a caller that is not admitted and stays out of the bucket.
LEMMA OutsideBucket ==
    ASSUME LimiterTypes, NEW c \in Callers, ~admitted[c], UNCHANGED admitted,
           call[c] \in {"idle", "check"}, NEW there \in {"idle", "check"},
           call' = [call EXCEPT ![c] = there]
    PROVE  UNCHANGED <<Admitted, InSend, Carried>>
  <1>1. /\ call'[c] = there
        /\ \A d \in Callers : d # c => call'[d] = call[d]
    BY DEF LimiterTypes
  <1>2. QED BY <1>1 DEF Admitted, InSend, Carried

LEMMA PrewarmKeeps ==
    ASSUME QuotaInv, Prewarm
    PROVE  QuotaInv'
  <1> USE DEF Prewarm, LoadedState, ebay, server, limiter
  <1>1. LimiterTypes'
    BY LimiterConstants DEF QuotaInv, LimiterTypes, Forgets
  <1>2. StartUp'
    BY DEF QuotaInv, StartUp
  <1>3. UNCHANGED <<Admitted, InSend, Carried, Pending, used, sent>>
    BY SameCallers
  <1>4. CarriedOverOnce'
    BY <1>3 DEF QuotaInv, CarriedOverOnce
  <1>5. CounterKnows'
    <2> SUFFICES ASSUME ~forgot' PROVE sent' + Cardinality(InSend') <= daily'
      BY DEF CounterKnows
    <2>1. ~(Pending > (IF resetIn' >= ebayIn THEN daily' ELSE 0))
      BY DEF Forgets
    <2>2. daily' \in Nat /\ sent \in Nat
      BY <1>1 DEF LimiterTypes, QuotaInv
    <2>3. QED BY <1>3, <2>1, <2>2, Counts
  <1>6. AdmissionBounded'
    BY <1>3 DEF QuotaInv, StartUp, AdmissionBounded
  <1>7. QED BY <1>1, <1>2, <1>4, <1>5, <1>6 DEF QuotaInv

LEMMA CheckDailyResetKeeps ==
    ASSUME QuotaInv, NEW c \in Callers, CheckDailyReset(c)
    PROVE  QuotaInv'
  <1> USE DEF CheckDailyReset, ebay, server
  <1>0. LimiterTypes /\ call[c] = "idle" /\ ~admitted[c]
    BY DEF QuotaInv, StartUp
  <1>1. LimiterTypes'
    <2>1. daily' \in Nat
      BY <1>0 DEF LimiterTypes
    <2>2. forgot' = (forgot \/ Pending > 0) \/ forgot' = forgot
      OBVIOUS
    <2>3. forgot' \in BOOLEAN
      BY <1>0, <2>2, Zenon DEF LimiterTypes
    <2>4. call' \in [Callers -> {"idle", "check", "bucket", "send"}]
      BY <1>0 DEF LimiterTypes
    <2>5. QED BY <1>0, <2>1, <2>3, <2>4 DEF LimiterTypes
  <1>2. StartUp'
    BY <1>0 DEF QuotaInv, StartUp, LimiterTypes
  <1>3. UNCHANGED <<Admitted, InSend, Carried, used, sent>>
    BY <1>0, OutsideBucket
  <1>4. CarriedOverOnce'
    BY <1>3 DEF QuotaInv, CarriedOverOnce
  <1>5. CounterKnows'
    <2> SUFFICES ASSUME sync' # "prewarm", ~forgot' PROVE sent' + Cardinality(InSend') <= daily'
      BY DEF CounterKnows
    <2>1. CASE UNCHANGED <<daily, forgot>>
      BY <1>3, <2>1 DEF QuotaInv, CounterKnows
    <2>2. CASE daily' = 0 /\ ~(Pending > 0)
      BY <1>0, <1>3, <2>2, Counts DEF LimiterTypes
    <2>3. QED BY <2>1, <2>2
  <1>6. AdmissionBounded'
    <2>1. Pending' = Pending /\ (~forgot' => ~forgot)
      BY <1>0, <1>3 DEF Pending, Admitted, LimiterTypes
    <2>2. QED BY <2>1 DEF QuotaInv, AdmissionBounded
  <1>7. QED BY <1>1, <1>2, <1>4, <1>5, <1>6 DEF QuotaInv

LEMMA CheckDailyKeeps ==
    ASSUME QuotaInv, NEW c \in Callers, CheckDaily(c)
    PROVE  QuotaInv'
  <1> USE DEF CheckDaily, DailyLimitReached, limiter, ebay, server
  <1>0. LimiterTypes /\ call[c] = "check" /\ ~admitted[c] /\ booted /\ sync # "prewarm"
    BY DEF QuotaInv, StartUp
  <1>1. LimiterTypes'
    BY <1>0 DEF LimiterTypes
  <1>2. StartUp'
    BY <1>0 DEF QuotaInv, StartUp, LimiterTypes
  <1>3. CASE DailyLimitReached
    <2>1. admitted' = admitted /\ call' = [call EXCEPT ![c] = "idle"]
      BY <1>0, <1>3 DEF LimiterTypes
    <2>2. UNCHANGED <<Admitted, InSend, Carried, used, sent>>
      BY <1>0, <2>1, OutsideBucket
    <2>3. Pending' = Pending
      BY <2>2 DEF Pending, Admitted
    <2>4. QED BY <1>1, <1>2, <2>2, <2>3
      DEF QuotaInv, CarriedOverOnce, CounterKnows, AdmissionBounded
  <1>4. CASE ~DailyLimitReached
    <2>1. /\ admitted'[c] /\ call'[c] = "bucket"
          /\ \A d \in Callers : d # c => call'[d] = call[d] /\ admitted'[d] = admitted[d]
      BY <1>0, <1>4 DEF LimiterTypes
    <2>2. InSend' = InSend /\ Carried' = Carried
      BY <1>0, <2>1 DEF InSend, Carried
    <2>3. CarriedOverOnce' /\ CounterKnows'
      BY <2>2 DEF QuotaInv, CarriedOverOnce, CounterKnows
    <2>4. AdmissionBounded'
      <3> SUFFICES ASSUME ~forgot PROVE Pending' < Limit + Cardinality(Callers)
        BY DEF AdmissionBounded
      <3>1. Pending' = sent + Cardinality(Admitted') /\ Cardinality(Admitted') \in Nat
            /\ Cardinality(Admitted') <= Cardinality(Callers)
        <4>1. Admitted' \subseteq Callers
          BY DEF Admitted
        <4>2. QED BY <4>1, LimiterConstants, FS_Subset, FS_CardinalityType DEF Pending, Admitted
      <3>2. sent + Cardinality(InSend) <= daily /\ daily < maxDaily /\ maxDaily <= Limit
        BY <1>0, <1>4, LimitBound DEF QuotaInv, CounterKnows, LimiterTypes
      <3>3. QED BY <1>0, <3>1, <3>2, Counts, LimitBound DEF LimiterTypes
    <2>5. QED BY <1>1, <1>2, <2>3, <2>4 DEF QuotaInv
  <1>5. QED BY <1>3, <1>4

LEMMA WaitBucketKeeps ==
    ASSUME QuotaInv, NEW c \in Callers, WaitBucket(c)
    PROVE  QuotaInv'
  <1> USE DEF WaitBucket, LeaveCall, ebay, server
  <1>0. LimiterTypes /\ call[c] = "bucket" /\ booted /\ sync # "prewarm"
    BY DEF QuotaInv, StartUp
  <1>1. LimiterTypes'
    <2>1. /\ daily' \in {daily, daily + 1} /\ admitted' \in {admitted, [admitted EXCEPT ![c] = FALSE]}
          /\ call' \in {[call EXCEPT ![c] = "send"], [call EXCEPT ![c] = "idle"]}
      OBVIOUS
    <2>2. daily' \in Nat
      BY <1>0, <2>1 DEF LimiterTypes
    <2>3. admitted' \in [Callers -> BOOLEAN]
      BY <1>0, <2>1 DEF LimiterTypes
    <2>4. call' \in [Callers -> {"idle", "check", "bucket", "send"}]
      BY <1>0, <2>1 DEF LimiterTypes
    <2>5. QED BY <1>0, <2>2, <2>3, <2>4 DEF LimiterTypes
  <1>2. StartUp'
    BY <1>0 DEF QuotaInv, StartUp, LimiterTypes
  <1>3. CASE daily' = daily + 1 /\ call' = [call EXCEPT ![c] = "send"] /\ UNCHANGED admitted
    <2>1. call'[c] = "send" /\ \A d \in Callers : d # c => call'[d] = call[d]
      BY <1>0, <1>3 DEF LimiterTypes
    <2>2. Admitted' = Admitted /\ Carried' = Carried /\ InSend' \subseteq InSend \cup {c}
      BY <1>0, <1>3, <2>1 DEF Admitted, Carried, InSend
    <2>3. Cardinality(InSend') <= Cardinality(InSend) + 1 /\ Cardinality(InSend') \in Nat
      <3>1. IsFiniteSet(InSend \cup {c}) /\ Cardinality(InSend \cup {c}) <= Cardinality(InSend) + 1
        <4>1. IsFiniteSet(InSend) /\ Cardinality(InSend) \in Nat
          BY Counts
        <4>2. /\ IsFiniteSet(InSend \cup {c})
              /\ Cardinality(InSend \cup {c}) =
                    IF c \in InSend THEN Cardinality(InSend) ELSE Cardinality(InSend) + 1
          BY <4>1, FS_AddElement, Zenon
        <4>3. QED BY <4>1, <4>2
      <3>2. IsFiniteSet(InSend') /\ Cardinality(InSend') <= Cardinality(InSend \cup {c})
        BY <2>2, <3>1, FS_Subset
      <3>3. QED BY <3>1, <3>2, Counts, FS_CardinalityType
    <2>4. CounterKnows'
      BY <1>0, <1>3, <2>3, Counts DEF QuotaInv, CounterKnows, LimiterTypes
    <2>5. Pending' = Pending
      BY <2>2 DEF Pending, Admitted
    <2>6. QED BY <1>1, <1>2, <2>2, <2>4, <2>5 DEF QuotaInv, CarriedOverOnce, AdmissionBounded
  <1>4. CASE LeaveCall(c) /\ UNCHANGED daily
    <2>1. /\ call'[c] = "idle" /\ ~admitted'[c]
          /\ \A d \in Callers : d # c => call'[d] = call[d] /\ admitted'[d] = admitted[d]
      BY <1>0, <1>4 DEF LimiterTypes
    <2>2. Admitted' \subseteq Admitted /\ Carried' \subseteq Carried /\ InSend' = InSend
      BY <1>0, <2>1 DEF Admitted, Carried, InSend
    <2>3. /\ Cardinality(Admitted') <= Cardinality(Admitted) /\ Cardinality(Admitted') \in Nat
          /\ Cardinality(Carried') <= Cardinality(Carried) /\ Cardinality(Carried') \in Nat
      BY <2>2, Counts, FS_Subset, FS_CardinalityType
    <2>4. Pending' = sent + Cardinality(Admitted')
      BY DEF Pending, Admitted
    <2>5. CarriedOverOnce' /\ AdmissionBounded'
      BY <1>0, <2>3, <2>4, Counts, LimitBound
      DEF QuotaInv, CarriedOverOnce, AdmissionBounded, LimiterTypes
    <2>6. QED BY <1>1, <1>2, <1>4, <2>2, <2>5 DEF QuotaInv, CounterKnows
  <1>5. QED BY <1>3, <1>4

LEMMA SearchSentKeeps ==
    ASSUME QuotaInv, NEW c \in Callers, SearchSent(c)
    PROVE  QuotaInv'
  <1> USE DEF LeaveCall, limiter, server
  <1>0. LimiterTypes /\ call[c] = "send" /\ booted /\ sync # "prewarm"
    BY DEF SearchSent, QuotaInv, StartUp
  <1>a. PICK arrives \in BOOLEAN :
           /\ used' = used + (IF arrives THEN 1 ELSE 0)
           /\ sent' = sent + (IF arrives /\ admitted[c] THEN 1 ELSE 0)
    BY DEF SearchSent
  <1>b. LeaveCall(c) /\ UNCHANGED <<daily, maxDaily, sync, quota, ebayIn, forgot, stored, booted>>
    BY DEF SearchSent
  <1>1. LimiterTypes'
    <2>1. used' \in Nat /\ sent' \in Nat
      BY <1>0, <1>a DEF LimiterTypes
    <2>2. QED BY <1>0, <1>b, <2>1 DEF LimiterTypes
  <1>2. StartUp'
    BY <1>0, <1>b DEF QuotaInv, StartUp, LimiterTypes
  <1>3. /\ call'[c] = "idle" /\ ~admitted'[c]
        /\ \A d \in Callers : d # c => call'[d] = call[d] /\ admitted'[d] = admitted[d]
    BY <1>0, <1>b DEF LimiterTypes
  <1>4. Admitted' = Admitted \ {c} /\ InSend' = InSend \ {c} /\ Carried' = Carried \ {c}
    BY <1>3 DEF Admitted, InSend, Carried
  <1>5. /\ Cardinality(Admitted') = Cardinality(Admitted) - (IF admitted[c] THEN 1 ELSE 0)
        /\ Cardinality(InSend') = Cardinality(InSend) - (IF admitted[c] THEN 1 ELSE 0)
        /\ Cardinality(Carried') = Cardinality(Carried) - (IF admitted[c] THEN 0 ELSE 1)
    <2>1. /\ c \in Admitted <=> admitted[c]
          /\ c \in InSend <=> admitted[c]
          /\ c \in Carried <=> ~admitted[c]
      BY <1>0 DEF Admitted, InSend, Carried
    <2>2. /\ Cardinality(Admitted \ {c}) =
                IF c \in Admitted THEN Cardinality(Admitted) - 1 ELSE Cardinality(Admitted)
          /\ Cardinality(InSend \ {c}) =
                IF c \in InSend THEN Cardinality(InSend) - 1 ELSE Cardinality(InSend)
          /\ Cardinality(Carried \ {c}) =
                IF c \in Carried THEN Cardinality(Carried) - 1 ELSE Cardinality(Carried)
      <3>1. IsFiniteSet(Admitted) /\ IsFiniteSet(InSend) /\ IsFiniteSet(Carried)
        BY Counts
      <3>2. QED BY <3>1, FS_RemoveElement, Zenon
    <2>3. QED BY <1>4, <2>1, <2>2, Counts
  <1>6. Pending' = sent' + Cardinality(Admitted')
    BY DEF Pending, Admitted
  <1>7. CarriedOverOnce'
    BY <1>0, <1>a, <1>5, Counts DEF QuotaInv, CarriedOverOnce, LimiterTypes
  <1>8. CounterKnows'
    BY <1>0, <1>a, <1>b, <1>5, Counts DEF QuotaInv, CounterKnows, LimiterTypes
  <1>9. AdmissionBounded'
    BY <1>0, <1>a, <1>b, <1>5, <1>6, Counts, LimitBound DEF QuotaInv, AdmissionBounded, LimiterTypes
  <1>10. QED BY <1>1, <1>2, <1>7, <1>8, <1>9 DEF QuotaInv

LEMMA SyncCountKeeps ==
    ASSUME QuotaInv, SyncCount
    PROVE  QuotaInv'
  <1> USE DEF SyncCount, ebay, server
  <1>1. LimiterTypes'
    BY DEF QuotaInv, LimiterTypes
  <1>2. StartUp' /\ sync # "prewarm"
    BY DEF QuotaInv, StartUp
  <1>3. UNCHANGED <<Admitted, InSend, Carried, Pending, used, sent>>
    BY SameCallers
  <1>4. CarriedOverOnce' /\ AdmissionBounded'
    BY <1>3 DEF QuotaInv, CarriedOverOnce, AdmissionBounded, LimiterTypes
  <1>5. CounterKnows'
    <2> SUFFICES ASSUME ~forgot' PROVE sent' + Cardinality(InSend') <= daily'
      BY DEF CounterKnows
    <2>1. ~(Pending > (IF quota.reset >= ebayIn THEN daily' ELSE 0))
      BY DEF Forgets
    <2>2. daily' \in Nat /\ sent \in Nat
      BY <1>1 DEF LimiterTypes, QuotaInv
    <2>3. QED BY <1>3, <2>1, <2>2, Counts
  <1>6. QED BY <1>1, <1>2, <1>4, <1>5 DEF QuotaInv

\* The other steps of SyncQuota change neither the counter nor the callers.
LEMMA SyncQuotaKeeps ==
    ASSUME QuotaInv, BeginSync \/ GetBrowseQuota \/ SyncFails \/ SyncLimit \/ PersistRateLimiterState
    PROVE  QuotaInv'
  <1> USE DEF BeginSync, GetBrowseQuota, SyncFails, SyncLimit, PersistRateLimiterState, EndSync, NoQuota,
              limiter, history, ebay, server
  <1>0. UNCHANGED <<daily, call, admitted, sent, forgot, used>>
    OBVIOUS
  <1>1. LimiterTypes'
    <2>1. maxDaily' \in {DailyLimit, EbayLimit} /\ booted' \in BOOLEAN
      BY DEF QuotaInv, LimiterTypes
    <2>2. quota' \in [count : Nat, reset : Nat] /\ stored' \in [row : BOOLEAN, count : Nat, reset : Nat]
      <3>1. /\ used \in Nat /\ ebayIn \in Nat /\ quota \in [count : Nat, reset : Nat]
            /\ stored \in [row : BOOLEAN, count : Nat, reset : Nat]
        BY DEF QuotaInv, LimiterTypes
      <3>2. /\ quota' \in {quota, NoQuota, [count |-> used, reset |-> ebayIn]}
            /\ stored' \in {stored, [row |-> TRUE, count |-> quota.count, reset |-> quota.reset]}
        OBVIOUS
      <3>3. /\ NoQuota \in [count : Nat, reset : Nat]
            /\ [count |-> used, reset |-> ebayIn] \in [count : Nat, reset : Nat]
            /\ [row |-> TRUE, count |-> quota.count, reset |-> quota.reset]
                  \in [row : BOOLEAN, count : Nat, reset : Nat]
        BY <3>1
      <3>4. QED BY <3>1, <3>2, <3>3, Zenon
    <2>3. ebayIn' = ebayIn
      OBVIOUS
    <2>4. QED BY <1>0, <2>1, <2>2, <2>3 DEF QuotaInv, LimiterTypes
  <1>2. StartUp' /\ sync # "prewarm"
    BY DEF QuotaInv, StartUp
  <1>3. UNCHANGED <<Admitted, InSend, Carried, Pending>>
    BY <1>0, SameCallers
  <1>4. QED BY <1>0, <1>1, <1>2, <1>3 DEF QuotaInv, CarriedOverOnce, CounterKnows, AdmissionBounded

LEMMA TickKeepsQuota ==
    ASSUME QuotaInv, Tick
    PROVE  QuotaInv'
  <1> USE DEF Tick
  <1>1. LimiterTypes'
    <2>1. quota' \in [count : Nat, reset : Nat] /\ stored' \in [row : BOOLEAN, count : Nat, reset : Nat]
      BY DEF Down, QuotaInv, LimiterTypes
    <2>2. /\ ebayIn' \in Nat \ {0} /\ used' \in Nat /\ sent' \in Nat
          /\ admitted' \in [Callers -> BOOLEAN]
      <3>1. CASE ebayIn = 1
        <4>1. Day \in Nat \ {0}
          BY LimiterConstants
        <4>2. admitted' = [c \in Callers |-> FALSE] /\ ebayIn' = Day /\ used' = 0 /\ sent' = 0
          BY <3>1
        <4>3. QED BY <4>1, <4>2
      <3>2. CASE ebayIn # 1
        BY <3>2 DEF QuotaInv, LimiterTypes
      <3>3. QED BY <3>1, <3>2
    <2>3. forgot' \in BOOLEAN
      BY DEF QuotaInv, LimiterTypes
    <2>4. QED BY <2>1, <2>2, <2>3 DEF QuotaInv, LimiterTypes
  <1>2. StartUp'
    BY DEF QuotaInv, StartUp
  <1>3. CASE ebayIn = 1
    <2>1. used' = 0 /\ sent' = 0 /\ \A c \in Callers : ~admitted'[c]
      BY <1>3
    <2>2. Admitted' = {} /\ InSend' = {} /\ Carried' \subseteq Callers
      BY <2>1 DEF Admitted, InSend, Carried
    <2>3. /\ Cardinality(Admitted') = 0 /\ Cardinality(InSend') = 0
          /\ Cardinality(Carried') \in Nat /\ Cardinality(Carried') <= Cardinality(Callers)
      BY <2>2, FS_EmptySet, LimiterConstants, FS_Subset, FS_CardinalityType
    <2>4. Pending' = sent' + Cardinality(Admitted')
      BY DEF Pending, Admitted
    <2>5. daily' \in Nat
      BY <1>1 DEF LimiterTypes
    <2>6. CarriedOverOnce' /\ CounterKnows' /\ AdmissionBounded'
      BY <2>1, <2>3, <2>4, <2>5, Counts, LimitBound DEF CarriedOverOnce, CounterKnows, AdmissionBounded
    <2>7. QED BY <1>1, <1>2, <2>6 DEF QuotaInv
  <1>4. CASE ebayIn # 1
    <2>1. UNCHANGED <<Admitted, InSend, Carried, Pending, used, sent, forgot>>
      BY <1>4, SameCallers
    <2>2. QED BY <1>1, <1>2, <1>4, <2>1 DEF QuotaInv, CarriedOverOnce, CounterKnows, AdmissionBounded
  <1>5. QED BY <1>3, <1>4

LEMMA QuotaStep == QuotaInv /\ [NextLimiter]_limiterVars => QuotaInv'
  <1> SUFFICES ASSUME QuotaInv, [NextLimiter]_limiterVars PROVE QuotaInv'
    OBVIOUS
  <1>1. ASSUME NEW c \in Callers, Wait(c) \/ SearchSent(c) PROVE QuotaInv'
    BY <1>1, CheckDailyResetKeeps, CheckDailyKeeps, WaitBucketKeeps, SearchSentKeeps DEF Wait
  <1>2. CASE Prewarm
    BY <1>2, PrewarmKeeps
  <1>3. CASE BeginSync \/ SyncQuota
    BY <1>3, SyncCountKeeps, SyncQuotaKeeps DEF SyncQuota
  <1>4. CASE Tick
    BY <1>4, TickKeepsQuota
  <1>5. CASE UNCHANGED limiterVars
    <2>1. UNCHANGED <<Admitted, InSend, Carried, Pending>>
      BY <1>5, SameCallers DEF limiterVars, history
    <2>2. QED BY <1>5, <2>1
      DEF limiterVars, limiter, ebay, history, server, QuotaInv, LimiterTypes, StartUp,
          CarriedOverOnce, CounterKnows, AdmissionBounded
  <1>6. QED BY <1>1, <1>2, <1>3, <1>4, <1>5 DEF NextLimiter

\* The inductive invariant of the rate limiter.
THEOREM QuotaInvariant == SpecLimiter => []QuotaInv
  BY InitQuotaInv, QuotaStep, PTL DEF SpecLimiter

\* As long as the counter forgets nothing, the searches of a day of eBay stay
\* below the limit plus two for every concurrent caller of Search: one that
\* passed the check before its increment, and one carried over midnight.
THEOREM QuotaIsKept == SpecLimiter => []QuotaKept
  <1>1. QuotaInv => QuotaKept
    <2> SUFFICES ASSUME QuotaInv, ~forgot PROVE used < Limit + 2 * Cardinality(Callers)
      BY DEF QuotaKept
    <2>1. sent + Cardinality(Admitted) < Limit + Cardinality(Callers)
      BY Counts DEF QuotaInv, AdmissionBounded
    <2>2. used + Cardinality(Carried) <= sent + Cardinality(Callers)
      BY DEF QuotaInv, CarriedOverOnce
    <2>3. QED BY <2>1, <2>2, Counts, LimitBound DEF QuotaInv, LimiterTypes
  <1>2. QED BY <1>1, QuotaInvariant, PTL

-----------------------------------------------------------------------------
(* The ingestion cycles.                                                   *)

CycleStages == {"idle", "watch", "search", "check", "upsert"}

\* What the argument needs of the types.
CycleTypes ==
    /\ pc \in [Cycles -> CycleStages]
    /\ page \in [Cycles -> Nat]
    /\ total \in [Cycles -> Nat]
    /\ calls \in [Cycles -> Nat]
    /\ failed \in [Cycles -> Nat]

\* Calls that failed paginations hide from the budget.
Uncounted(c) == MaxPages * failed[c]

\* Where the searches of cycle c went.
Counted(c) ==
    /\ calls[c] <= total[c] + page[c] + Uncounted(c)
    /\ pc[c] \in {"idle", "watch"} => page[c] = 0 /\ total[c] < MaxCallsPerCycle + MaxPages
    /\ pc[c] = "search" => page[c] < MaxPages
    /\ pc[c] \in {"search", "check", "upsert"} => total[c] < MaxCallsPerCycle /\ page[c] <= MaxPages

CycleInv == CycleTypes /\ \A c \in Cycles : Counted(c)

-----------------------------------------------------------------------------
LEMMA Limits == MaxPages \in Nat /\ MaxPages > 0 /\ MaxCallsPerCycle \in Nat /\ MaxCallsPerCycle > 0
  BY IngestionConstants DEF IngestionConstants

\* A failed watch hides MaxPages calls more.
LEMMA UncountedSteps ==
    ASSUME CycleTypes, NEW c \in Cycles
    PROVE  /\ Uncounted(c) \in Nat
           /\ failed'[c] = failed[c] => Uncounted(c)' = Uncounted(c)
           /\ failed'[c] = failed[c] + 1 => Uncounted(c)' = Uncounted(c) + MaxPages
           /\ failed'[c] = 0 => Uncounted(c)' = 0
  <1>1. failed[c] \in Nat /\ MaxPages \in Nat
    BY Limits DEF CycleTypes
  <1>2. MaxPages * failed[c] \in Nat /\ MaxPages * (failed[c] + 1) = MaxPages * failed[c] + MaxPages
        /\ MaxPages * 0 = 0
    BY <1>1
  <1>3. QED BY <1>2 DEF Uncounted

\* What the counters of one cycle are.
LEMMA CycleOf ==
    ASSUME CycleInv, NEW c \in Cycles
    PROVE  /\ CycleTypes /\ Counted(c) /\ Uncounted(c) \in Nat
           /\ page[c] \in Nat /\ total[c] \in Nat /\ calls[c] \in Nat /\ failed[c] \in Nat
  BY UncountedSteps DEF CycleInv, CycleTypes

\* A step of cycle c leaves the others alone.
LEMMA CycleFrame ==
    ASSUME CycleInv, NEW c \in Cycles,
           NEW stage \in CycleStages, NEW pg \in Nat, NEW tt \in Nat, NEW cl \in Nat, NEW fl \in Nat,
           pc' = [pc EXCEPT ![c] = stage], page' = [page EXCEPT ![c] = pg], total' = [total EXCEPT ![c] = tt],
           calls' = [calls EXCEPT ![c] = cl], failed' = [failed EXCEPT ![c] = fl],
           pc'[c] = stage /\ page'[c] = pg /\ total'[c] = tt /\ calls'[c] = cl /\ failed'[c] = fl => Counted(c)'
    PROVE  CycleInv'
  <1>1. CycleTypes
    BY DEF CycleInv
  <1>2. CycleTypes'
    BY <1>1 DEF CycleTypes
  <1>3. pc'[c] = stage /\ page'[c] = pg /\ total'[c] = tt /\ calls'[c] = cl /\ failed'[c] = fl
    BY <1>1 DEF CycleTypes
  <1>4. ASSUME NEW d \in Cycles, d # c PROVE Counted(d)'
    <2>1. /\ pc'[d] = pc[d] /\ page'[d] = page[d] /\ total'[d] = total[d]
          /\ calls'[d] = calls[d] /\ failed'[d] = failed[d]
      BY <1>1, <1>4 DEF CycleTypes
    <2>2. Uncounted(d)' = Uncounted(d)
      BY <2>1 DEF Uncounted
    <2>3. QED BY <2>1, <2>2 DEF CycleInv, Counted
  <1>5. QED BY <1>2, <1>3, <1>4 DEF CycleInv

LEMMA SameCounters ==
    ASSUME CycleInv, NEW c \in Cycles
    PROVE  /\ [pc EXCEPT ![c] = pc[c]] = pc /\ [page EXCEPT ![c] = page[c]] = page
           /\ [total EXCEPT ![c] = total[c]] = total /\ [calls EXCEPT ![c] = calls[c]] = calls
           /\ [failed EXCEPT ![c] = failed[c]] = failed
  BY DEF CycleInv, CycleTypes

LEMMA InitCycleInv == Init => CycleInv
  <1> SUFFICES ASSUME Init PROVE CycleInv
    OBVIOUS
  <1>1. CycleTypes
    BY DEF Init, CycleTypes, CycleStages
  <1>2. ASSUME NEW c \in Cycles PROVE Counted(c)
    <2>1. pc[c] = "idle" /\ page[c] = 0 /\ total[c] = 0 /\ calls[c] = 0 /\ failed[c] = 0
      BY DEF Init
    <2>2. Uncounted(c) = 0
      BY <2>1, Limits DEF Uncounted
    <2>3. QED BY <2>1, <2>2, Limits DEF Counted
  <1>3. QED BY <1>1, <1>2 DEF CycleInv

\* Leave: the locals of the cycle go with it.
LEMMA LeaveKeeps ==
    ASSUME CycleInv, NEW c \in Cycles, Leave(c)
    PROVE  CycleInv'
  <1>1. /\ pc' = [pc EXCEPT ![c] = "idle"] /\ page' = [page EXCEPT ![c] = 0] /\ total' = [total EXCEPT ![c] = 0]
        /\ calls' = [calls EXCEPT ![c] = 0] /\ failed' = [failed EXCEPT ![c] = 0]
        /\ "idle" \in CycleStages
    BY DEF Leave, Goto, CycleStages
  <1>2. ASSUME pc'[c] = "idle", page'[c] = 0, total'[c] = 0, calls'[c] = 0, failed'[c] = 0
        PROVE  Counted(c)'
    <2>1. Uncounted(c)' = 0
      BY <1>2, CycleOf, UncountedSteps
    <2>2. QED BY <1>2, <2>1, Limits DEF Counted
  <1>3. QED BY <1>1, <1>2, CycleFrame

LEMMA BeginKeeps ==
    ASSUME CycleInv, NEW c \in Cycles, Begin(c)
    PROVE  CycleInv'
  <1>1. /\ pc[c] = "idle" /\ pc' = [pc EXCEPT ![c] = "watch"] /\ UNCHANGED <<page, total, calls, failed>>
        /\ "watch" \in CycleStages
    BY DEF Begin, Goto, CycleStages
  <1>2. CycleTypes /\ Counted(c) /\ page[c] \in Nat /\ total[c] \in Nat /\ calls[c] \in Nat /\ failed[c] \in Nat
    BY CycleOf
  <1>3. /\ pc' = [pc EXCEPT ![c] = "watch"] /\ "watch" \in CycleStages
        /\ page' = [page EXCEPT ![c] = page[c]] /\ total' = [total EXCEPT ![c] = total[c]]
        /\ calls' = [calls EXCEPT ![c] = calls[c]] /\ failed' = [failed EXCEPT ![c] = failed[c]]
        /\ page[c] \in Nat /\ total[c] \in Nat /\ calls[c] \in Nat /\ failed[c] \in Nat
    BY <1>1, <1>2, SameCounters
  <1>4. ASSUME pc'[c] = "watch", page'[c] = page[c], total'[c] = total[c], calls'[c] = calls[c], failed'[c] = failed[c]
        PROVE  Counted(c)'
    <2>1. Uncounted(c)' = Uncounted(c)
      BY <1>4 DEF Uncounted
    <2>2. QED BY <1>1, <1>2, <1>4, <2>1 DEF Counted
  <1>5. QED BY <1>3, <1>4, CycleFrame

LEMMA NextWatchKeeps ==
    ASSUME CycleInv, NEW c \in Cycles, NextWatch(c)
    PROVE  CycleInv'
  <1>1. CASE MayPoll(c)
    <2>1. /\ pc[c] = "watch" /\ total[c] < MaxCallsPerCycle
          /\ pc' = [pc EXCEPT ![c] = "search"] /\ page' = [page EXCEPT ![c] = 0]
          /\ UNCHANGED <<total, calls, failed>> /\ "search" \in CycleStages
      BY <1>1 DEF NextWatch, MayPoll, Goto, CycleStages
    <2>2. CycleTypes /\ Counted(c) /\ total[c] \in Nat /\ calls[c] \in Nat /\ failed[c] \in Nat
      BY CycleOf
    <2>3. /\ pc' = [pc EXCEPT ![c] = "search"] /\ "search" \in CycleStages /\ page' = [page EXCEPT ![c] = 0]
          /\ total' = [total EXCEPT ![c] = total[c]]
          /\ calls' = [calls EXCEPT ![c] = calls[c]] /\ failed' = [failed EXCEPT ![c] = failed[c]]
          /\ total[c] \in Nat /\ calls[c] \in Nat /\ failed[c] \in Nat /\ 0 \in Nat
      BY <2>1, <2>2, SameCounters
    <2>4. ASSUME pc'[c] = "search", page'[c] = 0, total'[c] = total[c], calls'[c] = calls[c], failed'[c] = failed[c]
          PROVE  Counted(c)'
      <3>1. Uncounted(c)' = Uncounted(c)
        BY <2>4 DEF Uncounted
      <3>2. page[c] = 0
        BY <2>1, <2>2 DEF Counted
      <3>3. QED BY <2>1, <2>2, <2>4, <3>1, <3>2, Limits DEF Counted
    <2>5. QED BY <2>3, <2>4, CycleFrame
  <1>2. CASE ~MayPoll(c)
    BY <1>2, LeaveKeeps DEF NextWatch
  <1>3. QED BY <1>1, <1>2

LEMMA SearchKeeps ==
    ASSUME CycleInv, NEW c \in Cycles, Search(c)
    PROVE  CycleInv'
  <1>1. pc[c] = "search"
    BY DEF Search
  <1>2. /\ CycleTypes /\ Counted(c) /\ Uncounted(c) \in Nat
        /\ page[c] \in Nat /\ total[c] \in Nat /\ calls[c] \in Nat /\ failed[c] \in Nat
    BY CycleOf
  <1>3. /\ calls[c] <= total[c] + page[c] + Uncounted(c) /\ page[c] < MaxPages /\ total[c] < MaxCallsPerCycle
    BY <1>1, <1>2 DEF Counted
  <1>4. CASE /\ page' = [page EXCEPT ![c] = @ + 1] /\ calls' = [calls EXCEPT ![c] = @ + 1]
             /\ Goto(c, "check") /\ UNCHANGED <<total, failed>>
    <2>1. /\ pc' = [pc EXCEPT ![c] = "check"] /\ "check" \in CycleStages
          /\ page' = [page EXCEPT ![c] = page[c] + 1] /\ calls' = [calls EXCEPT ![c] = calls[c] + 1]
          /\ total' = [total EXCEPT ![c] = total[c]] /\ failed' = [failed EXCEPT ![c] = failed[c]]
          /\ page[c] + 1 \in Nat /\ calls[c] + 1 \in Nat /\ total[c] \in Nat /\ failed[c] \in Nat
      BY <1>2, <1>4, SameCounters DEF Goto, CycleStages
    <2>2. ASSUME pc'[c] = "check", page'[c] = page[c] + 1, total'[c] = total[c], calls'[c] = calls[c] + 1,
                 failed'[c] = failed[c]
          PROVE  Counted(c)'
      <3>1. Uncounted(c)' = Uncounted(c)
        BY <2>2 DEF Uncounted
      <3>2. calls[c] + 1 <= total[c] + (page[c] + 1) + Uncounted(c) /\ page[c] + 1 <= MaxPages
        BY <1>2, <1>3, Limits
      <3>3. QED BY <1>3, <2>2, <3>1, <3>2 DEF Counted
    <2>3. QED BY <2>1, <2>2, CycleFrame
  <1>5. CASE /\ \E n \in {0, 1} : calls' = [calls EXCEPT ![c] = @ + n]
             /\ failed' = [failed EXCEPT ![c] = @ + 1] /\ page' = [page EXCEPT ![c] = 0]
             /\ Goto(c, "upsert") /\ UNCHANGED total
    <2>1. PICK n \in {0, 1} : calls' = [calls EXCEPT ![c] = calls[c] + n]
      BY <1>5
    <2>a. calls[c] + n \in Nat /\ failed[c] + 1 \in Nat
      BY <1>2
    <2>b. total' = [total EXCEPT ![c] = total[c]]
      BY <1>5, SameCounters
    <2>2. /\ pc' = [pc EXCEPT ![c] = "upsert"] /\ "upsert" \in CycleStages
          /\ page' = [page EXCEPT ![c] = 0] /\ calls' = [calls EXCEPT ![c] = calls[c] + n]
          /\ total' = [total EXCEPT ![c] = total[c]] /\ failed' = [failed EXCEPT ![c] = failed[c] + 1]
          /\ 0 \in Nat /\ calls[c] + n \in Nat /\ total[c] \in Nat /\ failed[c] + 1 \in Nat
      BY <1>2, <1>5, <2>1, <2>a, <2>b DEF Goto, CycleStages
    <2>3. ASSUME pc'[c] = "upsert", page'[c] = 0, total'[c] = total[c], calls'[c] = calls[c] + n,
                 failed'[c] = failed[c] + 1
          PROVE  Counted(c)'
      <3>1. Uncounted(c)' = Uncounted(c) + MaxPages
        BY <1>2, <2>3, UncountedSteps
      <3>2. calls[c] + n <= total[c] + 0 + (Uncounted(c) + MaxPages)
        BY <1>2, <1>3, Limits
      <3>3. QED BY <1>3, <2>3, <3>1, <3>2, Limits DEF Counted
    <2>4. QED BY <2>2, <2>3, CycleFrame
  <1>6. CASE Leave(c)
    BY <1>6, LeaveKeeps
  <1>7. QED BY <1>4, <1>5, <1>6 DEF Search

LEMMA CheckPageKeeps ==
    ASSUME CycleInv, NEW c \in Cycles, CheckPage(c)
    PROVE  CycleInv'
  <1>1. /\ pc[c] = "check" /\ UNCHANGED <<page, total, calls, failed>>
        /\ \E K : PageChecked(c, K)
    BY DEF CheckPage
  <1>2. /\ CycleTypes /\ Counted(c)
        /\ page[c] \in Nat /\ total[c] \in Nat /\ calls[c] \in Nat /\ failed[c] \in Nat
    BY CycleOf
  <1>3. PICK stage \in {"search", "upsert"} : /\ pc' = [pc EXCEPT ![c] = stage]
                                              /\ stage = "search" => page[c] # MaxPages
    BY <1>1 DEF PageChecked, StopsHere, Goto
  <1>4. /\ page' = [page EXCEPT ![c] = page[c]] /\ total' = [total EXCEPT ![c] = total[c]]
        /\ calls' = [calls EXCEPT ![c] = calls[c]] /\ failed' = [failed EXCEPT ![c] = failed[c]]
        /\ page[c] \in Nat /\ total[c] \in Nat /\ calls[c] \in Nat /\ failed[c] \in Nat
        /\ stage \in CycleStages
    BY <1>1, <1>2, SameCounters DEF CycleStages
  <1>5. ASSUME pc'[c] = stage, page'[c] = page[c], total'[c] = total[c], calls'[c] = calls[c], failed'[c] = failed[c]
        PROVE  Counted(c)'
    <2>1. Uncounted(c)' = Uncounted(c)
      BY <1>5 DEF Uncounted
    <2>2. /\ calls[c] <= total[c] + page[c] + Uncounted(c) /\ page[c] <= MaxPages /\ total[c] < MaxCallsPerCycle
      BY <1>1, <1>2 DEF Counted
    <2>3. stage = "search" => page[c] < MaxPages
      BY <1>2, <1>3, <2>2, Limits
    <2>4. QED BY <1>5, <2>1, <2>2, <2>3 DEF Counted
  <1>6. QED BY <1>3, <1>4, <1>5, CycleFrame

LEMMA LastPolledKeeps ==
    ASSUME CycleInv, NEW c \in Cycles, UpdateWatchLastPolled(c)
    PROVE  CycleInv'
  <1>1. /\ pc[c] = "upsert" /\ pc' = [pc EXCEPT ![c] = "watch"] /\ "watch" \in CycleStages
        /\ page' = [page EXCEPT ![c] = 0] /\ total' = [total EXCEPT ![c] = total[c] + page[c]]
        /\ UNCHANGED <<calls, failed>>
    BY DEF UpdateWatchLastPolled, Goto, CycleStages
  <1>2. /\ CycleTypes /\ Counted(c) /\ Uncounted(c) \in Nat
        /\ page[c] \in Nat /\ total[c] \in Nat /\ calls[c] \in Nat /\ failed[c] \in Nat
    BY CycleOf
  <1>3. /\ pc' = [pc EXCEPT ![c] = "watch"] /\ "watch" \in CycleStages
        /\ page' = [page EXCEPT ![c] = 0] /\ total' = [total EXCEPT ![c] = total[c] + page[c]]
        /\ calls' = [calls EXCEPT ![c] = calls[c]] /\ failed' = [failed EXCEPT ![c] = failed[c]]
        /\ total[c] + page[c] \in Nat /\ calls[c] \in Nat /\ failed[c] \in Nat /\ 0 \in Nat
    BY <1>1, <1>2, SameCounters
  <1>4. ASSUME pc'[c] = "watch", page'[c] = 0, total'[c] = total[c] + page[c], calls'[c] = calls[c],
               failed'[c] = failed[c]
        PROVE  Counted(c)'
    <2>1. Uncounted(c)' = Uncounted(c)
      BY <1>4 DEF Uncounted
    <2>2. /\ calls[c] <= total[c] + page[c] + Uncounted(c) /\ page[c] <= MaxPages /\ total[c] < MaxCallsPerCycle
      BY <1>1, <1>2 DEF Counted
    <2>3. calls[c] <= (total[c] + page[c]) + 0 + Uncounted(c) /\ total[c] + page[c] < MaxCallsPerCycle + MaxPages
      BY <1>2, <2>2, Limits
    <2>4. QED BY <1>4, <2>1, <2>3 DEF Counted
  <1>5. QED BY <1>3, <1>4, CycleFrame

LEMMA CycleStepKeeps == CycleInv /\ [Next]_vars => CycleInv'
  <1> SUFFICES ASSUME CycleInv, [Next]_vars PROVE CycleInv'
    OBVIOUS
  <1>1. CASE UNCHANGED <<pc, page, total, calls, failed>>
    BY <1>1 DEF CycleInv, CycleTypes, Counted, Uncounted
  <1>2. ASSUME NEW c \in Cycles, CycleStep(c) PROVE CycleInv'
    <2>1. CASE UpsertListing(c)
      BY <1>1, <2>1 DEF UpsertListing
    <2>2. QED BY <1>2, <2>1, BeginKeeps, NextWatchKeeps, SearchKeeps, CheckPageKeeps, LastPolledKeeps DEF CycleStep
  <1>3. ASSUME NEW c \in Cycles, Crash(c) PROVE CycleInv'
    BY <1>3, LeaveKeeps DEF Crash
  <1>4. ASSUME NEW l \in Listings, Listed(l) \/ Sold(l) PROVE CycleInv'
    BY <1>1, <1>4 DEF Listed, Sold, cycleVars
  <1>5. CASE UNCHANGED vars
    BY <1>1, <1>5 DEF vars, cycleVars
  <1>6. QED BY <1>2, <1>3, <1>4, <1>5 DEF Next

-----------------------------------------------------------------------------
\* The searches of every cycle are accounted for: counted, of the watch in hand,
\* or lost with a watch whose pagination failed.
THEOREM CycleInvariant == Spec => []CycleInv
  BY InitCycleInv, CycleStepKeeps, PTL DEF Spec

\* A cycle sends fewer searches than its budget plus the pages of one watch, and
\* of one more for each pagination that failed: RunIngestion tests totalPages
\* between watches only, and processWatch reports 0 pages after an error.
THEOREM CyclesStayInBudget == Spec => []CallsBounded
  <1>1. CycleInv => CallsBounded
    <2> SUFFICES ASSUME CycleInv, NEW c \in Cycles
                 PROVE  calls[c] < MaxCallsPerCycle + MaxPages * (1 + failed[c])
      BY DEF CallsBounded
    <2>1. /\ CycleTypes /\ Counted(c) /\ Uncounted(c) \in Nat
          /\ page[c] \in Nat /\ total[c] \in Nat /\ calls[c] \in Nat /\ failed[c] \in Nat
      BY CycleOf
    <2>2. MaxPages * (1 + failed[c]) = MaxPages + Uncounted(c)
      BY <2>1, Limits DEF Uncounted
    <2>3. pc[c] \in CycleStages
      BY <2>1 DEF CycleTypes
    <2>4. calls[c] < MaxCallsPerCycle + (MaxPages + Uncounted(c))
      BY <2>1, <2>3, Limits DEF Counted, CycleStages
    <2>5. QED BY <2>2, <2>4
  <1>2. QED BY <1>1, CycleInvariant, PTL
-----------------------------------------------------------------------------
(* What pagination leaves out. NoGap speaks of cycles with nothing in hand.  *)
(* Before that, what is older than something read or known is read, known,   *)
(* about to be upserted, or on a page to come (Later). All of it is in terms *)
(* of sets of listings: a result comes after as many others as are newer.    *)

\* What eBay has of a watch, and what comes before a result.
Hits(w) == ToSet(market) \cap Finds[w]
Newer(w, m) == {x \in Hits(w) : x > m}

\* Each result older than one of S is in T.
Covered(w, S, T) == \A l \in S, m \in Hits(w) : m < l => m \in T

\* Known listings, and those that a cycle has found and will upsert.
Upserting == {c \in Cycles : pc[c] = "upsert"}
Safe == known \cup UNION {ToSet(fresh[c]) : c \in Upserting}

\* What cycle c has read for its watch, and what it has not.
Read(c) == ToSet(fresh[c]) \cup ToSet(items[c])
Later(c) ==
    {m \in Hits(Current(c)) :
        /\ Cardinality(Newer(Current(c), m)) >= page[c] * PageSize
        /\ \A x \in ToSet(items[c]) : m < x}

Descending(s) == \A i, k \in DOMAIN s : i < k => s[k] < s[i]

MarketOK ==
    /\ \E n \in Nat : seen = 1..n
    /\ market \in Seq(seen) /\ Descending(market)
    /\ known \subseteq seen

WalkTypes ==
    /\ pc \in [Cycles -> CycleStages]
    /\ page \in [Cycles -> Nat]
    /\ todo \in [Cycles -> Seq(Watches)]
    /\ items \in [Cycles -> Seq(seen)]
    /\ fresh \in [Cycles -> Seq(seen)]
    /\ more \in [Cycles -> BOOLEAN]
    /\ lossy \in BOOLEAN

\* Where cycle c is in the results.
WalkOK(c) ==
    /\ pc[c] # "check" => items[c] = <<>>
    /\ pc[c] \in {"search", "check", "upsert"} =>
          todo[c] # <<>> /\ Read(c) \subseteq Finds[Current(c)]
    /\ pc[c] = "search" /\ page[c] = 0 => fresh[c] = <<>>
    /\ pc[c] = "check" => page[c] > 0 /\ Descending(items[c]) /\ (items[c] = <<>> => ~more[c])

\* What cycle c has read leaves no gap.
ReadCovered(c) ==
    /\ pc[c] \in {"search", "check"} => Covered(Current(c), Read(c), Read(c) \cup Safe \cup Later(c))
    /\ pc[c] = "check" /\ ~more[c] => Covered(Current(c), Read(c), Read(c) \cup Safe)
    /\ pc[c] = "upsert" => Covered(Current(c), Read(c), Safe)

\* A listing that another watch brought in may end the walk too early.
CoverOK(c) == Current(c) \notin crossed => ReadCovered(c)

KnownCovered == \A w \in Watches \ crossed : Covered(w, known \cap Finds[w], Safe)

GapInv ==
    /\ MarketOK /\ WalkTypes
    /\ \A c \in Cycles : WalkOK(c)
    /\ ~lossy => KnownCovered /\ \A c \in Cycles : CoverOK(c)

\* Positions in a finite set of numbers.
LEMMA RankOnto ==
    ASSUME NEW S, S \subseteq Int, IsFiniteSet(S)
    PROVE  /\ \A i \in S : Cardinality({k \in S : k <= i}) \in 1..Cardinality(S)
           /\ \A i, j \in S : i < j => Cardinality({k \in S : k <= i}) < Cardinality({k \in S : k <= j})
           /\ \A n \in 1..Cardinality(S) : \E i \in S : Cardinality({k \in S : k <= i}) = n
  <1> DEFINE upTo(i) == {k \in S : k <= i}
             f == [i \in S |-> Cardinality(upTo(i))]
             N == Cardinality(S)
  <1>1. N \in Nat
    BY FS_CardinalityType
  <1>2. ASSUME NEW i \in S
        PROVE  /\ upTo(i) \subseteq S /\ IsFiniteSet(upTo(i)) /\ Cardinality(upTo(i)) \in Nat
               /\ Cardinality(upTo(i)) \in 1..N
    <2>1. upTo(i) \subseteq S /\ i \in upTo(i)
      OBVIOUS
    <2> HIDE DEF upTo
    <2>2. IsFiniteSet(upTo(i)) /\ Cardinality(upTo(i)) \in Nat /\ Cardinality(upTo(i)) <= N
      BY <2>1, FS_Subset, FS_CardinalityType
    <2>3. Cardinality(upTo(i)) # 0
      BY <2>1, <2>2, FS_EmptySet
    <2>4. QED BY <1>1, <2>1, <2>2, <2>3
  <1>3. ASSUME NEW i \in S, NEW j \in S, i < j PROVE Cardinality(upTo(i)) < Cardinality(upTo(j))
    <2>1. upTo(i) \subseteq upTo(j) /\ j \in upTo(j) /\ j \notin upTo(i)
      <3>1. i \in Int /\ j \in Int /\ \A k \in S : k \in Int
        OBVIOUS
      <3>2. \A k \in S : k <= i => k <= j
        BY <1>3, <3>1
      <3>3. j <= j /\ ~(j <= i)
        BY <1>3, <3>1
      <3>4. QED BY <3>2, <3>3
    <2>2. IsFiniteSet(upTo(j)) /\ Cardinality(upTo(i)) \in Nat /\ Cardinality(upTo(j)) \in Nat
      BY <1>2
    <2> HIDE DEF upTo
    <2>3. QED BY <2>1, <2>2, FS_Subset
  <1>4. f \in Injection(S, 1..N)
    <2>1. f \in [S -> 1..N]
      BY <1>2
    <2>2. ASSUME NEW i \in S, NEW j \in S, f[i] = f[j] PROVE i = j
      <3> HIDE DEF upTo
      <3>1. f[i] = Cardinality(upTo(i)) /\ f[j] = Cardinality(upTo(j)) /\ f[i] \in Int
        BY <1>2
      <3>2. ~(i < j) /\ ~(j < i)
        BY <1>2, <1>3, <2>2, <3>1
      <3>3. QED BY <3>2
    <2>3. QED BY <2>1, <2>2 DEF Injection, IsInjective
  <1>5. f \in Surjection(S, 1..N)
    <2>1. IsFiniteSet(1..N) /\ Cardinality(1..N) = N
      BY <1>1, FS_Interval
    <2>2. QED BY <1>4, <2>1, FS_Injection
  <1>6. \A n \in 1..N : \E i \in S : Cardinality(upTo(i)) = n
    BY <1>5 DEF Surjection
  <1>7. QED BY <1>2, <1>3, <1>6

\* The results of a watch are its hits, the newest first.
LEMMA ResultsAre ==
    ASSUME MarketOK, NEW w
    PROVE  LET r == Results(w) IN
           /\ IsFiniteSet(Hits(w)) /\ r \in Seq(Hits(w)) /\ Len(r) = Cardinality(Hits(w)) /\ Len(r) \in Nat
           /\ \A m \in Hits(w) : \E n \in 1..Len(r) : r[n] = m
           /\ \A n \in 1..Len(r) : Cardinality(Newer(w, r[n])) = n - 1
  <1> DEFINE P == {i \in DOMAIN market : market[i] \in Finds[w]}
             upTo(i) == {k \in P : k <= i}
             pos(n) == CHOOSE i \in P : Cardinality(upTo(i)) = n
             r == Results(w)
             N == Cardinality(P)
  <1>1. market \in Seq(Int) /\ DOMAIN market = 1..Len(market) /\ Len(market) \in Nat
    BY DEF MarketOK
  <1>2. \A i, k \in DOMAIN market : i < k => market[k] < market[i]
    BY DEF MarketOK, Descending
  <1>3. P \subseteq Int /\ P \subseteq DOMAIN market /\ IsFiniteSet(P)
    <2>1. IsFiniteSet(DOMAIN market)
      BY <1>1, FS_Interval
    <2>2. P \subseteq DOMAIN market
      OBVIOUS
    <2>3. QED BY <1>1, <2>1, <2>2, FS_Subset
  <1>4. \A m : m \in Hits(w) <=> \E i \in P : market[i] = m
    BY DEF Hits, ToSet
  <1>5. \A i, k \in P : market[k] < market[i] <=> i < k
    BY <1>1, <1>2, <1>3
  <1>6. \A i, k \in P : market[i] = market[k] => i = k
    BY <1>1, <1>2, <1>3
  <1>7. r = [n \in 1..N |-> market[pos(n)]]
    BY DEF Results
  <1>8. /\ \A i \in P : Cardinality(upTo(i)) \in 1..N
        /\ \A i, j \in P : i < j => Cardinality(upTo(i)) < Cardinality(upTo(j))
        /\ \A n \in 1..N : \E i \in P : Cardinality(upTo(i)) = n
    <2> HIDE DEF P
    <2>1. QED BY <1>3, RankOnto
  <1> HIDE DEF P
  <1>9. IsFiniteSet(Hits(w)) /\ Cardinality(Hits(w)) = N /\ N \in Nat
    <2> DEFINE g == [i \in P |-> market[i]]
    <2>1. g \in Bijection(P, Hits(w))
      BY <1>4, <1>6 DEF Bijection, Injection, Surjection, IsInjective
    <2>2. QED BY <1>3, <2>1, FS_Bijection, FS_CardinalityType DEF ExistsBijection
  <1>10. \A n \in 1..N : pos(n) \in P /\ Cardinality(upTo(pos(n))) = n
    <2> HIDE DEF upTo, N
    <2>1. QED BY <1>8
  <1>11. ASSUME NEW i \in P PROVE Cardinality(Newer(w, market[i])) = Cardinality(upTo(i)) - 1
    <2> DEFINE B == {k \in P : k < i}
               g == [k \in B |-> market[k]]
    <2>1. g \in Bijection(B, Newer(w, market[i]))
      <3>1. \A m : m \in Newer(w, market[i]) <=> \E k \in B : market[k] = m
        BY <1>4, <1>5 DEF Newer
      <3>2. \A k, j \in B : market[k] = market[j] => k = j
        BY <1>6
      <3> HIDE DEF B
      <3>3. QED BY <3>1, <3>2 DEF Bijection, Injection, Surjection, IsInjective
    <2>2. B \subseteq P /\ i \notin B
      BY <1>3
    <2>3. IsFiniteSet(B)
      BY <1>3, <2>2, FS_Subset
    <2>4. upTo(i) = B \cup {i}
      <3>1. i \in Int /\ \A k \in P : k \in Int
        BY <1>3
      <3>2. \A k \in P : k <= i <=> k < i \/ k = i
        BY <3>1
      <3>3. QED BY <3>2
    <2>5. Cardinality(upTo(i)) = Cardinality(B) + 1 /\ Cardinality(B) \in Nat
      <3> HIDE DEF B, upTo
      <3>1. QED BY <2>2, <2>3, <2>4, FS_AddElement, FS_CardinalityType
    <2> HIDE DEF B
    <2>6. Cardinality(Newer(w, market[i])) = Cardinality(B)
      BY <2>1, <2>3, FS_Bijection DEF ExistsBijection
    <2>7. QED BY <2>5, <2>6
  <1>12. /\ Len(r) = N /\ r \in Seq(Hits(w))
         /\ \A n \in 1..N : r[n] = market[pos(n)]
    <2>1. \A n \in 1..N : market[pos(n)] \in Hits(w)
      BY <1>4, <1>10
    <2> HIDE DEF pos, N
    <2>2. QED BY <1>7, <1>9, <2>1
  <1>13. ASSUME NEW m \in Hits(w) PROVE \E n \in 1..N : r[n] = m
    <2>1. PICK i \in P : market[i] = m
      BY <1>4
    <2>2. PICK n \in 1..N : Cardinality(upTo(i)) = n
      BY <1>8
    <2>3. pos(n) = i
      <3>1. pos(n) \in P /\ Cardinality(upTo(pos(n))) = n
        BY <1>10
      <3> DEFINE j == pos(n)
      <3> HIDE DEF pos, upTo, j
      <3>2. j \in P /\ Cardinality(upTo(j)) = n
        BY <3>1 DEF j
      <3>3. ~(j < i) /\ ~(i < j)
        BY <1>8, <2>2, <3>2
      <3>4. i \in Int /\ j \in Int
        BY <1>3, <3>2
      <3>5. i = j
        BY <3>3, <3>4
      <3>6. QED BY <3>5 DEF j
    <2>4. QED BY <1>12, <2>1, <2>3
  <1>14. ASSUME NEW n \in 1..N PROVE Cardinality(Newer(w, r[n])) = n - 1
    <2> HIDE DEF upTo, pos, N
    <2>1. QED BY <1>10, <1>11, <1>12
  <1>15. QED BY <1>9, <1>12, <1>13, <1>14

\* The limits of the paginator.
LEMMA PageSizes == PageSize \in Nat /\ PageSize > 0 /\ MaxPages \in Nat /\ MaxPages > 0
  BY IngestionConstants DEF IngestionConstants

\* Who has fewer results in front is newer.
LEMMA NewerOrder ==
    ASSUME MarketOK, NEW w, NEW l \in Hits(w), NEW m \in Hits(w)
    PROVE  /\ l \in Int /\ Cardinality(Newer(w, l)) \in Nat
           /\ m < l => Cardinality(Newer(w, l)) < Cardinality(Newer(w, m))
  <1>1. \A x \in Hits(w) : x \in Int
    BY DEF Hits, ToSet, MarketOK
  <1>2. ASSUME NEW x PROVE Newer(w, x) \subseteq Hits(w) /\ IsFiniteSet(Newer(w, x)) /\ Cardinality(Newer(w, x)) \in Nat
    <2>1. Newer(w, x) \subseteq Hits(w)
      BY DEF Newer
    <2>2. QED BY <2>1, ResultsAre, FS_Subset, FS_CardinalityType
  <1>3. ASSUME m < l PROVE Cardinality(Newer(w, l)) < Cardinality(Newer(w, m))
    <2>1. \A x \in Hits(w) : x > l => x > m
      BY <1>1, <1>3
    <2>2. l > m /\ ~(l > l)
      BY <1>1, <1>3
    <2>3. Newer(w, l) \subseteq Newer(w, m) /\ l \in Newer(w, m) /\ l \notin Newer(w, l)
      BY <2>1, <2>2 DEF Newer
    <2>4. QED BY <1>2, <2>3, FS_Subset
  <1>4. QED BY <1>1, <1>2, <1>3

\* A page has the results with so many others in front of them.
LEMMA PageIs ==
    ASSUME MarketOK, NEW w, NEW n \in Nat
    PROVE  LET p == PageOf(w, n)
               before(m) == Cardinality(Newer(w, m))
           IN  /\ p \in Seq(Hits(w)) /\ Descending(p)
               /\ \A x \in ToSet(p) : x \in Hits(w) /\ n * PageSize <= before(x) /\ before(x) < (n + 1) * PageSize
               /\ \A m \in Hits(w) : n * PageSize <= before(m) /\ before(m) < (n + 1) * PageSize => m \in ToSet(p)
               /\ ~HasMore(w, n) => \A m \in Hits(w) : before(m) < (n + 1) * PageSize
               /\ p = <<>> => ~HasMore(w, n)
               /\ HasMore(w, n) \in BOOLEAN
  <1> DEFINE r == Results(w)
             p == PageOf(w, n)
             before(m) == Cardinality(Newer(w, m))
             from == n * PageSize
             to == (n + 1) * PageSize
             end == IF to < Len(r) THEN to ELSE Len(r)
  <1>1. from \in Nat /\ to \in Nat /\ to = from + PageSize /\ from < to
    BY PageSizes
  <1>2. /\ r \in Seq(Hits(w)) /\ Len(r) = Cardinality(Hits(w)) /\ Len(r) \in Nat
        /\ \A m \in Hits(w) : \E k \in 1..Len(r) : r[k] = m
        /\ \A k \in 1..Len(r) : r[k] \in Hits(w) /\ before(r[k]) = k - 1
    BY ResultsAre
  <1>3. p = SubSeq(r, from + 1, end)
    BY DEF PageOf
  <1>4. HasMore(w, n) <=> Len(r) > to
    BY DEF HasMore
  <1> HIDE DEF r, p, before, from, to
  <1>5. end \in Nat /\ end <= Len(r) /\ end <= to
    BY <1>1, <1>2
  <1>6. /\ p \in Seq(Hits(w)) /\ DOMAIN p = 1..(end - from) /\ Len(p) \in Nat /\ DOMAIN p = 1..Len(p)
        /\ \A i \in 1..(end - from) : p[i] = r[from + i] /\ from + i \in 1..Len(r)
    <2> HIDE DEF end
    <2>1. CASE from < end
      <3>1. \A k \in (from + 1)..end : k \in 1..Len(r)
        BY <1>1, <1>2, <1>5
      <3>2. Len(p) = end - from /\ p \in Seq(Hits(w))
        BY <1>1, <1>2, <1>3, <1>5, <2>1
      <3>3. ASSUME NEW i \in 1..(end - from) PROVE p[i] = r[from + i] /\ from + i \in 1..Len(r)
        <4>1. from + i \in (from + 1)..end
          BY <1>1, <1>5, <2>1
        <4>2. p[i] = r[from + 1 + i - 1] /\ from + 1 + i - 1 = from + i
          BY <1>1, <1>2, <1>3, <1>5, <2>1
        <4>3. QED BY <3>1, <4>1, <4>2
      <3>4. QED BY <1>1, <1>5, <2>1, <3>2, <3>3
    <2>2. CASE ~(from < end)
      <3>1. 1..(end - from) = {}
        BY <1>1, <1>5, <2>2
      <3>2. p = <<>>
        BY <1>1, <1>2, <1>3, <1>5, <2>2
      <3>3. QED BY <3>1, <3>2
    <2>3. QED BY <2>1, <2>2
  <1>7. ASSUME NEW x \in ToSet(p) PROVE x \in Hits(w) /\ from <= before(x) /\ before(x) < to
    <2>1. PICK i \in 1..(end - from) : x = p[i]
      BY <1>6 DEF ToSet
    <2>2. x = r[from + i] /\ from + i \in 1..Len(r)
      BY <1>6, <2>1
    <2>3. PICK k \in 1..Len(r) : k = from + i
      BY <2>2
    <2>4. before(x) = k - 1 /\ x \in Hits(w)
      BY <1>2, <2>2, <2>3
    <2> HIDE DEF end
    <2>5. QED BY <1>1, <1>5, <2>3, <2>4
  <1>8. ASSUME NEW m \in Hits(w) PROVE before(m) \in Nat /\ before(m) < Len(r)
                                       /\ (from <= before(m) /\ before(m) < to => m \in ToSet(p))
    <2>1. PICK k \in 1..Len(r) : r[k] = m
      BY <1>2
    <2>2. before(m) = k - 1
      BY <1>2, <2>1
    <2>3. ASSUME from <= before(m), before(m) < to PROVE m \in ToSet(p)
      <3>1. k - from \in 1..(end - from) /\ from + (k - from) = k
        BY <1>1, <1>2, <2>2, <2>3
      <3>2. p[k - from] = m
        BY <1>6, <2>1, <3>1
      <3>3. QED BY <1>6, <3>1, <3>2 DEF ToSet
    <2>4. QED BY <1>2, <2>2, <2>3
  <1>9. Descending(p)
    <2> SUFFICES ASSUME NEW i \in 1..(end - from), NEW k \in 1..(end - from), i < k PROVE p[k] < p[i]
      BY <1>6 DEF Descending
    <2>1. /\ p[i] \in Hits(w) /\ p[k] \in Hits(w)
          /\ before(p[i]) = from + i - 1 /\ before(p[k]) = from + k - 1
      <3> HIDE DEF end
      <3>1. PICK h, j \in 1..Len(r) : h = from + i /\ j = from + k
        BY <1>6
      <3>2. p[i] = r[from + i] /\ p[k] = r[from + k]
        BY <1>1, <1>5, <1>6
      <3>3. p[i] = r[h] /\ p[k] = r[j]
        BY <3>1, <3>2
      <3>4. QED BY <1>1, <1>2, <3>1, <3>3
    <2>2. before(p[i]) < before(p[k])
      BY <1>1, <2>1
    <2>3. p[i] \in Int /\ p[k] \in Int /\ ~(p[i] < p[k])
      BY <1>1, <2>1, <2>2, NewerOrder DEF before
    <2>4. p[i] # p[k]
      BY <1>1, <2>1, <2>2
    <2>5. QED BY <2>3, <2>4
  <1>10. ~HasMore(w, n) => \A m \in Hits(w) : before(m) < to
    BY <1>1, <1>2, <1>4, <1>8
  <1>11. p = <<>> => ~HasMore(w, n)
    <2>1. ASSUME p = <<>>, Len(r) > to PROVE FALSE
      <3>1. end = to
        BY <1>1, <1>2, <2>1
      <3>2. 1 \in 1..(end - from)
        BY <1>1, <3>1
      <3>3. QED BY <1>6, <2>1, <3>2
    <2>2. QED BY <1>4, <2>1
  <1>12. HasMore(w, n) \in BOOLEAN
    BY DEF HasMore
  <1>13. QED BY <1>6, <1>7, <1>8, <1>9, <1>10, <1>11, <1>12 DEF p, before, from, to

-----------------------------------------------------------------------------
\* What stays covered when the market or what is safe changes.
LEMMA CoveredKept ==
    ASSUME NEW w, NEW S, NEW T, NEW T2, T \subseteq T2, Covered(w, S, T),
           \A l \in S, m \in Hits(w)' : m < l => m \in Hits(w)
    PROVE  Covered(w, S, T2)'
  BY DEF Covered

\* A listing that comes up is the first of the results, and newer than all that
\* was ever seen; one that ends leaves the order of the others.
LEMMA ListedMarket ==
    ASSUME MarketOK, newestFirst', NEW l \in Listings, Listed(l)
    PROVE  /\ MarketOK' /\ seen \subseteq seen' /\ l \notin seen /\ \A x \in seen : ~(l < x)
           /\ ToSet(market)' = ToSet(market) \cup {l}
  <1>1. /\ l = Cardinality(seen) + 1 /\ seen' = seen \cup {l} /\ known' = known
        /\ market' = SubSeq(market, 1, 0) \o <<l>> \o SubSeq(market, 1, Len(market))
    <2>1. PICK k \in 0..Len(market) :
              /\ market' = SubSeq(market, 1, k) \o <<l>> \o SubSeq(market, k + 1, Len(market))
              /\ newestFirst' = (newestFirst /\ k = 0)
      BY DEF Listed
    <2>2. k = 0
      BY <2>1, Zenon
    <2>3. market' = SubSeq(market, 1, 0) \o <<l>> \o SubSeq(market, 0 + 1, Len(market))
      BY <2>1, <2>2, Zenon
    <2>4. 0 + 1 = 1
      OBVIOUS
    <2>5. QED BY <2>3, <2>4 DEF Listed
  <1>2. PICK n \in Nat : seen = 1..n
    BY DEF MarketOK
  <1>3. l = n + 1 /\ seen' = 1..(n + 1) /\ l \in Nat
    <2>1. Cardinality(1..n) = n
      BY <1>2, FS_Interval
    <2>2. QED BY <1>1, <1>2, <2>1
  <1>4. market \in Seq(seen) /\ Descending(market) /\ known \subseteq seen /\ Len(market) \in Nat
    BY DEF MarketOK
  <1>5. market' = <<l>> \o market
    <2>1. SubSeq(market, 1, Len(market)) = market
      BY <1>4
    <2>2. SubSeq(market, 1, 0) = <<>>
      BY <1>4
    <2>3. QED BY <1>1, <2>1, <2>2
  <1>6. /\ market' \in Seq(seen') /\ Len(market') = Len(market) + 1 /\ DOMAIN market' = 1..(Len(market) + 1)
        /\ market'[1] = l /\ \A i \in 1..Len(market) : market'[i + 1] = market[i] /\ market[i] \in seen
    <2>1. l \in seen' /\ market \in Seq(seen')
      BY <1>1, <1>4
    <2>2. QED BY <1>4, <1>5, <2>1
  <1>7. ASSUME NEW i \in 1..(Len(market) + 1), NEW k \in 1..(Len(market) + 1), i < k
        PROVE  market'[k] < market'[i]
    <2>1. k - 1 \in 1..Len(market) /\ (k - 1) + 1 = k
      BY <1>4, <1>7
    <2>2. market'[k] = market[k - 1] /\ market[k - 1] \in 1..n
      BY <1>2, <1>6, <2>1
    <2>3. CASE i = 1
      BY <1>3, <1>6, <2>2, <2>3
    <2>4. CASE i # 1
      <3>1. i - 1 \in 1..Len(market) /\ (i - 1) + 1 = i /\ i - 1 < k - 1
        BY <1>4, <1>7, <2>4
      <3>2. market'[i] = market[i - 1]
        BY <1>6, <3>1
      <3>3. market[k - 1] < market[i - 1]
        BY <1>4, <2>1, <3>1 DEF Descending
      <3>4. QED BY <2>2, <3>2, <3>3
    <2>5. QED BY <2>3, <2>4
  <1>8. MarketOK'
    <2>1. Descending(market)'
      BY <1>6, <1>7 DEF Descending
    <2>2. QED BY <1>1, <1>3, <1>4, <1>6, <2>1 DEF MarketOK
  <1>9. ToSet(market)' = ToSet(market) \cup {l}
    <2>1. \A i \in 1..(Len(market) + 1) : i = 1 \/ (i - 1 \in 1..Len(market) /\ (i - 1) + 1 = i)
      BY <1>4
    <2>2. \A i \in 1..Len(market) : i + 1 \in 1..(Len(market) + 1)
      BY <1>4
    <2>3. 1 \in 1..(Len(market) + 1) /\ DOMAIN market = 1..Len(market)
      BY <1>4
    <2>4. ASSUME NEW x \in ToSet(market)' PROVE x = l \/ x \in ToSet(market)
      <3>1. PICK i \in 1..(Len(market) + 1) : x = market'[i]
        BY <1>6 DEF ToSet
      <3>2. CASE i = 1
        BY <1>6, <3>1, <3>2
      <3>3. CASE i # 1
        <4>1. PICK k \in 1..Len(market) : k + 1 = i
          BY <2>1, <3>3
        <4>2. x = market[k]
          BY <1>6, <3>1, <4>1
        <4>3. QED BY <2>3, <4>2 DEF ToSet
      <3>4. QED BY <3>2, <3>3
    <2>5. \A x \in ToSet(market) : x \in ToSet(market)'
      BY <1>6, <2>2, <2>3 DEF ToSet
    <2>6. l \in ToSet(market)'
      BY <1>6, <2>3 DEF ToSet
    <2>7. QED BY <2>4, <2>5, <2>6
  <1>10. QED BY <1>1, <1>2, <1>3, <1>8, <1>9

LEMMA SoldMarket ==
    ASSUME MarketOK, NEW l \in Listings, Sold(l)
    PROVE  MarketOK' /\ seen' = seen /\ ToSet(market)' \subseteq ToSet(market)
  <1>1. /\ seen' = seen /\ known' = known /\ market \in Seq(seen) /\ Descending(market)
        /\ Len(market) \in Nat /\ DOMAIN market = 1..Len(market)
    BY DEF Sold, MarketOK
  <1>2. PICK j \in 1..Len(market) : market' = SubSeq(market, 1, j - 1) \o SubSeq(market, j + 1, Len(market))
    BY <1>1 DEF Sold, RemoveAt
  <1>3. Len(market) \in 1..Len(market) /\ (j = Len(market) \/ j < Len(market))
    <2>1. Len(market) \in Nat
      BY <1>1
    <2>2. QED BY <2>1
  <1> DEFINE was(i) == IF i < j THEN i ELSE i + 1
             N == Len(market) - 1
  <1>4. /\ market' \in Seq(seen) /\ Len(market') = N /\ DOMAIN market' = 1..N
        /\ \A i \in 1..N : market'[i] = market[was(i)]
    <2> DEFINE a == SubSeq(market, 1, j - 1)
               b == SubSeq(market, j + 1, Len(market))
    <2>1. a \in Seq(seen) /\ Len(a) = j - 1 /\ \A i \in 1..(j - 1) : a[i] = market[i]
      BY <1>1, <1>2
    <2>2. b \in Seq(seen) /\ Len(b) = Len(market) - j /\ \A i \in 1..(Len(market) - j) : b[i] = market[j + i]
      <3>1. CASE j = Len(market)
        <4>1. b = <<>>
          BY <1>1, <3>1
        <4>2. 1..(Len(market) - j) = {}
          BY <1>1, <3>1
        <4>3. QED BY <1>1, <3>1, <4>1, <4>2
      <3>2. CASE j < Len(market)
        <4>1. PICK from \in 1..Len(market) : from = j + 1
          BY <1>1, <3>2
        <4>2. PICK to \in 1..Len(market) : to = Len(market)
          BY <1>3
        <4>3. b = SubSeq(market, from, to) /\ from <= to /\ \A k \in from..to : k \in 1..Len(market)
          BY <1>1, <4>1, <4>2
        <4>4. Len(b) = to - from + 1 /\ b \in Seq(seen)
          BY <1>1, <4>3
        <4>5. ASSUME NEW i \in 1..(Len(market) - j) PROVE b[i] = market[j + i]
          <5>1. i \in 1..(to - from + 1)
            BY <1>1, <4>1, <4>2
          <5>2. b[i] = market[from + i - 1]
            BY <1>1, <4>3, <5>1
          <5>3. from + i - 1 = j + i
            BY <4>1
          <5>4. QED BY <5>2, <5>3
        <4>6. to - from + 1 = Len(market) - j
          BY <1>1, <4>1, <4>2
        <4>7. QED BY <4>4, <4>5, <4>6
      <3>3. QED BY <1>3, <3>1, <3>2
    <2> HIDE DEF a, b
    <2>3. market' = a \o b
      BY <1>2 DEF a, b
    <2>4. /\ market' \in Seq(seen) /\ Len(market') = Len(a) + Len(b)
          /\ \A i \in 1..(Len(a) + Len(b)) : market'[i] = IF i <= Len(a) THEN a[i] ELSE b[i - Len(a)]
      <3>1. a \in Seq(seen) /\ b \in Seq(seen)
        BY <2>1, <2>2
      <3>2. QED BY <2>3, <3>1
    <2>5. ASSUME NEW i \in 1..N PROVE market'[i] = market[was(i)]
      <3>1. i \in 1..(Len(a) + Len(b))
        BY <1>1, <2>1, <2>2
      <3>2. CASE i < j
        <4>1. i <= Len(a) /\ i \in 1..(j - 1)
          BY <2>1, <3>2
        <4>2. QED BY <2>1, <2>4, <3>1, <3>2, <4>1
      <3>3. CASE ~(i < j)
        <4>1. ~(i <= Len(a)) /\ i - Len(a) \in 1..(Len(market) - j) /\ j + (i - Len(a)) = i + 1
          BY <1>1, <2>1, <3>3
        <4>2. b[i - Len(a)] = market[j + (i - Len(a))]
          BY <2>2, <4>1
        <4>3. QED BY <2>4, <3>1, <3>3, <4>1, <4>2
      <3>4. QED BY <3>2, <3>3
    <2>6. QED BY <1>1, <2>1, <2>2, <2>4, <2>5
  <1>5. \A i \in 1..N : was(i) \in 1..Len(market)
    BY <1>1
  <1>6. \A i, k \in 1..N : i < k => was(i) < was(k)
    BY <1>1
  <1> HIDE DEF was
  <1>7. Descending(market)'
    BY <1>1, <1>4, <1>5, <1>6 DEF Descending
  <1>8. ToSet(market)' \subseteq ToSet(market)
    BY <1>1, <1>4, <1>5 DEF ToSet
  <1>9. QED BY <1>1, <1>4, <1>7, <1>8 DEF MarketOK

\* What the invariant says of one cycle.
LEMMA GapOf ==
    ASSUME GapInv, NEW c \in Cycles
    PROVE  /\ MarketOK /\ WalkTypes /\ WalkOK(c) /\ lossy \in BOOLEAN
           /\ ~lossy => KnownCovered /\ CoverOK(c)
           /\ pc[c] \in CycleStages /\ page[c] \in Nat /\ todo[c] \in Seq(Watches) /\ more[c] \in BOOLEAN
           /\ items[c] \in Seq(seen) /\ fresh[c] \in Seq(seen) /\ Read(c) \subseteq seen
  <1>1. /\ MarketOK /\ WalkTypes /\ WalkOK(c) /\ lossy \in BOOLEAN
        /\ ~lossy => KnownCovered /\ CoverOK(c)
        /\ pc[c] \in CycleStages /\ page[c] \in Nat /\ todo[c] \in Seq(Watches) /\ more[c] \in BOOLEAN
        /\ items[c] \in Seq(seen) /\ fresh[c] \in Seq(seen)
    BY DEF GapInv, WalkTypes
  <1>2. \A s \in Seq(seen) : ToSet(s) \subseteq seen
    BY DEF ToSet
  <1>3. QED BY <1>1, <1>2 DEF Read

\* A result that comes after n others still does when a listing comes up.
LEMMA ListedLater ==
    ASSUME GapInv, newestFirst', NEW l \in Listings, Listed(l), NEW w, NEW m \in Hits(w), NEW n \in Nat,
           Cardinality(Newer(w, m)) >= n
    PROVE  m \in Hits(w)' /\ Cardinality(Newer(w, m)') >= n
  <1>1. MarketOK /\ MarketOK' /\ ToSet(market)' = ToSet(market) \cup {l}
    BY ListedMarket DEF GapInv
  <1>2. Hits(w) \subseteq Hits(w)' /\ IsFiniteSet(Hits(w)) /\ Hits(w)' \subseteq Hits(w) \cup {l}
    BY <1>1, ResultsAre DEF Hits
  <1>3. IsFiniteSet(Hits(w)')
    <2>1. IsFiniteSet(Hits(w) \cup {l})
      BY <1>2, FS_AddElement
    <2>2. QED BY <1>2, <2>1, FS_Subset
  <1>4. Newer(w, m) \subseteq Newer(w, m)' /\ Newer(w, m)' \subseteq Hits(w)'
    BY <1>2 DEF Newer
  <1>5. IsFiniteSet(Newer(w, m)') /\ Cardinality(Newer(w, m)') \in Nat
    BY <1>3, <1>4, FS_Subset, FS_CardinalityType
  <1>6. Cardinality(Newer(w, m)) \in Nat /\ Cardinality(Newer(w, m)) <= Cardinality(Newer(w, m)')
    BY <1>1, <1>4, <1>5, NewerOrder, FS_Subset
  <1>7. QED BY <1>2, <1>5, <1>6

LEMMA ListedKeepsGap ==
    ASSUME GapInv, newestFirst', NEW l \in Listings, Listed(l)
    PROVE  GapInv'
  <1>1. /\ MarketOK' /\ seen \subseteq seen' /\ l \notin seen /\ (\A x \in seen : ~(l < x))
        /\ ToSet(market)' = ToSet(market) \cup {l}
    BY ListedMarket DEF GapInv
  <1>2. UNCHANGED <<known, pc, todo, page, items, more, fresh, lossy, crossed>>
    BY DEF Listed, cycleVars
  <1>3. WalkTypes'
    <2>1. Seq(seen) \subseteq Seq(seen')
      BY <1>1
    <2>2. /\ [Cycles -> Seq(seen)] \subseteq [Cycles -> Seq(seen')]
      BY <2>1
    <2>3. QED BY <1>2, <2>2 DEF GapInv, WalkTypes
  <1>4. Safe' = Safe
    BY <1>2 DEF Safe, Upserting
  <1>5. ASSUME NEW w, NEW S, S \subseteq seen, NEW T, NEW T2, T \subseteq T2, Covered(w, S, T)
        PROVE  Covered(w, S, T2)'
    <2>1. \A x \in S, m \in Hits(w)' : m < x => m \in Hits(w)
      BY <1>1, <1>5 DEF Hits
    <2>2. QED BY <1>5, <2>1, CoveredKept
  <1>6. ASSUME NEW c \in Cycles PROVE WalkOK(c)' /\ (~lossy => CoverOK(c)')
    <2>1. WalkOK(c) /\ Read(c) \subseteq seen /\ (~lossy => CoverOK(c)) /\ page[c] \in Nat
      BY GapOf
    <2>2. Current(c)' = Current(c) /\ Read(c)' = Read(c) /\ pc' = pc /\ more' = more
      BY <1>2 DEF Current, Read
    <2>3. WalkOK(c)'
      BY <1>2, <2>1, <2>2 DEF WalkOK
    <2>4. PICK w, S, K, n : w = Current(c) /\ S = Read(c) /\ K = Safe /\ n = page[c] * PageSize
      OBVIOUS
    <2>5. Later(c) \subseteq Later(c)'
      <3> SUFFICES ASSUME NEW m \in Later(c) PROVE m \in Later(c)'
        OBVIOUS
      <3>1. m \in Hits(w) /\ Cardinality(Newer(w, m)) >= n /\ \A x \in ToSet(items[c]) : m < x
        BY <2>4 DEF Later
      <3>2. n \in Nat
        BY <2>1, <2>4, PageSizes
      <3>3. m \in Hits(w)' /\ Cardinality(Newer(w, m)') >= n
        BY <3>1, <3>2, ListedLater
      <3>4. QED BY <1>2, <2>2, <2>4, <3>1, <3>3 DEF Later
    <2>6. PICK A, A2 : A = Later(c) /\ A2 = Later(c)'
      OBVIOUS
    <2>7. ASSUME ~lossy, Current(c)' \notin crossed' PROVE ReadCovered(c)'
      <3>1. /\ pc[c] \in {"search", "check"} => Covered(w, S, S \cup K \cup A)
            /\ pc[c] = "check" /\ ~more[c] => Covered(w, S, S \cup K)
            /\ pc[c] = "upsert" => Covered(w, S, K)
        BY <1>2, <2>1, <2>2, <2>4, <2>6, <2>7 DEF CoverOK, ReadCovered
      <3>2. S \subseteq seen /\ S \cup K \cup A \subseteq S \cup K \cup A2
        BY <2>1, <2>4, <2>5, <2>6
      <3>3. /\ pc[c] \in {"search", "check"} => Covered(w, S, S \cup K \cup A2)'
            /\ pc[c] = "check" /\ ~more[c] => Covered(w, S, S \cup K)'
            /\ pc[c] = "upsert" => Covered(w, S, K)'
        <4>1. /\ pc[c] \in {"search", "check"} => Covered(w, S, S \cup K \cup A2)'
          BY <1>5, <3>1, <3>2
        <4>2. pc[c] = "check" /\ ~more[c] => Covered(w, S, S \cup K)'
          BY <1>5, <3>1, <3>2
        <4>3. pc[c] = "upsert" => Covered(w, S, K)'
          BY <1>5, <3>1, <3>2
        <4>4. QED BY <4>1, <4>2, <4>3
      <3>4. QED BY <1>4, <2>2, <2>4, <2>6, <3>3 DEF ReadCovered, Covered
    <2>8. QED BY <2>3, <2>7 DEF CoverOK
  <1>7. ASSUME ~lossy PROVE KnownCovered'
    <2>1. ASSUME NEW w \in Watches \ crossed PROVE Covered(w, known \cap Finds[w], Safe)'
      <3>1. PICK S, K : S = known \cap Finds[w] /\ K = Safe
        OBVIOUS
      <3>2. Covered(w, S, K) /\ S \subseteq seen
        BY <1>7, <3>1 DEF GapInv, KnownCovered, MarketOK
      <3>3. Covered(w, S, K)'
        BY <1>5, <3>2
      <3>4. QED BY <1>2, <1>4, <3>1, <3>3 DEF Covered
    <2>2. QED BY <1>2, <2>1 DEF KnownCovered
  <1>8. QED BY <1>1, <1>2, <1>3, <1>6, <1>7 DEF GapInv

LEMMA SoldKeepsGap ==
    ASSUME GapInv, NEW l \in Listings, Sold(l)
    PROVE  GapInv'
  <1>1. MarketOK' /\ seen' = seen /\ ToSet(market)' \subseteq ToSet(market)
    BY SoldMarket DEF GapInv
  <1>2. /\ UNCHANGED <<known, pc, todo, page, items, more, fresh, crossed>>
        /\ lossy' = (lossy \/ \E c \in Cycles : pc[c] \in {"search", "check"} /\ page[c] > 0)
    BY DEF Sold, cycleVars, orderVars
  <1>3. WalkTypes'
    BY <1>1, <1>2 DEF GapInv, WalkTypes
  <1>4. Safe' = Safe
    BY <1>2 DEF Safe, Upserting
  <1>5. ASSUME NEW w, NEW S, NEW T, Covered(w, S, T) PROVE Covered(w, S, T)'
    <2>1. Hits(w)' \subseteq Hits(w)
      BY <1>1 DEF Hits
    <2>2. QED BY <1>5, <2>1 DEF Covered
  <1>6. ASSUME NEW c \in Cycles PROVE WalkOK(c)' /\ (~lossy' => CoverOK(c)')
    <2>1. WalkOK(c) /\ (~lossy => CoverOK(c)) /\ page[c] \in Nat
      BY GapOf
    <2>2. Current(c)' = Current(c) /\ Read(c)' = Read(c) /\ pc' = pc /\ more' = more
      BY <1>2 DEF Current, Read
    <2>3. WalkOK(c)'
      BY <1>2, <2>1, <2>2 DEF WalkOK
    <2>4. ASSUME ~lossy', Current(c)' \notin crossed' PROVE ReadCovered(c)'
      <3>1. ReadCovered(c) /\ (pc[c] \in {"search", "check"} => page[c] = 0)
        <4>1. ~lossy /\ ~(\E d \in Cycles : pc[d] \in {"search", "check"} /\ page[d] > 0)
          BY <1>2, <2>4
        <4>2. pc[c] \in {"search", "check"} => ~(page[c] > 0)
          BY <4>1
        <4>3. pc[c] \in {"search", "check"} => page[c] = 0
          BY <2>1, <4>2
        <4>4. QED BY <1>2, <2>1, <2>2, <2>4, <4>1, <4>3 DEF CoverOK
      <3>2. pc[c] # "check"
        BY <2>1, <3>1 DEF WalkOK
      <3>3. CASE pc[c] = "search"
        <4>1. fresh[c] = <<>> /\ items[c] = <<>>
          BY <2>1, <3>1, <3>3 DEF WalkOK
        <4>2. Read(c) = {}
          BY <4>1 DEF Read, ToSet
        <4>3. QED BY <2>2, <3>3, <4>2 DEF ReadCovered, Covered
      <3>4. CASE pc[c] = "upsert"
        <4>1. PICK w, S, K : w = Current(c) /\ S = Read(c) /\ K = Safe
          OBVIOUS
        <4>2. Covered(w, S, K)'
          BY <1>5, <3>1, <3>4, <4>1 DEF ReadCovered
        <4>3. QED BY <1>4, <2>2, <3>4, <4>1, <4>2 DEF ReadCovered, Covered
      <3>5. QED BY <2>2, <3>2, <3>3, <3>4 DEF ReadCovered
    <2>5. QED BY <2>3, <2>4 DEF CoverOK
  <1>7. ASSUME ~lossy' PROVE KnownCovered'
    <2>1. ASSUME NEW w \in Watches \ crossed PROVE Covered(w, known \cap Finds[w], Safe)'
      <3>1. PICK S, K : S = known \cap Finds[w] /\ K = Safe
        OBVIOUS
      <3>2. Covered(w, S, K)'
        BY <1>2, <1>5, <1>7, <3>1 DEF GapInv, KnownCovered
      <3>3. QED BY <1>2, <1>4, <3>1, <3>2 DEF Covered
    <2>2. QED BY <1>2, <2>1 DEF KnownCovered
  <1>8. QED BY <1>1, <1>3, <1>6, <1>7 DEF GapInv

-----------------------------------------------------------------------------
\* A step of cycle c: what it has to keep.
LEMMA GapFrame ==
    ASSUME GapInv, NEW c \in Cycles,
           NEW stage \in CycleStages, NEW pg \in Nat, NEW td \in Seq(Watches),
           NEW it \in Seq(seen), NEW fr \in Seq(seen), NEW mo \in BOOLEAN,
           pc' = [pc EXCEPT ![c] = stage], page' = [page EXCEPT ![c] = pg], todo' = [todo EXCEPT ![c] = td],
           items' = [items EXCEPT ![c] = it], fresh' = [fresh EXCEPT ![c] = fr], more' = [more EXCEPT ![c] = mo],
           UNCHANGED marketVars, known \subseteq known', known' \subseteq seen, lossy' \in BOOLEAN, lossy => lossy',
           crossed \subseteq crossed',
           ASSUME pc'[c] = stage, page'[c] = pg, todo'[c] = td, items'[c] = it, fresh'[c] = fr, more'[c] = mo
           PROVE  /\ WalkOK(c)'
                  /\ ~lossy' /\ pc[c] = "upsert" => ToSet(fresh[c]) \subseteq Safe'
                  /\ ~lossy' /\ Safe \subseteq Safe' => CoverOK(c)' /\ (known' = known \/ KnownCovered')
    PROVE  GapInv'
  <1>1. MarketOK /\ WalkTypes
    BY DEF GapInv
  <1>2. market' = market /\ seen' = seen /\ MarketOK'
    BY <1>1 DEF marketVars, MarketOK, Descending
  <1>3. WalkTypes'
    BY <1>1, <1>2 DEF WalkTypes
  <1>4. pc'[c] = stage /\ page'[c] = pg /\ todo'[c] = td /\ items'[c] = it /\ fresh'[c] = fr /\ more'[c] = mo
    BY <1>1 DEF WalkTypes
  <1>5. /\ WalkOK(c)'
        /\ ~lossy' /\ pc[c] = "upsert" => ToSet(fresh[c]) \subseteq Safe'
        /\ ~lossy' /\ Safe \subseteq Safe' => CoverOK(c)' /\ (known' = known \/ KnownCovered')
    BY <1>4
  <1>6. ASSUME NEW d \in Cycles, d # c
        PROVE  /\ pc'[d] = pc[d] /\ page'[d] = page[d] /\ todo'[d] = todo[d]
               /\ items'[d] = items[d] /\ fresh'[d] = fresh[d] /\ more'[d] = more[d]
    BY <1>1, <1>6 DEF WalkTypes
  <1>7. ASSUME ~lossy' PROVE Safe \subseteq Safe'
    <2> SUFFICES ASSUME NEW x \in Safe PROVE x \in Safe'
      OBVIOUS
    <2>1. CASE x \in known
      BY <2>1 DEF Safe
    <2>2. CASE \E d \in Upserting : x \in ToSet(fresh[d])
      <3>1. PICK d \in Cycles : pc[d] = "upsert" /\ x \in ToSet(fresh[d])
        BY <2>2 DEF Upserting
      <3>2. CASE d = c
        BY <1>5, <1>7, <3>1, <3>2
      <3>3. CASE d # c
        <4>1. pc'[d] = "upsert" /\ fresh'[d] = fresh[d]
          BY <1>6, <3>1, <3>3
        <4>2. x \in ToSet(fresh[d])' /\ d \in Upserting'
          BY <3>1, <4>1 DEF ToSet, Upserting
        <4>3. QED BY <4>2 DEF Safe
      <3>4. QED BY <3>2, <3>3
    <2>3. QED BY <2>1, <2>2 DEF Safe
  <1>8. ASSUME NEW d \in Cycles, d # c PROVE WalkOK(d)' /\ (~lossy' => CoverOK(d)')
    <2>1. WalkOK(d) /\ (~lossy => CoverOK(d))
      BY GapOf
    <2>2. /\ pc'[d] = pc[d] /\ page'[d] = page[d] /\ todo'[d] = todo[d]
          /\ items'[d] = items[d] /\ fresh'[d] = fresh[d] /\ more'[d] = more[d]
      BY <1>6, <1>8
    <2>3. Current(d)' = Current(d) /\ Read(d)' = Read(d)
      BY <2>2 DEF Current, Read, ToSet
    <2>4. \A w : Hits(w)' = Hits(w)
      BY <1>2 DEF Hits
    <2>5. \A w, m : Newer(w, m)' = Newer(w, m)
      BY <2>4 DEF Newer
    <2>6. Later(d)' = Later(d)
      BY <2>2, <2>3, <2>4, <2>5 DEF Later
    <2>7. WalkOK(d)'
      BY <2>1, <2>2, <2>3 DEF WalkOK, Descending
    <2>8. ASSUME ~lossy', Current(d)' \notin crossed' PROVE ReadCovered(d)'
      <3>1. PICK w, S, L, K, K2 : w = Current(d) /\ S = Read(d) /\ L = Later(d) /\ K = Safe /\ K2 = Safe'
        OBVIOUS
      <3>2. K \subseteq K2
        BY <1>7, <2>8, <3>1
      <3>3. \A T, T2 : Covered(w, S, T) /\ T \subseteq T2 => Covered(w, S, T2)'
        BY <2>4 DEF Covered
      <3>4. /\ pc[d] \in {"search", "check"} => Covered(w, S, S \cup K \cup L)
            /\ pc[d] = "check" /\ ~more[d] => Covered(w, S, S \cup K)
            /\ pc[d] = "upsert" => Covered(w, S, K)
        BY <2>1, <2>3, <2>8, <3>1 DEF CoverOK, ReadCovered
      <3>5. S \cup K \cup L \subseteq S \cup K2 \cup L /\ S \cup K \subseteq S \cup K2
        BY <3>2
      <3>6. /\ pc[d] \in {"search", "check"} => Covered(w, S, S \cup K2 \cup L)'
            /\ pc[d] = "check" /\ ~more[d] => Covered(w, S, S \cup K2)'
            /\ pc[d] = "upsert" => Covered(w, S, K2)'
        BY <3>2, <3>3, <3>4, <3>5
      <3>7. QED BY <2>2, <2>3, <2>6, <3>1, <3>6 DEF ReadCovered, Covered
    <2>9. QED BY <2>7, <2>8 DEF CoverOK
  <1>9. ASSUME ~lossy' PROVE KnownCovered'
    <2>1. CASE known' = known
      <3>1. \A w : Hits(w)' = Hits(w)
        BY <1>2 DEF Hits
      <3>2. KnownCovered /\ Safe \subseteq Safe'
        BY <1>7, <1>9 DEF GapInv
      <3>3. \A w \in Watches \ crossed' : w \in Watches \ crossed
        OBVIOUS
      <3>4. QED BY <2>1, <3>1, <3>2, <3>3 DEF KnownCovered, Covered
    <2>2. QED BY <1>5, <1>7, <1>9, <2>1
  <1>10. QED BY <1>2, <1>3, <1>5, <1>7, <1>8, <1>9 DEF GapInv
LEMMA LeaveKeepsGap ==
    ASSUME GapInv, NEW c \in Cycles, Leave(c), UNCHANGED <<marketVars, known, crossed>>,
           lossy' \in BOOLEAN, lossy => lossy', pc[c] = "upsert" /\ fresh[c] # <<>> => lossy'
    PROVE  GapInv'
  <1>1. PICK stage \in CycleStages, pg \in Nat, td \in Seq(Watches),
             it \in Seq(seen), fr \in Seq(seen), mo \in BOOLEAN :
             stage = "idle" /\ pg = 0 /\ td = <<>> /\ it = <<>> /\ fr = <<>> /\ mo = FALSE
    <2>1. "idle" \in CycleStages /\ 0 \in Nat /\ FALSE \in BOOLEAN
      BY DEF CycleStages
    <2>2. <<>> \in Seq(Watches) /\ <<>> \in Seq(seen)
      OBVIOUS
    <2>3. QED BY <2>1, <2>2
  <1>2. /\ pc' = [pc EXCEPT ![c] = stage] /\ page' = [page EXCEPT ![c] = pg] /\ todo' = [todo EXCEPT ![c] = td]
        /\ items' = [items EXCEPT ![c] = it] /\ fresh' = [fresh EXCEPT ![c] = fr] /\ more' = [more EXCEPT ![c] = mo]
    BY <1>1 DEF Leave, Goto
  <1>3. UNCHANGED marketVars /\ known' = known /\ known' \subseteq seen
    BY DEF GapInv, MarketOK
  <1>4. ASSUME pc'[c] = stage, page'[c] = pg, todo'[c] = td, items'[c] = it, fresh'[c] = fr, more'[c] = mo
        PROVE  /\ WalkOK(c)'
               /\ ~lossy' /\ pc[c] = "upsert" => ToSet(fresh[c]) \subseteq Safe'
               /\ ~lossy' /\ Safe \subseteq Safe' => CoverOK(c)' /\ (known' = known \/ KnownCovered')
    <2>1. WalkOK(c)'
      BY <1>1, <1>4 DEF WalkOK
    <2>2. CoverOK(c)'
      BY <1>1, <1>4 DEF CoverOK, ReadCovered
    <2>3. fresh[c] = <<>> => ToSet(fresh[c]) = {}
      BY DEF ToSet
    <2>4. QED BY <1>3, <2>1, <2>2, <2>3
  <1>5. QED BY <1>2, <1>3, <1>4, GapFrame

\* The parts of cycle c that a step leaves alone.
LEMMA Untouched ==
    ASSUME GapInv, NEW c \in Cycles
    PROVE  /\ page = [page EXCEPT ![c] = page[c]] /\ todo = [todo EXCEPT ![c] = todo[c]]
           /\ items = [items EXCEPT ![c] = items[c]] /\ fresh = [fresh EXCEPT ![c] = fresh[c]]
           /\ more = [more EXCEPT ![c] = more[c]] /\ pc = [pc EXCEPT ![c] = pc[c]]
           /\ known \subseteq seen /\ lossy \in BOOLEAN
  BY DEF GapInv, WalkTypes, MarketOK

LEMMA BeginKeepsGap ==
    ASSUME GapInv, NEW c \in Cycles, Begin(c)
    PROVE  GapInv'
  <1>1. /\ pc[c] = "idle" /\ WalkOK(c)
        /\ page[c] \in Nat /\ items[c] \in Seq(seen) /\ fresh[c] \in Seq(seen) /\ more[c] \in BOOLEAN
    BY GapOf DEF Begin
  <1>2. PICK stage \in CycleStages, pg \in Nat, td \in Seq(Watches),
             it \in Seq(seen), fr \in Seq(seen), mo \in BOOLEAN :
             stage = "watch" /\ pg = page[c] /\ td = WatchOrder /\ it = items[c] /\ fr = fresh[c] /\ mo = more[c]
    BY <1>1, IngestionConstants DEF CycleStages, IngestionConstants
  <1>3. /\ pc' = [pc EXCEPT ![c] = stage] /\ todo' = [todo EXCEPT ![c] = td]
        /\ UNCHANGED <<marketVars, known, page, items, more, fresh, lossy, crossed>>
    BY <1>2 DEF Begin, Goto, orderVars
  <1>4. /\ pc' = [pc EXCEPT ![c] = stage] /\ todo' = [todo EXCEPT ![c] = td]
        /\ page' = [page EXCEPT ![c] = pg] /\ items' = [items EXCEPT ![c] = it]
        /\ fresh' = [fresh EXCEPT ![c] = fr] /\ more' = [more EXCEPT ![c] = mo]
        /\ UNCHANGED marketVars
        /\ known \subseteq known' /\ known' \subseteq seen /\ lossy' \in BOOLEAN /\ (lossy => lossy')
        /\ crossed \subseteq crossed'
    BY <1>2, <1>3, Untouched
  <1>5. ASSUME pc'[c] = stage, page'[c] = pg, todo'[c] = td, items'[c] = it, fresh'[c] = fr, more'[c] = mo
        PROVE  /\ WalkOK(c)'
               /\ ~lossy' /\ pc[c] = "upsert" => ToSet(fresh[c]) \subseteq Safe'
               /\ ~lossy' /\ Safe \subseteq Safe' => CoverOK(c)' /\ (known' = known \/ KnownCovered')
    <2>1. WalkOK(c)' /\ CoverOK(c)'
      BY <1>1, <1>2, <1>5 DEF WalkOK, CoverOK, ReadCovered
    <2>2. QED BY <1>1, <1>3, <2>1
  <1>6. QED BY <1>4, <1>5, GapFrame

LEMMA NextWatchKeepsGap ==
    ASSUME GapInv, NEW c \in Cycles, NextWatch(c)
    PROVE  GapInv'
  <1>1. CASE MayPoll(c)
    <2>1. /\ pc[c] = "watch" /\ WalkOK(c) /\ todo[c] # <<>>
          /\ todo[c] \in Seq(Watches) /\ items[c] \in Seq(seen) /\ more[c] \in BOOLEAN
      BY <1>1, GapOf DEF NextWatch, MayPoll
    <2>2. PICK stage \in CycleStages, pg \in Nat, td \in Seq(Watches),
               it \in Seq(seen), fr \in Seq(seen), mo \in BOOLEAN :
               stage = "search" /\ pg = 0 /\ td = todo[c] /\ it = items[c] /\ fr = <<>> /\ mo = more[c]
      <3>1. "search" \in CycleStages /\ 0 \in Nat /\ <<>> \in Seq(seen)
        BY DEF CycleStages
      <3>2. QED BY <2>1, <3>1
    <2>3. /\ pc' = [pc EXCEPT ![c] = stage] /\ page' = [page EXCEPT ![c] = pg] /\ fresh' = [fresh EXCEPT ![c] = fr]
          /\ UNCHANGED <<marketVars, known, todo, items, more, lossy, crossed>>
      BY <1>1, <2>2 DEF NextWatch, Goto, orderVars
    <2>4. /\ pc' = [pc EXCEPT ![c] = stage] /\ page' = [page EXCEPT ![c] = pg] /\ fresh' = [fresh EXCEPT ![c] = fr]
          /\ todo' = [todo EXCEPT ![c] = td] /\ items' = [items EXCEPT ![c] = it]
          /\ more' = [more EXCEPT ![c] = mo]
          /\ UNCHANGED marketVars
          /\ known \subseteq known' /\ known' \subseteq seen /\ lossy' \in BOOLEAN /\ (lossy => lossy')
          /\ crossed \subseteq crossed'
      BY <2>2, <2>3, Untouched
    <2>5. ASSUME pc'[c] = stage, page'[c] = pg, todo'[c] = td, items'[c] = it, fresh'[c] = fr, more'[c] = mo
          PROVE  /\ WalkOK(c)'
                 /\ ~lossy' /\ pc[c] = "upsert" => ToSet(fresh[c]) \subseteq Safe'
                 /\ ~lossy' /\ Safe \subseteq Safe' => CoverOK(c)' /\ (known' = known \/ KnownCovered')
      <3>1. it = <<>>
        BY <2>1, <2>2 DEF WalkOK
      <3>2. Read(c)' = {}
        BY <2>2, <2>5, <3>1 DEF Read, ToSet
      <3>3. WalkOK(c)'
        BY <2>1, <2>2, <2>5, <3>1, <3>2 DEF WalkOK
      <3>4. CoverOK(c)'
        BY <2>2, <2>5, <3>2 DEF CoverOK, ReadCovered, Covered
      <3>5. QED BY <2>1, <2>3, <3>3, <3>4
    <2>6. QED BY <2>4, <2>5, GapFrame
  <1>2. CASE ~MayPoll(c)
    <2>1. Leave(c) /\ UNCHANGED <<marketVars, known, lossy, crossed>> /\ pc[c] = "watch" /\ lossy \in BOOLEAN
      BY <1>2, Untouched DEF NextWatch, orderVars
    <2>2. QED BY <2>1, LeaveKeepsGap
  <1>3. QED BY <1>1, <1>2

LEMMA UpdateWatchLastPolledKeepsGap ==
    ASSUME GapInv, NEW c \in Cycles, UpdateWatchLastPolled(c)
    PROVE  GapInv'
  <1>1. /\ pc[c] = "upsert" /\ fresh[c] = <<>> /\ WalkOK(c) /\ todo[c] # <<>> /\ todo[c] \in Seq(Watches)
        /\ items[c] \in Seq(seen) /\ fresh[c] \in Seq(seen) /\ more[c] \in BOOLEAN
    BY GapOf DEF UpdateWatchLastPolled, WalkOK
  <1>2. PICK stage \in CycleStages, pg \in Nat, td \in Seq(Watches),
             it \in Seq(seen), fr \in Seq(seen), mo \in BOOLEAN :
             stage = "watch" /\ pg = 0 /\ td = Tail(todo[c]) /\ it = items[c] /\ fr = fresh[c] /\ mo = more[c]
    <2>1. "watch" \in CycleStages /\ 0 \in Nat
      BY DEF CycleStages
    <2>2. Tail(todo[c]) \in Seq(Watches)
      BY <1>1
    <2>3. QED BY <1>1, <2>1, <2>2
  <1>3. /\ pc' = [pc EXCEPT ![c] = stage] /\ page' = [page EXCEPT ![c] = pg] /\ todo' = [todo EXCEPT ![c] = td]
        /\ UNCHANGED <<marketVars, known, items, more, fresh, lossy, crossed>>
    BY <1>2 DEF UpdateWatchLastPolled, Goto, orderVars
  <1>4. /\ pc' = [pc EXCEPT ![c] = stage] /\ page' = [page EXCEPT ![c] = pg] /\ todo' = [todo EXCEPT ![c] = td]
        /\ items' = [items EXCEPT ![c] = it] /\ fresh' = [fresh EXCEPT ![c] = fr]
        /\ more' = [more EXCEPT ![c] = mo]
        /\ UNCHANGED marketVars
        /\ known \subseteq known' /\ known' \subseteq seen /\ lossy' \in BOOLEAN /\ (lossy => lossy')
        /\ crossed \subseteq crossed'
    BY <1>2, <1>3, Untouched
  <1>5. ASSUME pc'[c] = stage, page'[c] = pg, todo'[c] = td, items'[c] = it, fresh'[c] = fr, more'[c] = mo
        PROVE  /\ WalkOK(c)'
               /\ ~lossy' /\ pc[c] = "upsert" => ToSet(fresh[c]) \subseteq Safe'
               /\ ~lossy' /\ Safe \subseteq Safe' => CoverOK(c)' /\ (known' = known \/ KnownCovered')
    <2>1. WalkOK(c)' /\ CoverOK(c)'
      BY <1>1, <1>2, <1>5 DEF WalkOK, CoverOK, ReadCovered
    <2>2. ToSet(fresh[c]) = {}
      BY <1>1 DEF ToSet
    <2>3. QED BY <1>3, <2>1, <2>2
  <1>6. QED BY <1>4, <1>5, GapFrame

LEMMA CrashKeepsGap ==
    ASSUME GapInv, NEW c \in Cycles, Crash(c)
    PROVE  GapInv'
  <1>1. Leave(c) /\ UNCHANGED <<marketVars, known, crossed>> /\ lossy' = (lossy \/ (pc[c] = "upsert" /\ fresh[c] # <<>>))
    BY DEF Crash, orderVars
  <1>2. lossy' \in BOOLEAN /\ (lossy => lossy') /\ (pc[c] = "upsert" /\ fresh[c] # <<>> => lossy')
    BY <1>1, Untouched
  <1>3. QED BY <1>1, <1>2, LeaveKeepsGap
\* The next page of a walk that left no gap leaves none before the page after it.
LEMMA NextPage ==
    ASSUME MarketOK, NEW w, NEW n \in Nat, NEW F, NEW S, NEW L,
           Covered(w, F, F \cup S \cup L), \A m \in L : Cardinality(Newer(w, m)) >= n * PageSize
    PROVE  LET p == PageOf(w, n)
               R == F \cup ToSet(p)
               L2 == {m \in Hits(w) : /\ Cardinality(Newer(w, m)) >= (n + 1) * PageSize
                                      /\ \A x \in ToSet(p) : m < x}
           IN  /\ Covered(w, R, R \cup S \cup L2)
               /\ ~HasMore(w, n) => Covered(w, R, R \cup S)
  <1> DEFINE p == PageOf(w, n)
             before(m) == Cardinality(Newer(w, m))
             R == F \cup ToSet(p)
             L2 == {m \in Hits(w) : before(m) >= (n + 1) * PageSize /\ \A x \in ToSet(p) : m < x}
  <1>1. PICK from, to \in Nat : from = n * PageSize /\ to = (n + 1) * PageSize
    BY PageSizes
  <1>2. /\ \A x \in ToSet(p) : x \in Hits(w) /\ from <= before(x) /\ before(x) < to
        /\ \A m \in Hits(w) : from <= before(m) /\ before(m) < to => m \in ToSet(p)
        /\ ~HasMore(w, n) => \A m \in Hits(w) : before(m) < to
    BY <1>1, PageIs
  <1>3. \A x, m \in Hits(w) : /\ x \in Int /\ before(x) \in Nat
                              /\ m < x => before(x) < before(m)
    BY NewerOrder
  <1> HIDE DEF p, before
  <1>4. ASSUME NEW l \in R, NEW m \in Hits(w), m < l PROVE m \in F \cup S \/ from <= before(m)
    <2>1. CASE l \in F
      <3>1. m \in F \cup S \cup L
        BY <1>4, <2>1 DEF Covered
      <3>2. m \in L => before(m) >= from
        BY <1>1 DEF before
      <3>3. QED BY <1>1, <1>3, <3>1, <3>2
    <2>2. CASE l \in ToSet(p)
      <3>1. l \in Hits(w) /\ from <= before(l) /\ before(l) < before(m)
        BY <1>2, <1>3, <1>4, <2>2
      <3>2. QED BY <1>1, <1>3, <3>1
    <2>3. QED BY <2>1, <2>2
  <1>5. ASSUME NEW m \in Hits(w), from <= before(m), m \notin ToSet(p) PROVE m \in L2 /\ HasMore(w, n)
    <2>1. ~(before(m) < to)
      BY <1>2, <1>5
    <2>2. before(m) >= to
      BY <1>1, <1>3, <2>1
    <2>3. ASSUME NEW x \in ToSet(p) PROVE m < x
      <3>1. x \in Hits(w) /\ before(x) < to
        BY <1>2
      <3>2. before(x) \in Nat /\ before(m) \in Nat /\ x \in Int /\ m \in Int
        BY <1>3, <3>1
      <3>3. before(x) < before(m)
        BY <1>1, <2>2, <3>1, <3>2
      <3>4. ~(x < m) /\ x # m
        BY <1>3, <3>1, <3>2, <3>3
      <3>5. QED BY <3>2, <3>4
    <2>4. HasMore(w, n)
      BY <1>2, <2>1
    <2>5. QED BY <1>1, <2>2, <2>3, <2>4
  <1> HIDE DEF L2
  <1>6. Covered(w, R, R \cup S \cup L2)
    BY <1>4, <1>5 DEF Covered
  <1>7. ~HasMore(w, n) => Covered(w, R, R \cup S)
    BY <1>4, <1>5 DEF Covered
  <1>8. QED BY <1>6, <1>7 DEF L2, p, before

\* Search, when eBay answers.
Answered(c) ==
    /\ pc[c] = "search"
    /\ items' = [items EXCEPT ![c] = PageOf(Current(c), page[c])]
    /\ more' = [more EXCEPT ![c] = HasMore(Current(c), page[c])]
    /\ page' = [page EXCEPT ![c] = @ + 1]
    /\ Goto(c, "check")
    /\ UNCHANGED <<marketVars, known, todo, fresh, lossy, crossed>>

LEMMA AnswerKeepsGap ==
    ASSUME GapInv, NEW c \in Cycles, Answered(c)
    PROVE  GapInv'
  <1>1. /\ MarketOK /\ WalkOK(c) /\ (~lossy => CoverOK(c)) /\ page[c] \in Nat
        /\ todo[c] \in Seq(Watches) /\ fresh[c] \in Seq(seen)
    BY GapOf
  <1>2. PICK n \in Nat, w \in {Current(c)} : w = Current(c) /\ n = page[c]
    BY <1>1
  <1>3. /\ PageOf(w, n) \in Seq(Hits(w)) /\ Descending(PageOf(w, n)) /\ ToSet(PageOf(w, n)) \subseteq Hits(w)
        /\ PageOf(w, n) = <<>> => ~HasMore(w, n)
        /\ HasMore(w, n) \in BOOLEAN
    <2>1. /\ PageOf(w, n) \in Seq(Hits(w)) /\ Descending(PageOf(w, n))
          /\ \A x \in ToSet(PageOf(w, n)) : x \in Hits(w)
          /\ PageOf(w, n) = <<>> => ~HasMore(w, n)
          /\ HasMore(w, n) \in BOOLEAN
      BY <1>1, PageIs
    <2>2. QED BY <2>1
  <1>4. Hits(w) \subseteq seen /\ Hits(w) \subseteq Finds[w]
    BY <1>1 DEF Hits, ToSet, MarketOK
  <1>5. PICK stage \in CycleStages, pg \in Nat, td \in Seq(Watches),
             it \in Seq(seen), fr \in Seq(seen), mo \in BOOLEAN :
             stage = "check" /\ pg = n + 1 /\ td = todo[c] /\ it = PageOf(w, n) /\ fr = fresh[c] /\ mo = HasMore(w, n)
    <2>1. "check" \in CycleStages /\ n + 1 \in Nat
      BY DEF CycleStages
    <2>2. PageOf(w, n) \in Seq(seen)
      BY <1>3, <1>4
    <2>3. QED BY <1>1, <1>3, <2>1, <2>2
  <1>6. /\ pc' = [pc EXCEPT ![c] = stage] /\ page' = [page EXCEPT ![c] = pg] /\ todo' = [todo EXCEPT ![c] = td]
        /\ items' = [items EXCEPT ![c] = it] /\ fresh' = [fresh EXCEPT ![c] = fr] /\ more' = [more EXCEPT ![c] = mo]
        /\ UNCHANGED marketVars
        /\ known \subseteq known' /\ known' \subseteq seen /\ lossy' \in BOOLEAN /\ (lossy => lossy')
        /\ crossed \subseteq crossed'
    BY <1>2, <1>5, Untouched DEF Answered, Goto
  <1>7. ASSUME pc'[c] = stage, page'[c] = pg, todo'[c] = td, items'[c] = it, fresh'[c] = fr, more'[c] = mo
        PROVE  /\ WalkOK(c)'
               /\ ~lossy' /\ pc[c] = "upsert" => ToSet(fresh[c]) \subseteq Safe'
               /\ ~lossy' /\ Safe \subseteq Safe' => CoverOK(c)' /\ (known' = known \/ KnownCovered')
    <2>1. PICK F : F = ToSet(fresh[c])
      OBVIOUS
    <2>2. Read(c) = F /\ F \subseteq Finds[w] /\ todo[c] # <<>>
      <3>1. items[c] = <<>> /\ todo[c] # <<>> /\ Read(c) \subseteq Finds[w]
        BY <1>1, <1>2 DEF Answered, WalkOK
      <3>2. ToSet(items[c]) = {}
        BY <3>1 DEF ToSet
      <3>3. QED BY <2>1, <3>1, <3>2 DEF Read
    <2>3. Read(c)' = F \cup ToSet(it) /\ Current(c)' = w
      BY <1>2, <1>5, <1>7, <2>1 DEF Read, Current, ToSet
    <2>4. WalkOK(c)'
      <3>1. pc'[c] = "check" /\ page'[c] > 0 /\ todo'[c] # <<>>
        BY <1>5, <1>7, <2>2
      <3>2. Descending(items[c])' /\ (items'[c] = <<>> => ~more'[c])
        BY <1>3, <1>5, <1>7 DEF Descending
      <3>3. Read(c)' \subseteq Finds[Current(c)']
        BY <1>3, <1>4, <1>5, <2>2, <2>3
      <3>4. QED BY <3>1, <3>2, <3>3 DEF WalkOK
    <2>5. ASSUME ~lossy', Safe \subseteq Safe', Current(c)' \notin crossed' PROVE ReadCovered(c)'
      <3>1. PICK S, S2, L : S = Safe /\ S2 = Safe' /\ L = Later(c)
        OBVIOUS
      <3>2. Covered(w, F, F \cup S \cup L) /\ \A m \in L : Cardinality(Newer(w, m)) >= n * PageSize
        BY <1>1, <1>2, <1>6, <2>2, <2>3, <2>5, <3>1 DEF Answered, CoverOK, ReadCovered, Later
      <3>3. PICK p : p = PageOf(w, n)
        OBVIOUS
      <3>4. PICK R, L2 : /\ R = F \cup ToSet(p)
                         /\ L2 = {m \in Hits(w) : /\ Cardinality(Newer(w, m)) >= (n + 1) * PageSize
                                                  /\ \A x \in ToSet(p) : m < x}
        OBVIOUS
      <3>5. Covered(w, R, R \cup S \cup L2) /\ (~mo => Covered(w, R, R \cup S))
        <4>1. /\ Covered(w, F \cup ToSet(PageOf(w, n)), F \cup ToSet(PageOf(w, n)) \cup S \cup
                         {m \in Hits(w) : /\ Cardinality(Newer(w, m)) >= (n + 1) * PageSize
                                          /\ \A x \in ToSet(PageOf(w, n)) : m < x})
              /\ ~HasMore(w, n) => Covered(w, F \cup ToSet(PageOf(w, n)), F \cup ToSet(PageOf(w, n)) \cup S)
          BY <1>1, <3>2, NextPage
        <4>2. QED BY <1>5, <3>3, <3>4, <4>1
      <3>6. \A m : m \in Hits(w)' <=> m \in Hits(w)
        BY <1>6 DEF Hits, marketVars
      <3>7. \A m : Newer(w, m)' = Newer(w, m)
        BY <3>6 DEF Newer
      <3>8. \A T, T2 : Covered(w, R, T) /\ T \subseteq T2 => Covered(w, R, T2)'
        BY <3>6 DEF Covered
      <3>9. Later(c)' = L2
        BY <1>5, <1>7, <2>3, <3>3, <3>4, <3>6, <3>7 DEF Later
      <3>10. Read(c)' = R /\ pc'[c] = "check" /\ more'[c] = mo
        BY <1>5, <1>7, <2>3, <3>3, <3>4
      <3>11. R \cup S \cup L2 \subseteq R \cup S2 \cup L2 /\ R \cup S \subseteq R \cup S2
        BY <2>5, <3>1
      <3>12. Covered(w, R, R \cup S2 \cup L2)' /\ (~mo => Covered(w, R, R \cup S2)')
        BY <3>5, <3>8, <3>11
      <3>13. QED BY <2>3, <3>1, <3>9, <3>10, <3>12 DEF ReadCovered, Covered
    <2>6. pc[c] # "upsert" /\ known' = known
      BY DEF Answered
    <2>7. QED BY <2>4, <2>5, <2>6 DEF CoverOK
  <1>8. QED BY <1>6, <1>7, GapFrame

LEMMA SearchKeepsGap ==
    ASSUME GapInv, NEW c \in Cycles, Search(c)
    PROVE  GapInv'
  <1>1. pc[c] = "search" /\ UNCHANGED <<marketVars, known, lossy, crossed>>
    BY DEF Search, orderVars
  <1>2. CASE /\ items' = [items EXCEPT ![c] = PageOf(Current(c), page[c])]
             /\ more' = [more EXCEPT ![c] = HasMore(Current(c), page[c])]
             /\ page' = [page EXCEPT ![c] = @ + 1]
             /\ Goto(c, "check")
             /\ UNCHANGED <<todo, fresh, total, failed, budget>>
    BY <1>1, <1>2, AnswerKeepsGap DEF Answered
  <1>3. CASE /\ fresh' = [fresh EXCEPT ![c] = AfterError(c)]
             /\ page' = [page EXCEPT ![c] = 0]
             /\ Goto(c, "upsert")
             /\ UNCHANGED <<todo, items, more, total>>
    <2>1. WalkOK(c) /\ todo[c] \in Seq(Watches) /\ items[c] \in Seq(seen) /\ more[c] \in BOOLEAN
      BY GapOf
    <2>2. PICK stage \in CycleStages, pg \in Nat, td \in Seq(Watches),
               it \in Seq(seen), fr \in Seq(seen), mo \in BOOLEAN :
               stage = "upsert" /\ pg = 0 /\ td = todo[c] /\ it = items[c] /\ fr = <<>> /\ mo = more[c]
      <3>1. "upsert" \in CycleStages /\ 0 \in Nat /\ <<>> \in Seq(seen)
        BY DEF CycleStages
      <3>2. QED BY <2>1, <3>1
    <2>3. /\ pc' = [pc EXCEPT ![c] = stage] /\ page' = [page EXCEPT ![c] = pg] /\ todo' = [todo EXCEPT ![c] = td]
          /\ items' = [items EXCEPT ![c] = it] /\ fresh' = [fresh EXCEPT ![c] = fr] /\ more' = [more EXCEPT ![c] = mo]
          /\ UNCHANGED marketVars
          /\ known \subseteq known' /\ known' \subseteq seen /\ lossy' \in BOOLEAN /\ (lossy => lossy')
          /\ crossed \subseteq crossed'
      BY <1>1, <1>3, <2>2, Untouched DEF Goto, AfterError
    <2>4. ASSUME pc'[c] = stage, page'[c] = pg, todo'[c] = td, items'[c] = it, fresh'[c] = fr, more'[c] = mo
          PROVE  /\ WalkOK(c)'
                 /\ ~lossy' /\ pc[c] = "upsert" => ToSet(fresh[c]) \subseteq Safe'
                 /\ ~lossy' /\ Safe \subseteq Safe' => CoverOK(c)' /\ (known' = known \/ KnownCovered')
      <3>1. it = <<>> /\ todo[c] # <<>>
        BY <1>1, <2>1, <2>2 DEF WalkOK
      <3>2. Read(c)' = {}
        BY <2>2, <2>4, <3>1 DEF Read, ToSet
      <3>3. WalkOK(c)'
        BY <2>2, <2>4, <3>1, <3>2 DEF WalkOK
      <3>4. CoverOK(c)'
        BY <2>2, <2>4, <3>2 DEF CoverOK, ReadCovered, Covered
      <3>5. QED BY <1>1, <3>3, <3>4
    <2>5. QED BY <2>3, <2>4, GapFrame
  <1>4. CASE Leave(c)
    BY <1>1, <1>4, Untouched, LeaveKeepsGap
  <1>5. QED BY <1>2, <1>3, <1>4 DEF Search

\* What a lookup of the page in hand finds ends the walk without a gap: what is
\* older than a known result is safe.
LEMMA PageHit ==
    ASSUME MarketOK, NEW c, NEW w, NEW K, NEW F, NEW S, NEW L,
           items[c] \in Seq(seen), Descending(items[c]), ToSet(items[c]) \subseteq Finds[w],
           K \subseteq known, known \subseteq S
    PROVE  /\ NewOnPage(c, K) \in Seq(seen) /\ ToSet(NewOnPage(c, K)) \subseteq ToSet(items[c])
           /\ ~FoundKnown(c, K) => NewOnPage(c, K) = items[c]
           /\ /\ FoundKnown(c, K)
              /\ Covered(w, known \cap Finds[w], S)
              /\ Covered(w, F \cup ToSet(items[c]), F \cup ToSet(items[c]) \cup S \cup L)
              /\ \A m \in L, x \in ToSet(items[c]) : m < x
              => Covered(w, F \cup ToSet(NewOnPage(c, K)), F \cup ToSet(NewOnPage(c, K)) \cup S)
  <1> DEFINE hits == {i \in DOMAIN items[c] : items[c][i] \in K}
             least == CHOOSE i \in hits : \A k \in hits : i <= k
  <1>1. PICK s : s = items[c]
    OBVIOUS
  <1>2. /\ s \in Seq(seen) /\ DOMAIN s = 1..Len(s) /\ Len(s) \in Nat /\ seen \subseteq Int
        /\ \A i, k \in 1..Len(s) : i < k => s[k] < s[i]
        /\ \A i \in 1..Len(s) : s[i] \in seen /\ s[i] \in ToSet(s)
        /\ \A x \in ToSet(s) : \E i \in 1..Len(s) : s[i] = x
    <2>1. s \in Seq(seen) /\ DOMAIN s = 1..Len(s) /\ Len(s) \in Nat
      BY <1>1
    <2>2. seen \subseteq Int
      BY DEF MarketOK
    <2>3. \A i, k \in 1..Len(s) : i < k => s[k] < s[i]
      BY <1>1, <2>1 DEF Descending
    <2>4. QED BY <2>1, <2>2, <2>3 DEF ToSet
  <1>3. FoundKnown(c, K) <=> hits # {}
    BY DEF FoundKnown
  <1>4. NewOnPage(c, K) = IF hits = {} THEN s ELSE SubSeq(s, 1, least - 1)
    BY <1>1 DEF NewOnPage
  <1>5. hits \subseteq 1..Len(s) /\ (\A i \in 1..Len(s) : i \in hits <=> s[i] \in K)
    BY <1>1, <1>2
  <1> HIDE DEF hits
  <1>6. CASE hits = {}
    BY <1>1, <1>2, <1>3, <1>4, <1>6
  <1>7. CASE hits # {}
    <2>1. least \in hits /\ \A k \in hits : least <= k
      <3>1. hits \subseteq Int /\ IsFiniteSet(hits)
        <4>1. IsFiniteSet(1..Len(s)) /\ 1..Len(s) \subseteq Int
          BY <1>2, FS_Interval
        <4>2. hits \subseteq 1..Len(s)
          BY <1>5
        <4>3. QED BY <4>1, <4>2, FS_Subset
      <3>2. Cardinality(hits) \in Nat /\ Cardinality(hits) # 0
        BY <1>7, <3>1, FS_CardinalityType, FS_EmptySet
      <3>3. PICK i \in hits : Cardinality({k \in hits : k <= i}) = 1
        <4>1. PICK one \in 1..Cardinality(hits) : one = 1
          BY <3>2
        <4>2. PICK i \in hits : Cardinality({k \in hits : k <= i}) = one
          BY <3>1, RankOnto
        <4>3. QED BY <4>1, <4>2
      <3>4. ASSUME NEW k \in hits PROVE i <= k
        <4>1. Cardinality({j \in hits : j <= k}) \in 1..Cardinality(hits)
          BY <3>1, RankOnto
        <4>2. k < i => Cardinality({j \in hits : j <= k}) < Cardinality({j \in hits : j <= i})
          <5>1. \A a, b \in hits : a < b => Cardinality({j \in hits : j <= a}) < Cardinality({j \in hits : j <= b})
            BY <3>1, RankOnto
          <5>2. QED BY <5>1
        <4>3. i \in Int /\ k \in Int
          BY <3>1
        <4>4. QED BY <3>2, <3>3, <4>1, <4>2, <4>3
      <3>5. QED BY <3>4
    <2>2. PICK h \in 1..Len(s) : h = least /\ s[h] \in K /\ \A i \in 1..Len(s) : s[i] \in K => h <= i
      BY <1>5, <2>1
    <2> HIDE DEF least
    <2>3. PICK N : N = NewOnPage(c, K)
      OBVIOUS
    <2>4. /\ N \in Seq(seen) /\ Len(N) = h - 1 /\ DOMAIN N = 1..(h - 1)
          /\ \A i \in 1..(h - 1) : N[i] = s[i] /\ i \in 1..Len(s)
      <3>1. N = SubSeq(s, 1, h - 1)
        BY <1>4, <1>7, <2>2, <2>3
      <3>2. \A i \in 1..(h - 1) : i \in 1..Len(s) /\ s[i] \in seen
        BY <1>2
      <3>3. DOMAIN N = 1..(h - 1) /\ Len(N) = h - 1 /\ \A i \in 1..(h - 1) : N[i] = s[i]
        BY <1>2, <3>1
      <3>4. N \in Seq(seen)
        BY <1>2, <3>1, <3>2
      <3>5. QED BY <3>2, <3>3, <3>4
    <2>5. /\ \A x \in ToSet(N) : x \in ToSet(s)
          /\ \A i \in 1..(h - 1) : s[i] \in ToSet(N)
      BY <1>2, <2>4 DEF ToSet
    <2>6. ASSUME Covered(w, known \cap Finds[w], S),
                 Covered(w, F \cup ToSet(s), F \cup ToSet(s) \cup S \cup L),
                 \A m \in L, x \in ToSet(s) : m < x,
                 NEW l \in F \cup ToSet(N), NEW m \in Hits(w), m < l
          PROVE  m \in F \cup ToSet(N) \cup S
      <3>1. s[h] \in known \cap Finds[w] /\ s[h] \in ToSet(s) /\ s[h] \in S /\ s[h] \in Int
        BY <1>1, <1>2, <2>2
      <3>2. m \in Int
        BY DEF Hits, ToSet, MarketOK
      <3>3. CASE m < s[h]
        BY <2>6, <3>1, <3>3 DEF Covered
      <3>4. CASE m = s[h]
        BY <3>1, <3>4
      <3>5. CASE s[h] < m
        <4>1. m \notin L
          BY <2>6, <3>1, <3>2, <3>5
        <4>2. l \in F \cup ToSet(s)
          BY <2>5
        <4>3. m \in F \cup ToSet(s) \cup S
          BY <2>6, <4>1, <4>2 DEF Covered
        <4>4. ASSUME m \in ToSet(s) PROVE m \in ToSet(N)
          <5>1. PICK i \in 1..Len(s) : s[i] = m
            BY <1>2, <4>4
          <5>2. ~(h < i) /\ i # h
            BY <1>2, <3>1, <3>2, <3>5, <5>1
          <5>3. i \in 1..(h - 1)
            BY <1>2, <5>2
          <5>4. QED BY <2>5, <5>1, <5>3
        <4>5. QED BY <4>3, <4>4
      <3>6. QED BY <3>1, <3>2, <3>3, <3>4, <3>5
    <2>7. QED BY <1>1, <1>3, <1>7, <2>3, <2>4, <2>5, <2>6 DEF Covered
  <1>8. QED BY <1>6, <1>7

\* CheckPage, when the lookups find K.
Checked(c, K) ==
    /\ pc[c] = "check"
    /\ PageChecked(c, K)
    /\ items' = [items EXCEPT ![c] = <<>>]
    /\ more' = [more EXCEPT ![c] = FALSE]
    /\ UNCHANGED <<marketVars, known, todo, page, crossed>>

LEMMA CheckedKeepsGap ==
    ASSUME GapInv, NEW c \in Cycles, NEW K, K \subseteq known, Checked(c, K)
    PROVE  GapInv'
  <1>1. /\ MarketOK /\ WalkOK(c) /\ (~lossy => KnownCovered /\ CoverOK(c)) /\ page[c] \in Nat
        /\ todo[c] \in Seq(Watches) /\ fresh[c] \in Seq(seen) /\ items[c] \in Seq(seen) /\ lossy \in BOOLEAN
    BY GapOf
  <1>2. /\ pc[c] = "check" /\ todo[c] # <<>> /\ Read(c) \subseteq Finds[Current(c)] /\ page[c] > 0
        /\ Descending(items[c]) /\ (items[c] = <<>> => ~more[c])
    BY <1>1 DEF Checked, WalkOK
  <1>3. PICK w, F, I, N : /\ w = Current(c) /\ F = ToSet(fresh[c]) /\ I = ToSet(items[c])
                          /\ N = NewOnPage(c, K)
    OBVIOUS
  <1>4. Read(c) = F \cup I /\ I \subseteq Finds[w]
    BY <1>2, <1>3 DEF Read
  <1>5. /\ N \in Seq(seen) /\ ToSet(N) \subseteq I
        /\ ~FoundKnown(c, K) => N = items[c]
        /\ \A S, L : /\ known \subseteq S
                     /\ FoundKnown(c, K)
                     /\ Covered(w, known \cap Finds[w], S)
                     /\ Covered(w, F \cup I, F \cup I \cup S \cup L)
                     /\ \A m \in L, x \in I : m < x
                     => Covered(w, F \cup ToSet(N), F \cup ToSet(N) \cup S)
    <2>1. ToSet(items[c]) \subseteq Finds[w]
      BY <1>3, <1>4
    <2>2. known \subseteq known
      OBVIOUS
    <2>3. /\ NewOnPage(c, K) \in Seq(seen) /\ ToSet(NewOnPage(c, K)) \subseteq ToSet(items[c])
          /\ ~FoundKnown(c, K) => NewOnPage(c, K) = items[c]
      BY <1>1, <1>2, <2>1, <2>2, PageHit
    <2>4. ASSUME NEW S, NEW L, known \subseteq S
          PROVE  /\ FoundKnown(c, K)
                 /\ Covered(w, known \cap Finds[w], S)
                 /\ Covered(w, F \cup ToSet(items[c]), F \cup ToSet(items[c]) \cup S \cup L)
                 /\ \A m \in L, x \in ToSet(items[c]) : m < x
                 => Covered(w, F \cup ToSet(NewOnPage(c, K)), F \cup ToSet(NewOnPage(c, K)) \cup S)
      BY <1>1, <1>2, <2>1, <2>4, PageHit
    <2>5. QED BY <1>3, <2>3, <2>4
  <1>6. PICK stage \in CycleStages, pg \in Nat, td \in Seq(Watches),
             it \in Seq(seen), fr \in Seq(seen), mo \in BOOLEAN :
             /\ stage = IF StopsHere(c, K) THEN "upsert" ELSE "search"
             /\ pg = page[c] /\ td = todo[c] /\ it = <<>> /\ fr = fresh[c] \o N /\ mo = FALSE
    <2>1. (IF StopsHere(c, K) THEN "upsert" ELSE "search") \in CycleStages
      BY DEF CycleStages
    <2>2. <<>> \in Seq(seen) /\ fresh[c] \o N \in Seq(seen)
      BY <1>1, <1>5
    <2>3. QED BY <1>1, <2>1, <2>2
  <1>7. /\ pc' = [pc EXCEPT ![c] = stage] /\ page' = [page EXCEPT ![c] = pg] /\ todo' = [todo EXCEPT ![c] = td]
        /\ items' = [items EXCEPT ![c] = it] /\ fresh' = [fresh EXCEPT ![c] = fr] /\ more' = [more EXCEPT ![c] = mo]
        /\ UNCHANGED marketVars
        /\ known \subseteq known' /\ known' \subseteq seen /\ lossy' \in BOOLEAN /\ (lossy => lossy')
        /\ crossed \subseteq crossed'
    BY <1>3, <1>6, Untouched DEF Checked, PageChecked, Goto
  <1>8. /\ known' = known
        /\ lossy' = (lossy \/ (page[c] = MaxPages /\ ~FoundKnown(c, K) /\ more[c]))
    BY DEF Checked, PageChecked
  <1>9. ToSet(fr) = F \cup ToSet(N)
    <2>1. PICK a, b \in Seq(seen) : a = fresh[c] /\ b = N
      BY <1>1, <1>5
    <2>2. fr = a \o b /\ F = ToSet(a)
      BY <1>3, <1>6, <2>1
    <2>3. ASSUME NEW x PROVE x \in ToSet(fr) <=> x \in ToSet(a) \/ x \in ToSet(b)
      <3>1. DOMAIN fr = 1..(Len(a) + Len(b)) /\ Len(a) \in Nat /\ Len(b) \in Nat
        BY <2>2
      <3>2. \A i \in 1..Len(a) : i \in DOMAIN fr /\ fr[i] = a[i]
        BY <2>2
      <3>3. \A i \in 1..Len(b) : i + Len(a) \in DOMAIN fr /\ fr[i + Len(a)] = b[i]
        BY <2>2
      <3>4. \A i \in DOMAIN fr : i \in 1..Len(a) \/ (i - Len(a) \in 1..Len(b) /\ fr[i] = b[i - Len(a)])
        BY <2>2
      <3>5. DOMAIN a = 1..Len(a) /\ DOMAIN b = 1..Len(b)
        OBVIOUS
      <3>6. ASSUME x \in ToSet(fr) PROVE x \in ToSet(a) \/ x \in ToSet(b)
        <4>1. PICK i \in DOMAIN fr : fr[i] = x
          BY <3>6 DEF ToSet
        <4>2. QED BY <3>2, <3>4, <3>5, <4>1 DEF ToSet
      <3>7. ASSUME x \in ToSet(a) \/ x \in ToSet(b) PROVE x \in ToSet(fr)
        <4>1. \A i \in DOMAIN fr : fr[i] \in ToSet(fr)
          BY DEF ToSet
        <4>2. QED BY <3>2, <3>3, <3>5, <3>7, <4>1 DEF ToSet
      <3>8. QED BY <3>6, <3>7
    <2>4. QED BY <2>1, <2>2, <2>3
  <1>10. ASSUME pc'[c] = stage, page'[c] = pg, todo'[c] = td, items'[c] = it, fresh'[c] = fr, more'[c] = mo
         PROVE  /\ WalkOK(c)'
                /\ ~lossy' /\ pc[c] = "upsert" => ToSet(fresh[c]) \subseteq Safe'
                /\ ~lossy' /\ Safe \subseteq Safe' => CoverOK(c)' /\ (known' = known \/ KnownCovered')
    <2>1. Read(c)' = F \cup ToSet(N) /\ Current(c)' = w
      <3>1. ToSet(it) = {}
        BY <1>6 DEF ToSet
      <3>2. Read(c)' = ToSet(fr) \cup ToSet(it)
        BY <1>10 DEF Read, ToSet
      <3>3. QED BY <1>3, <1>6, <1>9, <1>10, <3>1, <3>2 DEF Current
    <2>2. WalkOK(c)'
      <3>1. todo'[c] # <<>> /\ page'[c] # 0 /\ pc'[c] # "check" /\ items'[c] = <<>>
        BY <1>2, <1>6, <1>10
      <3>2. Read(c)' \subseteq Finds[Current(c)']
        BY <1>2, <1>3, <1>4, <1>5, <2>1
      <3>3. QED BY <3>1, <3>2 DEF WalkOK
    <2>3. ASSUME ~lossy', Safe \subseteq Safe', Current(c)' \notin crossed' PROVE ReadCovered(c)'
      <3>0. w \notin crossed
        BY <1>7, <2>1, <2>3
      <3>1. PICK S, S2, L : S = Safe /\ S2 = Safe' /\ L = Later(c)
        OBVIOUS
      <3>2. /\ Covered(w, F \cup I, F \cup I \cup S \cup L)
            /\ ~more[c] => Covered(w, F \cup I, F \cup I \cup S)
            /\ \A m \in L, x \in I : m < x
            /\ known \subseteq S /\ S \subseteq S2
        BY <1>1, <1>2, <1>3, <1>4, <1>8, <2>3, <3>0, <3>1 DEF CoverOK, ReadCovered, Later, Safe
      <3>3. Covered(w, known \cap Finds[w], S)
        <4>1. w \in Watches
          BY <1>1, <1>2, <1>3 DEF Current
        <4>2. QED BY <1>1, <1>8, <2>3, <3>0, <3>1, <4>1 DEF KnownCovered
      <3>4. PICK R : R = F \cup ToSet(N)
        OBVIOUS
      <3>5. \A m : m \in Hits(w)' <=> m \in Hits(w)
        BY <1>7 DEF Hits, marketVars
      <3>6. \A m : Newer(w, m)' = Newer(w, m)
        BY <3>5 DEF Newer
      <3>7. \A T, T2 : Covered(w, R, T) /\ T \subseteq T2 => Covered(w, R, T2)'
        BY <3>5 DEF Covered
      <3>8. CASE StopsHere(c, K)
        <4>1. Covered(w, R, R \cup S)
          <5>1. CASE FoundKnown(c, K)
            BY <1>5, <3>2, <3>3, <3>4, <5>1
          <5>2. CASE ~FoundKnown(c, K)
            <6>1. ~more[c]
              BY <1>2, <1>8, <2>3, <3>8, <5>2 DEF StopsHere
            <6>2. R = F \cup I
              BY <1>3, <1>5, <3>4, <5>2
            <6>3. QED BY <3>2, <6>1, <6>2
          <5>3. QED BY <5>1, <5>2
        <4>2. stage = "upsert"
          BY <1>6, <3>8
        <4>3. R \subseteq S2
          <5>1. c \in Upserting' /\ ToSet(fresh[c])' = R
            BY <1>9, <1>10, <3>4, <4>2 DEF Upserting, ToSet
          <5>2. QED BY <3>1, <5>1 DEF Safe
        <4>4. R \cup S \subseteq S2
          BY <3>2, <4>3
        <4>5. Covered(w, R, S2)'
          BY <3>7, <4>1, <4>4
        <4>6. QED BY <1>10, <2>1, <3>1, <3>4, <4>2, <4>5 DEF ReadCovered, Covered
      <3>9. CASE ~StopsHere(c, K)
        <4>1. R = F \cup I /\ stage = "search"
          BY <1>3, <1>5, <1>6, <3>4, <3>9 DEF StopsHere
        <4>2. L \subseteq Later(c)'
          <5>1. \A m \in L : m \in Hits(w) /\ Cardinality(Newer(w, m)) >= page[c] * PageSize
            BY <1>3, <3>1 DEF Later
          <5>2. ToSet(items[c])' = {}
            BY <1>6, <1>10 DEF ToSet
          <5>3. page'[c] = page[c]
            BY <1>6, <1>10
          <5>4. QED BY <2>1, <3>5, <3>6, <5>1, <5>2, <5>3 DEF Later
        <4>3. PICK L2 : L2 = Later(c)'
          OBVIOUS
        <4>4. R \cup S \cup L \subseteq R \cup S2 \cup L2
          BY <3>2, <4>2, <4>3
        <4>5. Covered(w, R, R \cup S2 \cup L2)'
          BY <3>2, <3>7, <4>1, <4>4
        <4>6. QED BY <1>10, <2>1, <3>1, <3>4, <4>1, <4>3, <4>5 DEF ReadCovered, Covered
      <3>10. QED BY <3>8, <3>9
    <2>4. QED BY <1>2, <1>8, <2>2, <2>3 DEF CoverOK
  <1>11. QED BY <1>7, <1>10, GapFrame

LEMMA CheckPageKeepsGap ==
    ASSUME GapInv, NEW c \in Cycles, CheckPage(c)
    PROVE  GapInv'
  <1>1. PICK K : K \subseteq known /\ PageChecked(c, K)
    BY DEF CheckPage
  <1>2. Checked(c, K)
    BY <1>1 DEF CheckPage, Checked, orderVars
  <1>3. QED BY <1>1, <1>2, CheckedKeepsGap

LEMMA UpsertListingKeepsGap ==
    ASSUME GapInv, NEW c \in Cycles, UpsertListing(c)
    PROVE  GapInv'
  <1>1. /\ MarketOK /\ WalkOK(c) /\ (~lossy => KnownCovered /\ CoverOK(c)) /\ page[c] \in Nat
        /\ todo[c] \in Seq(Watches) /\ fresh[c] \in Seq(seen) /\ items[c] \in Seq(seen)
        /\ more[c] \in BOOLEAN /\ lossy \in BOOLEAN
    BY GapOf
  <1>2. /\ pc[c] = "upsert" /\ fresh[c] # <<>> /\ items[c] = <<>>
        /\ todo[c] # <<>> /\ Read(c) \subseteq Finds[Current(c)]
    BY <1>1 DEF UpsertListing, WalkOK
  <1>3. PICK w, F, h : w = Current(c) /\ F = ToSet(fresh[c]) /\ h = Head(fresh[c])
    OBVIOUS
  <1>4. Read(c) = F /\ F \subseteq Finds[w] /\ w \in Watches
    <2>1. ToSet(items[c]) = {}
      BY <1>2 DEF ToSet
    <2>2. QED BY <1>1, <1>2, <1>3, <2>1 DEF Read, Current
  <1>5. PICK stage \in CycleStages, pg \in Nat, td \in Seq(Watches),
             it \in Seq(seen), fr \in Seq(seen), mo \in BOOLEAN :
             stage = "upsert" /\ pg = page[c] /\ td = todo[c] /\ it = <<>> /\ fr = Tail(fresh[c]) /\ mo = more[c]
    <2>1. "upsert" \in CycleStages
      BY DEF CycleStages
    <2>2. <<>> \in Seq(seen) /\ Tail(fresh[c]) \in Seq(seen)
      BY <1>1, <1>2
    <2>3. QED BY <1>1, <2>1, <2>2
  <1>6. F = {h} \cup ToSet(fr) /\ h \in seen
    <2>1. PICK s \in Seq(seen) : s = fresh[c] /\ s # <<>>
      BY <1>1, <1>2
    <2>2. /\ fr = Tail(s) /\ h = s[1] /\ 1 \in 1..Len(s) /\ Len(s) \in Nat
          /\ DOMAIN fr = 1..(Len(s) - 1) /\ \A i \in 1..(Len(s) - 1) : fr[i] = s[i + 1] /\ i + 1 \in 1..Len(s)
      BY <1>3, <1>5, <2>1
    <2>3. \A i \in 1..Len(s) : i = 1 \/ (i - 1 \in DOMAIN fr /\ fr[i - 1] = s[i])
      BY <2>2
    <2>4. DOMAIN s = 1..Len(s)
      OBVIOUS
    <2>5. ASSUME NEW x PROVE x \in ToSet(s) <=> x = h \/ x \in ToSet(fr)
      <3>1. ASSUME x \in ToSet(s) PROVE x = h \/ x \in ToSet(fr)
        <4>1. PICK i \in 1..Len(s) : s[i] = x
          BY <2>4, <3>1 DEF ToSet
        <4>2. QED BY <2>2, <2>3, <4>1 DEF ToSet
      <3>2. ASSUME x \in ToSet(fr) PROVE x \in ToSet(s)
        <4>1. PICK i \in 1..(Len(s) - 1) : fr[i] = x
          BY <2>2, <3>2 DEF ToSet
        <4>2. QED BY <2>2, <2>4, <4>1 DEF ToSet
      <3>3. h \in ToSet(s)
        BY <2>2, <2>4 DEF ToSet
      <3>4. QED BY <3>1, <3>2, <3>3
    <2>6. QED BY <1>3, <2>1, <2>2, <2>5
  <1>7. \/ /\ known' = known \cup {h} /\ lossy' = lossy
           /\ crossed' = crossed \cup {v \in Watches \ {w} : h \in Finds[v] \ known}
        \/ known' = known /\ lossy' /\ crossed' = crossed
    BY <1>3 DEF UpsertListing
  <1>8. /\ pc' = [pc EXCEPT ![c] = stage] /\ page' = [page EXCEPT ![c] = pg] /\ todo' = [todo EXCEPT ![c] = td]
        /\ items' = [items EXCEPT ![c] = it] /\ fresh' = [fresh EXCEPT ![c] = fr] /\ more' = [more EXCEPT ![c] = mo]
        /\ UNCHANGED marketVars
        /\ known \subseteq known' /\ known' \subseteq seen /\ lossy' \in BOOLEAN /\ (lossy => lossy')
        /\ crossed \subseteq crossed'
    <2>1. known \subseteq seen /\ known \subseteq known' /\ known' \subseteq seen
      BY <1>6, <1>7, Untouched
    <2>2. lossy' \in BOOLEAN /\ (lossy => lossy')
      <3>1. CASE known' = known \cup {h} /\ lossy' = lossy
        BY <1>1, <3>1
      <3>2. CASE known' = known /\ lossy'
        BY <3>2 DEF UpsertListing
      <3>3. QED BY <1>7, <3>1, <3>2
    <2>a. crossed \subseteq crossed'
      BY <1>7
    <2>3. /\ pc' = pc /\ page' = page /\ todo' = todo /\ items' = items /\ more' = more
          /\ fresh' = [fresh EXCEPT ![c] = Tail(fresh[c])] /\ UNCHANGED marketVars
      BY DEF UpsertListing
    <2>4. QED BY <1>2, <1>5, <2>1, <2>2, <2>a, <2>3, Untouched
  <1>9. ASSUME pc'[c] = stage, page'[c] = pg, todo'[c] = td, items'[c] = it, fresh'[c] = fr, more'[c] = mo
        PROVE  /\ WalkOK(c)'
               /\ ~lossy' /\ pc[c] = "upsert" => ToSet(fresh[c]) \subseteq Safe'
               /\ ~lossy' /\ Safe \subseteq Safe' => CoverOK(c)' /\ (known' = known \/ KnownCovered')
    <2>1. Read(c)' = ToSet(fr) /\ Current(c)' = w
      <3>1. ToSet(it) = {}
        BY <1>5 DEF ToSet
      <3>2. Read(c)' = ToSet(fr) \cup ToSet(it)
        BY <1>9 DEF Read, ToSet
      <3>3. QED BY <1>3, <1>5, <1>9, <3>1, <3>2 DEF Current
    <2>2. WalkOK(c)'
      <3>1. todo'[c] # <<>> /\ pc'[c] = "upsert" /\ items'[c] = <<>>
        BY <1>2, <1>5, <1>9
      <3>2. Read(c)' \subseteq Finds[Current(c)']
        BY <1>4, <1>6, <2>1
      <3>3. QED BY <3>1, <3>2 DEF WalkOK
    <2>3. ASSUME ~lossy' PROVE  /\ ~lossy /\ known' = known \cup {h} /\ F \subseteq Safe'
                                 /\ crossed' = crossed \cup {v \in Watches \ {w} : h \in Finds[v] \ known}
      <3>1. /\ ~lossy /\ known' = known \cup {h}
            /\ crossed' = crossed \cup {v \in Watches \ {w} : h \in Finds[v] \ known}
        BY <1>7, <2>3
      <3>2. c \in Upserting' /\ ToSet(fresh[c])' = ToSet(fr)
        BY <1>5, <1>9 DEF Upserting, ToSet
      <3>3. ToSet(fr) \subseteq Safe' /\ known' \subseteq Safe'
        BY <3>2 DEF Safe
      <3>4. QED BY <1>6, <3>1, <3>3
    <2>4. ASSUME ~lossy', Safe \subseteq Safe' PROVE CoverOK(c)' /\ KnownCovered'
      <3>1. PICK S, S2 : S = Safe /\ S2 = Safe'
        OBVIOUS
      <3>2. /\ S \subseteq S2 /\ (w \notin crossed' => Covered(w, F, S))
            /\ \A v \in Watches \ crossed' : v \in Watches \ crossed /\ Covered(v, known \cap Finds[v], S)
        BY <1>1, <1>2, <1>3, <1>4, <1>8, <2>3, <2>4, <3>1 DEF CoverOK, ReadCovered, KnownCovered
      <3>3. \A v, m : m \in Hits(v)' <=> m \in Hits(v)
        BY <1>8 DEF Hits, marketVars
      <3>4. ASSUME Current(c)' \notin crossed' PROVE ReadCovered(c)'
        <4>1. PICK R : R = ToSet(fr)
          OBVIOUS
        <4>2. Covered(w, R, S2)'
          BY <1>6, <2>1, <3>2, <3>3, <3>4, <4>1 DEF Covered
        <4>3. QED BY <1>5, <1>9, <2>1, <3>1, <4>1, <4>2 DEF ReadCovered, Covered
      <3>5. ASSUME NEW v \in Watches \ crossed' PROVE Covered(v, known \cap Finds[v], Safe)'
        <4>1. PICK R : R = known' \cap Finds[v]
          OBVIOUS
        <4>2. ASSUME NEW l \in R, NEW m \in Hits(v), m < l PROVE m \in S2
          <5>1. CASE l \in known
            BY <3>2, <4>1, <4>2, <5>1 DEF Covered
          <5>2. CASE l = h /\ l \notin known
            <6>1. h \in Finds[v] /\ h \in Finds[w] /\ h \in F
              BY <1>4, <1>6, <4>1, <4>2, <5>2
            <6>2. v = w
              BY <2>3, <2>4, <3>5, <5>2, <6>1
            <6>3. QED BY <3>2, <4>2, <5>2, <6>1, <6>2 DEF Covered
          <5>3. QED BY <2>3, <2>4, <4>1, <5>1, <5>2
        <4>3. Covered(v, R, S2)'
          BY <3>3, <4>2 DEF Covered
        <4>4. QED BY <3>1, <4>1, <4>3 DEF Covered
      <3>6. QED BY <3>4, <3>5 DEF CoverOK, KnownCovered
    <2>5. QED BY <1>3, <2>2, <2>3, <2>4
  <1>10. QED BY <1>8, <1>9, GapFrame

LEMMA GapStep ==
    ASSUME newestFirst \in BOOLEAN, newestFirst', GapInv, [Next]_vars
    PROVE  GapInv'
  <1>1. CASE UNCHANGED vars
    <2>1. UNCHANGED <<market, seen, known, pc, todo, page, items, more, fresh, lossy, crossed>>
      BY <1>1 DEF vars, marketVars, cycleVars, orderVars
    <2>2. \A w : Hits(w)' = Hits(w)
      BY <2>1 DEF Hits
    <2>3. \A w, m : Newer(w, m)' = Newer(w, m)
      BY <2>2 DEF Newer
    <2>4. Safe' = Safe
      BY <2>1 DEF Safe, Upserting
    <2>5. MarketOK' /\ WalkTypes'
      BY <2>1 DEF GapInv, MarketOK, Descending, WalkTypes
    <2>6. ASSUME NEW c \in Cycles PROVE WalkOK(c)' /\ (~lossy' => CoverOK(c)')
      <3>1. Current(c)' = Current(c) /\ Read(c)' = Read(c)
        BY <2>1 DEF Current, Read
      <3>2. Later(c)' = Later(c)
        BY <2>1, <2>2, <2>3, <3>1 DEF Later
      <3>3. WalkOK(c)'
        BY <2>1, <3>1 DEF GapInv, WalkOK, Descending
      <3>4. ~lossy => CoverOK(c)
        BY DEF GapInv
      <3>5. QED BY <2>1, <2>2, <2>4, <3>1, <3>2, <3>3, <3>4 DEF CoverOK, ReadCovered, Covered
    <2>7. ~lossy' => KnownCovered'
      BY <2>1, <2>2, <2>4 DEF GapInv, KnownCovered, Covered
    <2>8. QED BY <2>5, <2>6, <2>7 DEF GapInv
  <1>2. ASSUME NEW c \in Cycles, CycleStep(c) \/ Crash(c)
        PROVE  GapInv'
    BY <1>2, BeginKeepsGap, NextWatchKeepsGap, SearchKeepsGap, CheckPageKeepsGap,
       UpsertListingKeepsGap, UpdateWatchLastPolledKeepsGap, CrashKeepsGap DEF CycleStep
  <1>3. ASSUME NEW l \in Listings, Listed(l) \/ Sold(l)
        PROVE  GapInv'
    BY <1>3, ListedKeepsGap, SoldKeepsGap
  <1>4. QED BY <1>1, <1>2, <1>3 DEF Next

LEMMA NothingYet == Init => GapInv
  <1> SUFFICES ASSUME Init PROVE GapInv
    OBVIOUS
  <1>1. MarketOK
    <2>1. seen = 1..0 /\ 0 \in Nat
      BY DEF Init
    <2>2. market \in Seq(seen) /\ Descending(market)
      BY DEF Init, Descending
    <2>3. QED BY <2>1, <2>2 DEF Init, MarketOK
  <1>2. WalkTypes
    <2>1. <<>> \in Seq(Watches) /\ <<>> \in Seq(seen) /\ 0 \in Nat
      OBVIOUS
    <2>2. QED BY <2>1 DEF Init, WalkTypes, CycleStages
  <1>3. \A c \in Cycles : WalkOK(c) /\ CoverOK(c)
    BY DEF Init, WalkOK, CoverOK, ReadCovered
  <1>4. KnownCovered
    BY DEF Init, KnownCovered, Covered
  <1>5. QED BY <1>1, <1>2, <1>3, <1>4 DEF GapInv

-----------------------------------------------------------------------------
\* GapInv holds for as long as new listings come up before older ones.
Gapless == newestFirst \in BOOLEAN /\ (newestFirst => GapInv)

\* Once it has come up in another order, it has.
LEMMA OrderLost ==
    ASSUME newestFirst \in BOOLEAN, [Next]_vars
    PROVE  newestFirst' \in BOOLEAN /\ (newestFirst' => newestFirst)
  <1>1. ASSUME NEW c \in Cycles, CycleStep(c) \/ Crash(c) PROVE newestFirst' = newestFirst
    BY <1>1 DEF CycleStep, Begin, NextWatch, Search, CheckPage, UpsertListing, UpdateWatchLastPolled,
                Crash, orderVars
  <1>2. ASSUME NEW l \in Listings, Sold(l) PROVE newestFirst' = newestFirst
    BY <1>2 DEF Sold, orderVars
  <1>3. ASSUME NEW l \in Listings, Listed(l) PROVE newestFirst' \in BOOLEAN /\ (newestFirst' => newestFirst)
    BY <1>3 DEF Listed
  <1>4. CASE UNCHANGED vars
    BY <1>4 DEF vars, orderVars
  <1>5. QED BY <1>1, <1>2, <1>3, <1>4 DEF Next

\* Whatever the other cycles and the faults do, what a cycle has read of a watch
\* leaves no gap before the pages it has still to read, while new listings come
\* up first and no listing of the watch was brought in by another one.
THEOREM GapInvariant == Spec => []Gapless
  <1>1. Init => Gapless
    BY NothingYet DEF Init, Gapless
  <1>2. Gapless /\ [Next]_vars => Gapless'
    <2> SUFFICES ASSUME Gapless, [Next]_vars PROVE Gapless'
      OBVIOUS
    <2>1. newestFirst \in BOOLEAN /\ newestFirst' \in BOOLEAN /\ (newestFirst' => newestFirst)
      BY OrderLost DEF Gapless
    <2>2. ASSUME newestFirst' PROVE GapInv'
      BY <2>1, <2>2, GapStep DEF Gapless
    <2>3. QED BY <2>1, <2>2 DEF Gapless
  <1>3. QED BY <1>1, <1>2, PTL DEF Spec

\* Stopping at the first listing that is known passes over none that is not:
\* while new listings come up first, nothing lossy happened, no cycle has listings
\* in hand and no other watch brought in one of this watch's, what eBay has of it
\* below a known listing is known.
THEOREM NothingIsPassedOver == Spec => []NoGap
  <1>1. Gapless => NoGap
    <2> SUFFICES ASSUME GapInv, newestFirst, ~lossy, \A c \in Cycles : fresh[c] = <<>>,
                        NEW w \in Watches \ crossed, NEW i \in DOMAIN Results(w), NEW k \in DOMAIN Results(w),
                        i < k, Results(w)[i] \in known
                 PROVE  Results(w)[k] \in known
      BY DEF Gapless, NoGap
    <2>1. MarketOK /\ Covered(w, known \cap Finds[w], Safe)
      BY DEF GapInv, KnownCovered
    <2>2. Safe = known
      BY DEF Safe, Upserting, ToSet
    <2>3. PICK r : r = Results(w)
      OBVIOUS
    <2>4. /\ r \in Seq(Hits(w)) /\ DOMAIN r = 1..Len(r) /\ Len(r) \in Nat
          /\ \A n \in 1..Len(r) : r[n] \in Hits(w) /\ Cardinality(Newer(w, r[n])) = n - 1
      BY <2>1, <2>3, ResultsAre
    <2>5. PICK l, m \in Hits(w) : l = r[i] /\ m = r[k]
      BY <2>3, <2>4
    <2>6. l \in Int /\ m \in Int /\ Cardinality(Newer(w, l)) = i - 1 /\ Cardinality(Newer(w, m)) = k - 1
      BY <2>1, <2>3, <2>4, <2>5, NewerOrder
    <2>7. i \in Int /\ k \in Int
      BY <2>3, <2>4
    <2>8. l # m
      BY <2>6, <2>7
    <2>9. ~(l < m)
      <3>1. l < m => Cardinality(Newer(w, m)) < Cardinality(Newer(w, l))
        BY <2>1, NewerOrder
      <3>2. QED BY <2>6, <2>7, <3>1
    <2>10. m < l
      BY <2>6, <2>8, <2>9
    <2>11. l \in Finds[w]
      BY <2>5 DEF Hits
    <2>12. m \in Safe
      BY <2>1, <2>3, <2>5, <2>10, <2>11 DEF Covered
    <2>13. QED BY <2>2, <2>3, <2>5, <2>12
  <1>2. QED BY <1>1, GapInvariant, PTL
=============================================================================
