-------------------------- MODULE JudgeWorkerProofs --------------------------
(***************************************************************************)
(* The bound on the judge's overspending, for any number of concurrent     *)
(* runs, any budget and any largest cost. The invariant counts the runs    *)
(* that have passed the check of the cap and not yet stored their verdict: *)
(* each of them has one verdict of overshoot still ahead of it.            *)
(*                                                                         *)
(* Then what a run that has the worker to itself gets right: it asks about *)
(* no alert twice, and the day's bill is the recorded spend, the verdict   *)
(* in hand and the verdicts that failures lost.                            *)
(***************************************************************************)
EXTENDS JudgeWorker, SequenceTheorems, FiniteSetTheorems, TLAPS

\* What the argument needs of the types of the worker's state.
BudgetTypes ==
    /\ spent \in Nat
    /\ pc \in [Runs -> {"idle", "list", "loop", "evaluate", "insert"}]
    /\ cost \in [Runs -> Costs]

BudgetInv == BudgetTypes /\ RoomForInFlight

\* Multiplication, once: a larger count of runs costs no less.
LEMMA TimesMonotone ==
    ASSUME NEW c \in Nat, NEW k \in Nat, NEW n \in Nat, k <= n
    PROVE  c * k \in Nat /\ c * n \in Nat /\ c * k <= c * n
<1>1. PICK d \in Nat : n = k + d
  BY n - k \in Nat, n = k + (n - k)
<1>2. c * k \in Nat /\ c * n \in Nat /\ c * d \in Nat
  OBVIOUS
<1>3. c * (k + d) = c * k + c * d
  OBVIOUS
<1> QED BY <1>1, <1>2, <1>3

\* Multiplication, twice: one run more is one verdict more.
LEMMA TimesSuccessor ==
    ASSUME NEW c \in Nat, NEW k \in Nat
    PROVE  c * (k + 1) = c * k + c
OBVIOUS

\* The runs in flight are some of the runs.
LEMMA InFlightCount ==
    ASSUME BudgetTypes
    PROVE  /\ IsFiniteSet(InFlight)
           /\ Cardinality(InFlight) \in Nat
           /\ Cardinality(Runs) \in Nat
           /\ Cardinality(InFlight) <= Cardinality(Runs)
<1>1. InFlight \subseteq Runs
  BY DEF InFlight
<1> QED BY <1>1, JudgeConstants, FS_Subset, FS_CardinalityType DEF JudgeConstants

\* Initially nothing has been spent and no run is in flight.
LEMMA InitBudget == Init => BudgetInv
<1> SUFFICES ASSUME Init PROVE BudgetInv
  OBVIOUS
<1>1. BudgetTypes
  BY JudgeConstants DEF Init, BudgetTypes, Costs, JudgeConstants
<1>2. InFlight = {}
  BY DEF Init, InFlight
<1>3. Cardinality(InFlight) = 0
  BY <1>2, FS_EmptySet
<1>4. MaxCost * 0 = 0 /\ MaxCost * Cardinality(Runs) \in Nat /\ Budget \in Nat
  BY <1>1, InFlightCount, JudgeConstants DEF JudgeConstants
<1> QED BY <1>1, <1>3, <1>4 DEF BudgetInv, RoomForInFlight, Init

\* A step that stores nothing and sends no further run past the check keeps the
\* invariant.
LEMMA FewerInFlight ==
    ASSUME BudgetInv, BudgetTypes', InFlight' \subseteq InFlight,
           spent' = spent \/ spent' = 0
    PROVE  RoomForInFlight'
<1>1. /\ IsFiniteSet(InFlight)
      /\ Cardinality(InFlight) \in Nat /\ Cardinality(Runs) \in Nat
  BY InFlightCount DEF BudgetInv
<1>2. Cardinality(InFlight') \in Nat /\ Cardinality(InFlight') <= Cardinality(InFlight)
  BY <1>1, FS_Subset, FS_CardinalityType
<1>3. /\ MaxCost \in Nat /\ Budget \in Nat
      /\ spent \in Nat
  BY JudgeConstants DEF JudgeConstants, BudgetInv, BudgetTypes
<1>4. /\ MaxCost * Cardinality(InFlight') \in Nat
      /\ MaxCost * Cardinality(InFlight) \in Nat
      /\ MaxCost * Cardinality(InFlight') <= MaxCost * Cardinality(InFlight)
  BY <1>1, <1>2, <1>3, TimesMonotone
<1>5. MaxCost * Cardinality(Runs) \in Nat
  BY <1>1, <1>3
<1>6. Budget > 0 => spent + MaxCost * Cardinality(InFlight)
                      < Budget + MaxCost * Cardinality(Runs)
  BY DEF BudgetInv, RoomForInFlight
<1> HIDE DEF InFlight
<1>7. Budget > 0 => spent' + MaxCost * Cardinality(InFlight')
                      < Budget + MaxCost * Cardinality(Runs)
  BY <1>3, <1>4, <1>5, <1>6
<1> QED BY <1>7 DEF RoomForInFlight

\* A run that passes the check found the recorded spend below the cap, so there
\* is room for every run at once.
LEMMA CheckedKeeps ==
    ASSUME BudgetInv, BudgetTypes', UnderBudget, spent' = spent
    PROVE  RoomForInFlight'
<1>1. /\ Cardinality(InFlight)' \in Nat /\ Cardinality(Runs) \in Nat
      /\ Cardinality(InFlight)' <= Cardinality(Runs)
  BY InFlightCount, InFlight' \subseteq Runs, JudgeConstants, FS_Subset,
     FS_CardinalityType DEF InFlight, JudgeConstants
<1>2. MaxCost \in Nat /\ Budget \in Nat /\ spent \in Nat
  BY JudgeConstants DEF JudgeConstants, BudgetInv, BudgetTypes
<1>3. /\ MaxCost * Cardinality(InFlight)' \in Nat
      /\ MaxCost * Cardinality(Runs) \in Nat
      /\ MaxCost * Cardinality(InFlight)' <= MaxCost * Cardinality(Runs)
  BY <1>1, <1>2, TimesMonotone
<1>4. Budget > 0 => spent < Budget
  BY <1>2 DEF UnderBudget
<1>5. Budget > 0 => spent' + MaxCost * Cardinality(InFlight)'
                      < Budget + MaxCost * Cardinality(Runs)
  BY <1>2, <1>3, <1>4
<1> QED BY <1>5 DEF RoomForInFlight

\* Storing a verdict takes one run out of flight and adds at most one verdict.
LEMMA StoredKeeps ==
    ASSUME BudgetInv, BudgetTypes', NEW r \in InFlight, InFlight' = InFlight \ {r},
           NEW c \in Costs, spent' = spent \/ spent' = spent + c
    PROVE  RoomForInFlight'
<1>1. /\ IsFiniteSet(InFlight)
      /\ Cardinality(InFlight) \in Nat /\ Cardinality(Runs) \in Nat
  BY InFlightCount DEF BudgetInv
<1>2. Cardinality(InFlight') = Cardinality(InFlight) - 1
  BY <1>1, FS_RemoveElement
<1>3. Cardinality(InFlight') \in Nat
  BY <1>1, FS_RemoveElement, FS_CardinalityType
<1>4. /\ MaxCost \in Nat /\ Budget \in Nat
      /\ spent \in Nat /\ c \in Nat /\ c <= MaxCost
  BY JudgeConstants DEF JudgeConstants, BudgetInv, BudgetTypes, Costs
<1>5. MaxCost * (Cardinality(InFlight') + 1) = MaxCost * Cardinality(InFlight') + MaxCost
  BY <1>3, <1>4, TimesSuccessor
<1>6. Cardinality(InFlight) = Cardinality(InFlight') + 1
  BY <1>1, <1>2
<1>7. /\ MaxCost * Cardinality(InFlight') \in Nat
      /\ MaxCost * Cardinality(Runs) \in Nat
      /\ MaxCost * Cardinality(InFlight) = MaxCost * Cardinality(InFlight') + MaxCost
  BY <1>1, <1>3, <1>4, <1>5, <1>6
<1>8. Budget > 0 => spent + MaxCost * Cardinality(InFlight)
                      < Budget + MaxCost * Cardinality(Runs)
  BY DEF BudgetInv, RoomForInFlight
<1>9. Budget > 0 => spent' + MaxCost * Cardinality(InFlight')
                      < Budget + MaxCost * Cardinality(Runs)
  BY <1>4, <1>7, <1>8
<1> QED BY <1>9 DEF RoomForInFlight

\* Every step of the worker keeps the invariant.
LEMMA NextBudget == BudgetInv /\ [Next]_vars => BudgetInv'
<1> SUFFICES ASSUME BudgetInv, [Next]_vars PROVE BudgetInv'
  OBVIOUS
<1> USE DEF BudgetInv
<1>0. spent \in Nat /\ MaxCost \in Nat
  BY JudgeConstants DEF JudgeConstants, BudgetTypes
<1>1. CASE UNCHANGED vars
  <2>1. BudgetTypes' /\ InFlight' = InFlight /\ spent' = spent
    BY <1>1 DEF vars, runVars, BudgetTypes, InFlight
  <2> QED BY <2>1, FewerInFlight
<1>2. ASSUME NEW r \in Runs, Begin(r) PROVE BudgetInv'
  <2>1. BudgetTypes'
    BY <1>2 DEF Begin, Goto, BudgetTypes
  <2>2. InFlight' \subseteq InFlight /\ spent' = spent
    BY <1>2 DEF Begin, Goto, InFlight, BudgetTypes
  <2> QED BY <2>1, <2>2, FewerInFlight
<1>3. ASSUME NEW r \in Runs, ListAlertsForJudging(r) PROVE BudgetInv'
  <2>1. BudgetTypes'
    BY <1>3 DEF ListAlertsForJudging, Goto, BudgetTypes
  <2>2. InFlight' \subseteq InFlight /\ spent' = spent
    BY <1>3 DEF ListAlertsForJudging, Goto, InFlight, BudgetTypes
  <2> QED BY <2>1, <2>2, FewerInFlight
<1>4. ASSUME NEW r \in Runs, CheckBudget(r) PROVE BudgetInv'
  <2>1. BudgetTypes' /\ spent' = spent
    BY <1>4 DEF CheckBudget, Return, Goto, BudgetTypes
  <2>2. CASE UnderBudget /\ todo[r] # <<>>
    BY <2>1, <2>2, CheckedKeeps
  <2>3. CASE ~(UnderBudget /\ todo[r] # <<>>)
    <3>1. InFlight' \subseteq InFlight
      BY <1>4, <2>3 DEF CheckBudget, Return, Goto, InFlight, BudgetTypes
    <3> QED BY <2>1, <3>1, FewerInFlight
  <2> QED BY <2>2, <2>3
<1>5. ASSUME NEW r \in Runs, EvaluateAlert(r) PROVE BudgetInv'
  <2>1. BudgetTypes' /\ spent' = spent
    BY <1>5 DEF EvaluateAlert, Skip, Goto, BudgetTypes
  <2>2. InFlight' \subseteq InFlight
    BY <1>5 DEF EvaluateAlert, Skip, Goto, InFlight, BudgetTypes
  <2> QED BY <2>1, <2>2, FewerInFlight
<1>6. ASSUME NEW r \in Runs, InsertJudgeScore(r) PROVE BudgetInv'
  <2>1. cost[r] \in Costs /\ cost[r] \in Nat /\ 0 \in Costs
    BY <1>0 DEF BudgetTypes, Costs
  <2>2. spent' = spent \/ spent' = spent + cost[r]
    BY <1>6 DEF InsertJudgeScore, Insert
  <2>3. spent' \in Nat
    BY <1>0, <2>1, <2>2
  <2>4. pc' = [pc EXCEPT ![r] = "loop"] /\ cost' = [cost EXCEPT ![r] = 0]
    BY <1>6 DEF InsertJudgeScore, Skip, Goto
  <2>5. BudgetTypes'
    BY <2>1, <2>3, <2>4 DEF BudgetTypes
  <2>6. r \in InFlight
    BY <1>6 DEF InsertJudgeScore, InFlight
  <2>7. InFlight' = InFlight \ {r}
    BY <2>4 DEF InFlight, BudgetTypes
  <2> QED BY <2>1, <2>2, <2>5, <2>6, <2>7, StoredKeeps
<1>7. ASSUME NEW r \in Runs, Crash(r) PROVE BudgetInv'
  <2>1. BudgetTypes' /\ spent' = spent
    BY <1>0, <1>7 DEF Crash, Return, Goto, BudgetTypes, Costs
  <2>2. InFlight' \subseteq InFlight
    BY <1>7 DEF Crash, Return, Goto, InFlight, BudgetTypes
  <2> QED BY <2>1, <2>2, FewerInFlight
<1>8. CASE CreateAlert \/ \E a \in Alerts : AgeOut(a)
  <2>1. BudgetTypes' /\ InFlight' = InFlight /\ spent' = spent
    BY <1>8 DEF CreateAlert, AgeOut, runVars, BudgetTypes, InFlight
  <2> QED BY <2>1, FewerInFlight
<1>9. CASE Midnight
  <2>1. BudgetTypes' /\ InFlight' = InFlight /\ spent' = 0
    BY <1>9 DEF Midnight, runVars, BudgetTypes, InFlight
  <2> QED BY <2>1, FewerInFlight
<1> QED BY <1>1, <1>2, <1>3, <1>4, <1>5, <1>6, <1>7, <1>8, <1>9 DEF Next, RunStep

\* The inductive invariant of the budget: whatever the runs do, there is room
\* below the bound for every verdict that is still on its way (checkBudget).
THEOREM BudgetInvariant == Spec => []RoomForInFlight
<1>1. BudgetInv => RoomForInFlight
  BY DEF BudgetInv
<1> QED BY <1>1, InitBudget, NextBudget, PTL DEF Spec

\* The recorded spend of a day never exceeds the cap by more than one verdict
\* for each concurrent call of Worker.Run.
THEOREM SpendingBounded == Spec => []OvershootBounded
<1>1. BudgetInv => OvershootBounded
  <2> SUFFICES ASSUME BudgetInv PROVE OvershootBounded
    OBVIOUS
  <2>1. /\ Cardinality(InFlight) \in Nat /\ Cardinality(Runs) \in Nat
        /\ MaxCost \in Nat /\ Budget \in Nat /\ spent \in Nat
    BY InFlightCount, JudgeConstants DEF JudgeConstants, BudgetInv, BudgetTypes
  <2>2. MaxCost * Cardinality(InFlight) \in Nat /\ MaxCost * Cardinality(Runs) \in Nat
    BY <2>1
  <2>3. Budget > 0 => spent + MaxCost * Cardinality(InFlight)
                        < Budget + MaxCost * Cardinality(Runs)
    BY DEF BudgetInv, RoomForInFlight
  <2>4. Budget > 0 => spent < Budget + MaxCost * Cardinality(Runs)
    BY <2>1, <2>2, <2>3
  <2> QED BY <2>4 DEF OvershootBounded
<1> QED BY <1>1, InitBudget, NextBudget, PTL DEF Spec

-----------------------------------------------------------------------------
(* A run that has the worker to itself.                                    *)

Alone == ~overlapped => \A r, q \in Runs : pc[r] # "idle" /\ pc[q] # "idle" => r = q

\* The candidates of a run, newest first.
Listing(r) ==
    /\ pc[r] \in {"evaluate", "insert"} => todo[r] # <<>>
    /\ \A i, k \in 1..Len(todo[r]) : i < k => todo[r][i] > todo[r][k]

\* None of them gets a verdict behind the back of the run.
Unjudged(r) ==
    ~overlapped /\ pc[r] \in {"loop", "evaluate", "insert"}
        => \A i \in 1..Len(todo[r]) : ~Judged(todo[r][i])

\* What failures may have cost.
Lost == MaxCost * faults

\* The bill of the day, r being the only run that may be in progress.
OwedBy(r) ==
    Budget > 0 /\ ~overlapped =>
        /\ spent < Budget + MaxCost
        /\ pc[r] \in {"evaluate", "insert"} => spent < Budget
        /\ pc[r] = "insert" => billed <= spent + cost[r] + Lost
        /\ pc[r] # "insert" => billed <= spent + Lost

Owed == \A r \in Runs : (\A q \in Runs \ {r} : pc[q] = "idle") => OwedBy(r)

JudgeInv == TypeOK /\ Alone /\ (\A r \in Runs : Listing(r) /\ Unjudged(r)) /\ Owed

\* The constants, and the money of a state.
LEMMA Amounts ==
    ASSUME TypeOK
    PROVE  /\ MaxCost \in Nat /\ Budget \in Nat /\ MaxAlerts \in Nat /\ MaxFaults \in Nat
           /\ spent \in Nat /\ billed \in Nat /\ faults \in Nat /\ Lost \in Nat
           /\ \A r \in Runs : cost[r] \in Nat /\ cost[r] <= MaxCost
           /\ 0 \in Costs
           /\ \A c \in Costs : c \in Nat /\ c <= MaxCost
           /\ faults' = faults => Lost' = Lost
           /\ faults' = faults + 1 => Lost' = Lost + MaxCost
  <1>1. MaxCost \in Nat /\ Budget \in Nat /\ MaxAlerts \in Nat /\ MaxFaults \in Nat
    BY JudgeConstants DEF JudgeConstants
  <1>2. spent \in Nat /\ billed \in Nat /\ faults \in Nat
    BY <1>1 DEF TypeOK
  <1>3. 0 \in Costs /\ \A c \in Costs : c \in Nat /\ c <= MaxCost
    BY <1>1 DEF Costs
  <1>4. \A r \in Runs : cost[r] \in Nat /\ cost[r] <= MaxCost
    BY <1>3 DEF TypeOK
  <1>5. Lost \in Nat
    BY <1>1, <1>2 DEF Lost
  <1>6. MaxCost * (faults + 1) = MaxCost * faults + MaxCost
    BY <1>1, <1>2, TimesSuccessor
  <1>7. QED BY <1>1, <1>2, <1>3, <1>4, <1>5, <1>6 DEF Lost

\* The candidates in hand.
LEMMA Hand ==
    ASSUME NEW s \in Seq(Alerts)
    PROVE  /\ Len(s) \in Nat /\ \A i \in 1..Len(s) : s[i] \in Alerts
           /\ s # <<>> => /\ Len(s) > 0 /\ Head(s) = s[1] /\ s[1] \in Alerts
                          /\ Tail(s) \in Seq(Alerts) /\ Len(Tail(s)) = Len(s) - 1
                          /\ \A i \in 1..Len(Tail(s)) : Tail(s)[i] = s[i + 1] /\ i + 1 \in 1..Len(s)
  <1>1. Len(s) \in Nat /\ \A i \in 1..Len(s) : s[i] \in Alerts
    BY LenProperties, ElementOfSeq
  <1>2. ASSUME s # <<>>
        PROVE  /\ Len(s) > 0 /\ Head(s) = s[1] /\ s[1] \in Alerts
               /\ Tail(s) \in Seq(Alerts) /\ Len(Tail(s)) = Len(s) - 1
               /\ \A i \in 1..Len(Tail(s)) : Tail(s)[i] = s[i + 1] /\ i + 1 \in 1..Len(s)
    <2>1. Len(s) > 0
      BY <1>1, <1>2, EmptySeq
    <2>2. Tail(s) \in Seq(Alerts) /\ Len(Tail(s)) = Len(s) - 1 /\ Head(s) = s[1]
      BY <1>2, HeadTailProperties
    <2>3. \A i \in 1..Len(Tail(s)) : Tail(s)[i] = s[i + 1]
      BY <1>2, HeadTailProperties
    <2>4. \A i \in 1..Len(Tail(s)) : i + 1 \in 1..Len(s)
      BY <1>1, <2>2
    <2>5. QED BY <1>1, <2>1, <2>2, <2>3, <2>4
  <1>3. QED BY <1>1, <1>2

\* ListAlertsForJudging returns candidates, in falling order.
LEMMA Listed ==
    ASSUME NEW S \in SUBSET Alerts, NEW rows \in NewestFirst(S)
    PROVE  /\ rows \in Seq(Alerts)
           /\ \A i \in 1..Len(rows) : rows[i] \in S
           /\ \A i, k \in 1..Len(rows) : i < k => rows[i] > rows[k]
  <1> DEFINE n == IF Cardinality(S) < BatchSize THEN Cardinality(S) ELSE BatchSize
  <1>1. MaxAlerts \in Nat /\ BatchSize \in Nat
    BY JudgeConstants DEF JudgeConstants
  <1>2. IsFiniteSet(Alerts)
    BY <1>1, FS_Interval DEF Alerts
  <1>3. Cardinality(S) \in Nat
    BY <1>2, FS_Subset, FS_CardinalityType
  <1>4. n \in Nat
    BY <1>1, <1>3
  <1>5. rows \in [1..n -> S] /\ \A i, k \in 1..n : i < k => rows[i] > rows[k]
    BY DEF NewestFirst
  <1> HIDE DEF n
  <1>6. rows \in [1..n -> Alerts]
    BY <1>5
  <1>7. rows \in Seq(Alerts)
    BY <1>4, <1>6, SeqDef
  <1>8. Len(rows) = n
    BY <1>4, <1>6, <1>7, LenProperties
  <1>9. QED BY <1>5, <1>7, <1>8

LEMMA InitJudge == Init => JudgeInv
  <1> SUFFICES ASSUME Init PROVE JudgeInv
    OBVIOUS
  <1>1. /\ MaxCost \in Nat /\ Budget \in Nat /\ MaxAlerts \in Nat /\ MaxFaults \in Nat /\ MaxCost * 0 = 0
    BY JudgeConstants DEF JudgeConstants
  <1>2. TypeOK
    <2>1. /\ created \in 0..MaxAlerts /\ aged \subseteq Alerts /\ spent \in Nat /\ billed \in Nat
          /\ faults \in 0..MaxFaults
      BY <1>1 DEF Init
    <2>5. overlapped \in BOOLEAN
      BY Zenon DEF Init
    <2>2. scores \in [Alerts -> {<<>>} \cup {<<c>> : c \in Costs}]
      BY DEF Init
    <2>3. todo \in [Runs -> Seq(Alerts)]
      BY EmptySeq DEF Init
    <2>4. cost \in [Runs -> Costs] /\ pc \in [Runs -> {"idle", "list", "loop", "evaluate", "insert"}]
      BY <1>1 DEF Init, Costs
    <2>6. QED BY <2>1, <2>2, <2>3, <2>4, <2>5 DEF TypeOK
  <1>3. Alone /\ \A r \in Runs : Listing(r) /\ Unjudged(r)
    BY EmptySeq DEF Init, Alone, Listing, Unjudged
  <1>4. Owed
    BY <1>1 DEF Init, Owed, OwedBy, Lost
  <1>5. QED BY <1>2, <1>3, <1>4 DEF JudgeInv

\* A step of run r: the others stay where they are.
LEMMA RunFrame ==
    ASSUME JudgeInv, NEW r \in Runs, TypeOK',
           \A q \in Runs \ {r} : pc'[q] = pc[q] /\ todo'[q] = todo[q] /\ cost'[q] = cost[q],
           ~overlapped' => ~overlapped /\ \A q \in Runs \ {r} : pc[q] = "idle",
           Listing(r)', Unjudged(r)', OwedBy(r)'
    PROVE  JudgeInv'
  <1>1. Alone'
    BY DEF Alone
  <1>2. \A q \in Runs : Listing(q)' /\ Unjudged(q)'
    <2> TAKE q \in Runs
    <2>1. CASE q = r
      BY <2>1
    <2>2. CASE q # r
      BY <2>2 DEF JudgeInv, Listing, Unjudged
    <2>3. QED BY <2>1, <2>2
  <1>3. Owed'
    <2>1. ASSUME NEW q \in Runs, q # r, ~overlapped', pc'[r] = "idle" PROVE OwedBy(q)'
      <3>1. pc'[q] = "idle"
        BY <2>1
      <3>2. QED BY <2>1, <3>1 DEF OwedBy
    <2>2. ASSUME NEW q \in Runs, overlapped' PROVE OwedBy(q)'
      BY <2>2 DEF OwedBy
    <2>3. QED BY <2>1, <2>2 DEF Owed
  <1>4. QED BY <1>1, <1>2, <1>3 DEF JudgeInv

\* What a run that is under way may rely on.
LEMMA RunOf ==
    ASSUME JudgeInv, NEW r \in Runs
    PROVE  /\ TypeOK /\ Listing(r) /\ Unjudged(r)
           /\ todo[r] \in Seq(Alerts) /\ cost[r] \in Costs
           /\ ~overlapped /\ pc[r] # "idle" => \A q \in Runs \ {r} : pc[q] = "idle"
           /\ (\A q \in Runs \ {r} : pc[q] = "idle") => OwedBy(r)
           /\ pc[r] # "idle" => OwedBy(r)
  <1>1. ~overlapped /\ pc[r] # "idle" => \A q \in Runs \ {r} : pc[q] = "idle"
    BY DEF JudgeInv, Alone
  <1>2. (\A q \in Runs \ {r} : pc[q] = "idle") => OwedBy(r)
    BY DEF JudgeInv, Owed
  <1>3. overlapped => OwedBy(r)
    BY DEF OwedBy
  <1>4. QED BY <1>1, <1>2, <1>3 DEF JudgeInv, TypeOK

\* Candidates after the head has been handled.
LEMMA TailListed ==
    ASSUME NEW s \in Seq(Alerts), s # <<>>, \A i, k \in 1..Len(s) : i < k => s[i] > s[k]
    PROVE  /\ \A i, k \in 1..Len(Tail(s)) : i < k => Tail(s)[i] > Tail(s)[k]
           /\ \A i \in 1..Len(Tail(s)) : Tail(s)[i] # Head(s) /\ \E k \in 1..Len(s) : Tail(s)[i] = s[k]
  <1>1. /\ Len(s) \in Nat /\ Len(s) > 0 /\ Head(s) = s[1] /\ s[1] \in Nat /\ Len(Tail(s)) \in Nat
        /\ \A i \in 1..Len(Tail(s)) : Tail(s)[i] = s[i + 1] /\ i + 1 \in 1..Len(s)
    BY Hand, LenProperties, JudgeConstants DEF Alerts
  <1>2. \A i, k \in 1..Len(Tail(s)) : i < k => i + 1 < k + 1
    BY <1>1
  <1>3. \A i \in 1..Len(Tail(s)) : 1 \in 1..Len(s) /\ 1 < i + 1 /\ s[i + 1] \in Nat
    BY <1>1, Hand, JudgeConstants DEF Alerts
  <1>4. \A i, k \in 1..Len(Tail(s)) : i < k => Tail(s)[i] > Tail(s)[k]
    BY <1>1, <1>2
  <1>5. \A i \in 1..Len(Tail(s)) : s[1] > s[i + 1]
    BY <1>1, <1>3
  <1>6. \A i \in 1..Len(Tail(s)) : Tail(s)[i] # Head(s)
    BY <1>1, <1>3, <1>5
  <1>7. QED BY <1>1, <1>4, <1>6

LEMMA BeginKeeps ==
    ASSUME JudgeInv, NEW r \in Runs, Begin(r)
    PROVE  JudgeInv'
  <1>1. /\ pc[r] = "idle" /\ UnderBudget /\ pc' = [pc EXCEPT ![r] = "list"]
        /\ overlapped' = (overlapped \/ \E q \in Runs \ {r} : pc[q] # "idle")
        /\ UNCHANGED <<created, aged, scores, spent, billed, todo, cost, faults>>
    BY DEF Begin, Goto
  <1>2. TypeOK /\ Listing(r) /\ Lost' = Lost
    BY <1>1, RunOf DEF Lost
  <1>3. TypeOK'
    <2>1. pc' \in [Runs -> {"idle", "list", "loop", "evaluate", "insert"}]
      BY <1>1, <1>2 DEF TypeOK
    <2>2. overlapped' \in BOOLEAN
      BY <1>1, Zenon
    <2>3. QED BY <1>1, <1>2, <2>1, <2>2 DEF TypeOK
  <1>4. pc'[r] = "list" /\ \A q \in Runs \ {r} : pc'[q] = pc[q]
    BY <1>1, <1>2 DEF TypeOK
  <1>5. ~overlapped' => ~overlapped /\ \A q \in Runs \ {r} : pc[q] = "idle"
    BY <1>1
  <1>6. Listing(r)' /\ Unjudged(r)'
    BY <1>1, <1>2, <1>4 DEF Listing, Unjudged
  <1>7. OwedBy(r)'
    <2>1. CASE overlapped'
      BY <2>1 DEF OwedBy
    <2>2. CASE ~overlapped'
      <3>1. OwedBy(r) /\ ~overlapped
        BY <1>5, <2>2, RunOf
      <3>2. QED BY <1>1, <1>2, <1>4, <3>1 DEF OwedBy
    <2>3. QED BY <2>1, <2>2
  <1>8. QED BY <1>1, <1>3, <1>4, <1>5, <1>6, <1>7, RunFrame

\* A run that is under way takes a step that leaves the table alone: what the
\* frame asks of it.
LEMMA RunStepFrame ==
    ASSUME JudgeInv, NEW r \in Runs, pc[r] # "idle",
           NEW at \in {"idle", "list", "loop", "evaluate", "insert"}, NEW s \in Seq(Alerts), NEW c \in Costs,
           pc' = [pc EXCEPT ![r] = at], todo' = [todo EXCEPT ![r] = s], cost' = [cost EXCEPT ![r] = c],
           faults' = faults \/ (faults' = faults + 1 /\ faults < MaxFaults),
           UNCHANGED <<created, aged, overlapped>>,
           scores' \in [Alerts -> {<<>>} \cup {<<x>> : x \in Costs}], spent' \in Nat, billed' \in Nat,
           pc'[r] = at /\ todo'[r] = s /\ cost'[r] = c => Listing(r)' /\ Unjudged(r)' /\ OwedBy(r)'
    PROVE  JudgeInv'
  <1>1. TypeOK
    BY RunOf
  <1>2. TypeOK'
    <2>1. pc' \in [Runs -> {"idle", "list", "loop", "evaluate", "insert"}]
      BY <1>1 DEF TypeOK
    <2>2. todo' \in [Runs -> Seq(Alerts)]
      BY <1>1 DEF TypeOK
    <2>3. cost' \in [Runs -> Costs]
      BY <1>1 DEF TypeOK
    <2>4. faults' \in 0..MaxFaults
      BY <1>1, Amounts DEF TypeOK
    <2>5. created' \in 0..MaxAlerts /\ aged' \subseteq Alerts /\ overlapped' \in BOOLEAN
      BY <1>1 DEF TypeOK
    <2>6. QED BY <2>1, <2>2, <2>3, <2>4, <2>5 DEF TypeOK
  <1>3. /\ pc'[r] = at /\ todo'[r] = s /\ cost'[r] = c
        /\ \A q \in Runs \ {r} : pc'[q] = pc[q] /\ todo'[q] = todo[q] /\ cost'[q] = cost[q]
    BY <1>1 DEF TypeOK
  <1>4. ~overlapped' => ~overlapped /\ \A q \in Runs \ {r} : pc[q] = "idle"
    BY RunOf
  <1>5. QED BY <1>2, <1>3, <1>4, RunFrame

\* The same values again.
LEMMA SameLocals ==
    ASSUME JudgeInv, NEW r \in Runs
    PROVE  /\ [pc EXCEPT ![r] = pc[r]] = pc /\ [todo EXCEPT ![r] = todo[r]] = todo
           /\ [cost EXCEPT ![r] = cost[r]] = cost
           /\ todo[r] \in Seq(Alerts) /\ cost[r] \in Costs /\ <<>> \in Seq(Alerts) /\ Len(<<>>) = 0
           /\ scores \in [Alerts -> {<<>>} \cup {<<x>> : x \in Costs}] /\ spent \in Nat /\ billed \in Nat
  <1>1. TypeOK
    BY DEF JudgeInv
  <1>2. /\ [pc EXCEPT ![r] = pc[r]] = pc /\ [todo EXCEPT ![r] = todo[r]] = todo
        /\ [cost EXCEPT ![r] = cost[r]] = cost
    BY <1>1 DEF TypeOK
  <1>3. todo[r] \in Seq(Alerts) /\ cost[r] \in Costs
    BY <1>1 DEF TypeOK
  <1>4. QED BY <1>1, <1>2, <1>3, EmptySeq DEF TypeOK

\* A run returns, or goes on with the loop, having billed and stored nothing.
LEMMA ReturnFits ==
    ASSUME JudgeInv, NEW r \in Runs, pc[r] # "idle", pc[r] # "insert", UNCHANGED <<spent, billed, overlapped>>,
           faults' = faults \/ faults' = faults + 1,
           pc'[r] = "idle", todo'[r] = <<>>
    PROVE  Listing(r)' /\ Unjudged(r)' /\ OwedBy(r)'
  <1>1. TypeOK /\ OwedBy(r)
    BY RunOf
  <1>2. Listing(r)' /\ Unjudged(r)'
    BY SameLocals DEF Listing, Unjudged
  <1>3. Lost \in Nat /\ Lost' \in Nat /\ Lost' >= Lost /\ spent \in Nat /\ billed \in Nat
    BY <1>1, Amounts
  <1>4. OwedBy(r)'
    <2> SUFFICES ASSUME Budget > 0, ~overlapped'
                 PROVE  spent' < Budget + MaxCost /\ billed' <= spent' + Lost'
      BY DEF OwedBy
    <2>1. spent < Budget + MaxCost /\ billed <= spent + Lost /\ spent' = spent /\ billed' = billed
      BY <1>1 DEF OwedBy
    <2>2. billed <= spent + Lost'
      BY <1>3, <2>1
    <2>3. QED BY <2>1, <2>2
  <1>5. QED BY <1>2, <1>4

LEMMA ListKeeps ==
    ASSUME JudgeInv, NEW r \in Runs, ListAlertsForJudging(r)
    PROVE  JudgeInv'
  <1>1. /\ pc[r] = "list" /\ pc[r] # "idle" /\ pc[r] # "insert"
        /\ UNCHANGED <<created, aged, overlapped, scores, spent, billed, cost>>
    BY DEF ListAlertsForJudging
  <1>2. TypeOK /\ OwedBy(r) /\ Listing(r)
    BY <1>1, RunOf
  <1>3. /\ cost' = [cost EXCEPT ![r] = cost[r]] /\ cost[r] \in Costs /\ todo[r] \in Seq(Alerts)
        /\ scores' \in [Alerts -> {<<>>} \cup {<<x>> : x \in Costs}] /\ spent' \in Nat /\ billed' \in Nat
        /\ UNCHANGED <<created, aged, overlapped>> /\ UNCHANGED <<spent, billed, overlapped>>
    BY <1>1, SameLocals
  <1>4. CASE /\ \E rows \in NewestFirst(Candidates) : todo' = [todo EXCEPT ![r] = rows]
             /\ Goto(r, "loop") /\ UNCHANGED faults
    <2>1. Candidates \in SUBSET Alerts
      BY <1>2, Amounts DEF Candidates, Alerts, TypeOK
    <2>2. PICK rows \in NewestFirst(Candidates) : todo' = [todo EXCEPT ![r] = rows]
      BY <1>4
    <2>3. /\ rows \in Seq(Alerts) /\ \A i \in 1..Len(rows) : rows[i] \in Candidates
          /\ \A i, k \in 1..Len(rows) : i < k => rows[i] > rows[k]
      BY <2>1, Listed
    <2>4. \A i \in 1..Len(rows) : ~Judged(rows[i])
      BY <2>3 DEF Candidates
    <2>5. pc' = [pc EXCEPT ![r] = "loop"] /\ faults' = faults /\ Lost' = Lost
      BY <1>2, <1>4, Amounts DEF Goto
    <2>6. ASSUME pc'[r] = "loop", todo'[r] = rows PROVE Listing(r)' /\ Unjudged(r)' /\ OwedBy(r)'
      <3>1. Listing(r)'
        BY <2>3, <2>6 DEF Listing
      <3>2. Unjudged(r)'
        BY <1>1, <2>4, <2>6 DEF Unjudged, Judged
      <3>3. OwedBy(r)'
        BY <1>1, <1>2, <1>3, <2>5, <2>6 DEF OwedBy
      <3>4. QED BY <3>1, <3>2, <3>3
    <2>7. QED BY <1>1, <1>3, <2>2, <2>3, <2>5, <2>6, RunStepFrame
  <1>5. CASE Glitch /\ Goto(r, "idle") /\ UNCHANGED todo
    <2>1. /\ pc' = [pc EXCEPT ![r] = "idle"] /\ todo' = [todo EXCEPT ![r] = todo[r]]
          /\ faults' = faults + 1 /\ faults < MaxFaults
      BY <1>5, SameLocals DEF Goto, Glitch
    <2>2. ASSUME pc'[r] = "idle", todo'[r] = todo[r] PROVE Listing(r)' /\ Unjudged(r)' /\ OwedBy(r)'
      <3>1. Listing(r)' /\ Unjudged(r)'
        BY <1>2, <2>2 DEF Listing, Unjudged
      <3>2. OwedBy(r)'
        <4> SUFFICES ASSUME Budget > 0, ~overlapped'
                     PROVE  spent' < Budget + MaxCost /\ billed' <= spent' + Lost'
          BY <2>2 DEF OwedBy
        <4>1. spent < Budget + MaxCost /\ billed <= spent + Lost /\ spent' = spent /\ billed' = billed
          BY <1>1, <1>2 DEF OwedBy
        <4>2. billed <= spent + Lost'
          BY <1>2, <2>1, <4>1, Amounts
        <4>3. QED BY <4>1, <4>2
      <3>3. QED BY <3>1, <3>2
    <2>3. QED BY <1>1, <1>3, <2>1, <2>2, RunStepFrame
  <1>6. QED BY <1>4, <1>5 DEF ListAlertsForJudging

LEMMA CheckBudgetKeeps ==
    ASSUME JudgeInv, NEW r \in Runs, CheckBudget(r)
    PROVE  JudgeInv'
  <1>1. /\ pc[r] = "loop" /\ pc[r] # "idle" /\ pc[r] # "insert"
        /\ UNCHANGED <<created, aged, overlapped, scores, spent, billed, cost>>
    BY DEF CheckBudget
  <1>2. TypeOK /\ OwedBy(r) /\ Listing(r) /\ Unjudged(r)
    BY <1>1, RunOf
  <1>3. /\ cost' = [cost EXCEPT ![r] = cost[r]] /\ cost[r] \in Costs
        /\ scores' \in [Alerts -> {<<>>} \cup {<<x>> : x \in Costs}] /\ spent' \in Nat /\ billed' \in Nat
        /\ UNCHANGED <<created, aged, overlapped>> /\ UNCHANGED <<spent, billed, overlapped>>
    BY <1>1, SameLocals
  <1>4. CASE todo[r] # <<>> /\ UnderBudget /\ Goto(r, "evaluate") /\ UNCHANGED <<todo, faults>>
    <2>1. /\ pc' = [pc EXCEPT ![r] = "evaluate"] /\ todo' = [todo EXCEPT ![r] = todo[r]] /\ todo[r] \in Seq(Alerts)
          /\ faults' = faults /\ Lost' = Lost
      BY <1>2, <1>4, Amounts, SameLocals DEF Goto
    <2>2. ASSUME pc'[r] = "evaluate", todo'[r] = todo[r] PROVE Listing(r)' /\ Unjudged(r)' /\ OwedBy(r)'
      <3>1. Listing(r)'
        BY <1>2, <1>4, <2>2 DEF Listing
      <3>2. Unjudged(r)'
        BY <1>1, <1>2, <2>2 DEF Unjudged, Judged
      <3>3. Budget > 0 => spent < Budget
        BY <1>2, <1>4, Amounts DEF UnderBudget
      <3>4. OwedBy(r)'
        BY <1>1, <1>2, <2>1, <2>2, <3>3 DEF OwedBy
      <3>5. QED BY <3>1, <3>2, <3>4
    <2>3. QED BY <1>1, <1>3, <2>1, <2>2, RunStepFrame
  <1>5. CASE Return(r) /\ (UNCHANGED faults \/ Glitch)
    <2>1. /\ pc' = [pc EXCEPT ![r] = "idle"] /\ todo' = [todo EXCEPT ![r] = <<>>] /\ <<>> \in Seq(Alerts)
          /\ faults' = faults \/ (faults' = faults + 1 /\ faults < MaxFaults)
      BY <1>5, SameLocals DEF Goto, Glitch, Return
    <2>2. pc'[r] = "idle" /\ todo'[r] = <<>> => Listing(r)' /\ Unjudged(r)' /\ OwedBy(r)'
      BY <1>1, <1>3, <2>1, ReturnFits
    <2>3. QED BY <1>1, <1>3, <2>1, <2>2, RunStepFrame
  <1>6. QED BY <1>4, <1>5 DEF CheckBudget

\* Skip: the candidates that are left.
LEMMA SkipFits ==
    ASSUME JudgeInv, NEW r \in Runs, pc[r] \in {"evaluate", "insert"}, UNCHANGED overlapped,
           \A a \in Alerts : Judged(a)' => Judged(a) \/ a = Head(todo[r]),
           pc'[r] = "loop", todo'[r] = Tail(todo[r])
    PROVE  Listing(r)' /\ Unjudged(r)'
  <1>1. Listing(r) /\ Unjudged(r) /\ todo[r] \in Seq(Alerts) /\ todo[r] # <<>>
    BY RunOf DEF Listing
  <1>2. /\ \A i, k \in 1..Len(todo[r]) : i < k => todo[r][i] > todo[r][k]
        /\ ~overlapped => \A i \in 1..Len(todo[r]) : ~Judged(todo[r][i])
        /\ \A i \in 1..Len(todo[r]) : todo[r][i] \in Alerts
    BY <1>1, Hand DEF Listing, Unjudged
  <1>3. /\ \A i, k \in 1..Len(Tail(todo[r])) : i < k => Tail(todo[r])[i] > Tail(todo[r])[k]
        /\ \A i \in 1..Len(Tail(todo[r])) : /\ Tail(todo[r])[i] # Head(todo[r])
                                            /\ \E k \in 1..Len(todo[r]) : Tail(todo[r])[i] = todo[r][k]
    BY <1>1, <1>2, TailListed
  <1>4. Listing(r)'
    BY <1>3 DEF Listing
  <1>5. ASSUME ~overlapped, NEW i \in 1..Len(Tail(todo[r])) PROVE scores'[Tail(todo[r])[i]] = <<>>
    <2>1. PICK k \in 1..Len(todo[r]) : Tail(todo[r])[i] = todo[r][k]
      BY <1>3
    <2>2. todo[r][k] \in Alerts /\ ~Judged(todo[r][k]) /\ todo[r][k] # Head(todo[r])
      BY <1>2, <1>3, <1>5, <2>1
    <2>3. scores'[todo[r][k]] = <<>>
      BY <2>2 DEF Judged
    <2>4. QED BY <2>1, <2>3
  <1>6. Unjudged(r)'
    BY <1>5 DEF Unjudged, Judged
  <1>7. QED BY <1>4, <1>6

LEMMA EvaluateKeeps ==
    ASSUME JudgeInv, NEW r \in Runs, EvaluateAlert(r)
    PROVE  JudgeInv'
  <1>1. /\ pc[r] = "evaluate" /\ pc[r] # "idle" /\ UNCHANGED <<created, aged, overlapped, scores, spent>>
    BY DEF EvaluateAlert
  <1>2. TypeOK /\ OwedBy(r) /\ Listing(r) /\ Unjudged(r) /\ todo[r] \in Seq(Alerts) /\ todo[r] # <<>>
    BY <1>1, RunOf DEF Listing
  <1>3. PICK c \in Costs :
          /\ billed' = billed + c
          /\ \/ /\ cost' = [cost EXCEPT ![r] = c]
                /\ Goto(r, "insert")
                /\ UNCHANGED <<todo, faults>>
             \/ Glitch /\ Skip(r) /\ UNCHANGED cost
    BY DEF EvaluateAlert
  <1>4. /\ scores' \in [Alerts -> {<<>>} \cup {<<x>> : x \in Costs}] /\ spent' \in Nat
        /\ UNCHANGED <<created, aged, overlapped>>
    BY <1>1, SameLocals
  <1>5. c \in Nat /\ c <= MaxCost /\ spent \in Nat /\ billed \in Nat /\ Lost \in Nat /\ billed' \in Nat
    BY <1>2, <1>3, Amounts
  <1>6. Budget > 0 /\ ~overlapped => spent < Budget /\ spent < Budget + MaxCost /\ billed <= spent + Lost
    BY <1>1, <1>2 DEF OwedBy
  <1>7. CASE cost' = [cost EXCEPT ![r] = c] /\ Goto(r, "insert") /\ UNCHANGED <<todo, faults>>
    <2>1. /\ pc' = [pc EXCEPT ![r] = "insert"] /\ todo' = [todo EXCEPT ![r] = todo[r]]
          /\ faults' = faults /\ Lost' = Lost
      BY <1>2, <1>7, Amounts, SameLocals DEF Goto
    <2>2. ASSUME pc'[r] = "insert", todo'[r] = todo[r], cost'[r] = c
          PROVE  Listing(r)' /\ Unjudged(r)' /\ OwedBy(r)'
      <3>1. Listing(r)'
        BY <1>2, <2>2 DEF Listing
      <3>2. Unjudged(r)'
        BY <1>1, <1>2, <2>2 DEF Unjudged, Judged
      <3>3. Budget > 0 /\ ~overlapped => billed' <= spent + c + Lost
        BY <1>3, <1>5, <1>6
      <3>4. OwedBy(r)'
        BY <1>1, <1>6, <2>1, <2>2, <3>3 DEF OwedBy
      <3>5. QED BY <3>1, <3>2, <3>4
    <2>3. QED BY <1>1, <1>2, <1>4, <1>5, <1>7, <2>1, <2>2, RunStepFrame
  <1>8. CASE Glitch /\ Skip(r) /\ UNCHANGED cost
    <2>1. /\ pc' = [pc EXCEPT ![r] = "loop"] /\ todo' = [todo EXCEPT ![r] = Tail(todo[r])]
          /\ faults' = faults + 1 /\ faults < MaxFaults /\ cost' = [cost EXCEPT ![r] = cost[r]] /\ cost[r] \in Costs
      BY <1>8, SameLocals DEF Goto, Skip, Glitch
    <2>2. Tail(todo[r]) \in Seq(Alerts) /\ Lost' = Lost + MaxCost /\ MaxCost \in Nat
      BY <1>2, <2>1, Hand, Amounts
    <2>3. ASSUME pc'[r] = "loop", todo'[r] = Tail(todo[r])
          PROVE  Listing(r)' /\ Unjudged(r)' /\ OwedBy(r)'
      <3>1. Listing(r)' /\ Unjudged(r)'
        BY <1>1, <2>3, SkipFits DEF Judged
      <3>2. Budget > 0 /\ ~overlapped => billed' <= spent + Lost'
        BY <1>3, <1>5, <1>6, <2>2
      <3>3. OwedBy(r)'
        BY <1>1, <1>6, <2>3, <3>2 DEF OwedBy
      <3>4. QED BY <3>1, <3>3
    <2>4. QED BY <1>1, <1>4, <1>5, <2>1, <2>2, <2>3, RunStepFrame
  <1>9. QED BY <1>3, <1>7, <1>8

LEMMA InsertKeeps ==
    ASSUME JudgeInv, NEW r \in Runs, InsertJudgeScore(r)
    PROVE  JudgeInv'
  <1>1. /\ pc[r] = "insert" /\ pc[r] # "idle" /\ UNCHANGED <<created, aged, overlapped, billed>>
        /\ pc' = [pc EXCEPT ![r] = "loop"] /\ todo' = [todo EXCEPT ![r] = Tail(todo[r])]
        /\ cost' = [cost EXCEPT ![r] = 0]
        /\ \/ Insert(Head(todo[r]), cost[r]) /\ UNCHANGED faults
           \/ faults < MaxFaults /\ faults' = faults + 1 /\ UNCHANGED <<scores, spent>>
    BY DEF InsertJudgeScore, Skip, Goto, Glitch
  <1>2. TypeOK /\ OwedBy(r) /\ Listing(r) /\ Unjudged(r) /\ todo[r] \in Seq(Alerts) /\ todo[r] # <<>>
    BY <1>1, RunOf DEF Listing
  <1>3. /\ Tail(todo[r]) \in Seq(Alerts) /\ Head(todo[r]) = todo[r][1] /\ todo[r][1] \in Alerts
        /\ Len(todo[r]) \in Nat /\ Len(todo[r]) > 0
    BY <1>2, Hand
  <1>4. /\ cost[r] \in Nat /\ cost[r] <= MaxCost /\ spent \in Nat /\ billed \in Nat /\ Lost \in Nat
        /\ MaxCost \in Nat /\ Budget \in Nat /\ 0 \in Costs /\ cost[r] \in Costs
        /\ faults' = faults => Lost' = Lost
        /\ faults' = faults + 1 => Lost' = Lost + MaxCost
    BY <1>2, Amounts, SameLocals
  <1>5. /\ Budget > 0 /\ ~overlapped => spent < Budget /\ billed <= spent + cost[r] + Lost
        /\ ~overlapped => ~Judged(Head(todo[r]))
    BY <1>1, <1>2, <1>3 DEF OwedBy, Unjudged
  <1>6. /\ faults' = faults \/ (faults' = faults + 1 /\ faults < MaxFaults)
        /\ UNCHANGED <<created, aged, overlapped>> /\ billed' \in Nat
    BY <1>1, <1>4
  <1>7. /\ scores' \in [Alerts -> {<<>>} \cup {<<x>> : x \in Costs}]
        /\ \A a \in Alerts : scores'[a] # <<>> => scores[a] # <<>> \/ a = Head(todo[r])
    <2>1. scores \in [Alerts -> {<<>>} \cup {<<x>> : x \in Costs}]
      BY SameLocals
    <2>2. CASE scores' = scores
      BY <2>1, <2>2
    <2>3. CASE scores' = [scores EXCEPT ![Head(todo[r])] = <<cost[r]>>]
      <3>1. <<cost[r]>> \in {<<x>> : x \in Costs}
        BY <1>4
      <3>2. QED BY <1>3, <2>1, <2>3, <3>1
    <2>4. QED BY <1>1, <2>2, <2>3 DEF Insert
  <1>8. spent' \in Nat
    BY <1>1, <1>4 DEF Insert
  <1>9. ASSUME Budget > 0, ~overlapped PROVE spent' < Budget + MaxCost /\ billed <= spent' + Lost'
    <2>1. CASE spent' = spent + cost[r] /\ faults' = faults
      BY <1>4, <1>5, <1>9, <2>1
    <2>2. CASE spent' = spent /\ faults' = faults + 1
      BY <1>4, <1>5, <1>9, <2>2
    <2>3. QED BY <1>1, <1>5, <1>9, <2>1, <2>2 DEF Insert
  <1>10. ASSUME pc'[r] = "loop", todo'[r] = Tail(todo[r]) PROVE Listing(r)' /\ Unjudged(r)' /\ OwedBy(r)'
    <2>1. \A a \in Alerts : Judged(a)' => Judged(a) \/ a = Head(todo[r])
      BY <1>7 DEF Judged
    <2>2. Listing(r)' /\ Unjudged(r)'
      BY <1>1, <1>10, <2>1, SkipFits
    <2>3. OwedBy(r)'
      BY <1>1, <1>9, <1>10 DEF OwedBy
    <2>4. QED BY <2>2, <2>3
  <1>11. /\ pc[r] # "idle" /\ pc' = [pc EXCEPT ![r] = "loop"]
         /\ todo' = [todo EXCEPT ![r] = Tail(todo[r])] /\ cost' = [cost EXCEPT ![r] = 0]
         /\ Tail(todo[r]) \in Seq(Alerts) /\ 0 \in Costs
         /\ scores' \in [Alerts -> {<<>>} \cup {<<x>> : x \in Costs}]
    BY <1>1, <1>3, <1>4, <1>7
  <1>12. QED BY <1>6, <1>8, <1>10, <1>11, RunStepFrame

LEMMA RunCrashKeeps ==
    ASSUME JudgeInv, NEW r \in Runs, Crash(r)
    PROVE  JudgeInv'
  <1>1. /\ pc[r] # "idle" /\ UNCHANGED <<created, aged, overlapped, scores, spent, billed>>
        /\ pc' = [pc EXCEPT ![r] = "idle"] /\ todo' = [todo EXCEPT ![r] = <<>>]
        /\ cost' = [cost EXCEPT ![r] = 0] /\ faults' = faults + 1 /\ faults < MaxFaults
    BY DEF Crash, Return, Goto, Glitch
  <1>2. TypeOK /\ OwedBy(r)
    BY <1>1, RunOf
  <1>3. /\ cost[r] \in Nat /\ cost[r] <= MaxCost /\ spent \in Nat /\ billed \in Nat /\ Lost \in Nat
        /\ MaxCost \in Nat /\ 0 \in Costs /\ Lost' = Lost + MaxCost
    BY <1>1, <1>2, Amounts
  <1>4. /\ <<>> \in Seq(Alerts) /\ Len(<<>>) = 0
        /\ scores' \in [Alerts -> {<<>>} \cup {<<x>> : x \in Costs}] /\ spent' \in Nat /\ billed' \in Nat
        /\ UNCHANGED <<created, aged, overlapped>>
    BY <1>1, SameLocals
  <1>5. ASSUME pc'[r] = "idle", todo'[r] = <<>> PROVE Listing(r)' /\ Unjudged(r)' /\ OwedBy(r)'
    <2>1. Listing(r)' /\ Unjudged(r)'
      BY <1>4, <1>5 DEF Listing, Unjudged
    <2>2. ASSUME Budget > 0, ~overlapped PROVE spent < Budget + MaxCost /\ billed <= spent + Lost'
      <3>1. spent < Budget + MaxCost /\ (billed <= spent + cost[r] + Lost \/ billed <= spent + Lost)
        BY <1>2, <2>2 DEF OwedBy
      <3>2. QED BY <1>3, <3>1
    <2>3. OwedBy(r)'
      BY <1>1, <1>5, <2>2 DEF OwedBy
    <2>4. QED BY <2>1, <2>3
  <1>6. QED BY <1>1, <1>3, <1>4, <1>5, RunStepFrame

\* Alerts come and age, midnight passes: the runs do not notice.
LEMMA WorldKeeps ==
    ASSUME JudgeInv, TypeOK', UNCHANGED <<scores, pc, todo, cost, overlapped, faults>>,
           UNCHANGED <<spent, billed>> \/ (spent' = 0 /\ billed' = 0)
    PROVE  JudgeInv'
  <1>1. Alone' /\ \A r \in Runs : Listing(r)' /\ Unjudged(r)'
    BY DEF JudgeInv, Alone, Listing, Unjudged, Judged
  <1>2. TypeOK /\ Owed /\ Lost' = Lost
    BY DEF JudgeInv, Lost
  <1>3. ASSUME NEW r \in Runs, OwedBy(r) PROVE OwedBy(r)'
    <2>1. CASE UNCHANGED <<spent, billed>>
      BY <1>2, <1>3, <2>1 DEF OwedBy
    <2>2. CASE spent' = 0 /\ billed' = 0
      <3>1. MaxCost \in Nat /\ Budget \in Nat /\ Lost \in Nat /\ cost[r] \in Nat
        BY <1>2, Amounts
      <3>2. 0 <= 0 + cost[r] + Lost /\ 0 <= 0 + Lost /\ (Budget > 0 => 0 < Budget /\ 0 < Budget + MaxCost)
        BY <3>1
      <3>3. QED BY <1>2, <2>2, <3>2 DEF OwedBy
    <2>3. QED BY <2>1, <2>2
  <1>4. Owed'
    BY <1>2, <1>3 DEF Owed
  <1>5. QED BY <1>1, <1>4 DEF JudgeInv

LEMMA NextJudge == JudgeInv /\ [Next]_vars => JudgeInv'
  <1> SUFFICES ASSUME JudgeInv, [Next]_vars PROVE JudgeInv'
    OBVIOUS
  <1>1. ASSUME NEW r \in Runs, RunStep(r) \/ Crash(r) PROVE JudgeInv'
    BY <1>1, BeginKeeps, ListKeeps, CheckBudgetKeeps, EvaluateKeeps, InsertKeeps, RunCrashKeeps DEF RunStep
  <1>2. TypeOK
    BY DEF JudgeInv
  <1>3. CASE CreateAlert
    <2>1. created' \in 0..MaxAlerts
      BY <1>2, <1>3, Amounts DEF CreateAlert, TypeOK
    <2>2. UNCHANGED <<aged, scores, spent, billed, pc, todo, cost, overlapped, faults>>
      BY <1>3 DEF CreateAlert, runVars
    <2>3. TypeOK'
      BY <1>2, <2>1, <2>2 DEF TypeOK
    <2>4. QED BY <2>2, <2>3, WorldKeeps
  <1>4. ASSUME NEW a \in Alerts, AgeOut(a) PROVE JudgeInv'
    <2>1. aged' \subseteq Alerts
      BY <1>2, <1>4 DEF AgeOut, TypeOK
    <2>2. UNCHANGED <<created, scores, spent, billed, pc, todo, cost, overlapped, faults>>
      BY <1>4 DEF AgeOut, runVars
    <2>3. TypeOK'
      BY <1>2, <2>1, <2>2 DEF TypeOK
    <2>4. QED BY <2>2, <2>3, WorldKeeps
  <1>5. CASE Midnight
    <2>1. /\ UNCHANGED <<created, aged, scores, pc, todo, cost, overlapped, faults>>
          /\ spent' = 0 /\ billed' = 0
      BY <1>5 DEF Midnight, runVars
    <2>2. TypeOK'
      BY <1>2, <2>1 DEF TypeOK
    <2>3. QED BY <2>1, <2>2, WorldKeeps
  <1>6. CASE UNCHANGED vars
    <2>1. UNCHANGED <<created, aged, scores, spent, billed, pc, todo, cost, overlapped, faults>>
      BY <1>6 DEF vars, runVars
    <2>2. TypeOK'
      BY <1>2, <2>1 DEF TypeOK
    <2>3. QED BY <2>1, <2>2, WorldKeeps
  <1>7. QED BY <1>1, <1>3, <1>4, <1>5, <1>6 DEF Next

\* The state of the worker is typed, and a run that has it to itself holds only
\* alerts without a verdict and owes what the invariant says.
THEOREM JudgeInvariant == Spec => []JudgeInv
  BY InitJudge, NextJudge, PTL DEF Spec

\* Without overlapping runs the bill of the day exceeds the cap of checkBudget by
\* one verdict and by one for each call whose verdict was lost, and by no more.
THEOREM BillIsBounded == Spec => []BillBounded
  <1>1. JudgeInv => BillBounded
    <2> SUFFICES ASSUME JudgeInv, Budget > 0, ~overlapped PROVE billed < Budget + MaxCost * (1 + faults)
      BY DEF BillBounded
    <2>1. PICK r \in Runs : \A q \in Runs \ {r} : pc[q] = "idle"
      BY JudgeConstants DEF JudgeInv, Alone
    <2>2. TypeOK /\ OwedBy(r)
      BY <2>1, RunOf
    <2>3. /\ MaxCost \in Nat /\ Budget \in Nat /\ spent \in Nat /\ billed \in Nat /\ Lost \in Nat
          /\ faults \in Nat /\ cost[r] \in Nat /\ cost[r] <= MaxCost
      BY <2>2, Amounts
    <2>4. MaxCost * (1 + faults) = MaxCost + Lost
      <3>1. MaxCost * (faults + 1) = MaxCost * faults + MaxCost /\ MaxCost * faults \in Nat /\ 1 + faults = faults + 1
        BY <2>3, TimesSuccessor
      <3>2. QED BY <2>3, <3>1 DEF Lost
    <2>5. \/ spent < Budget /\ billed <= spent + cost[r] + Lost
          \/ spent < Budget + MaxCost /\ billed <= spent + Lost
      BY <2>2 DEF OwedBy
    <2>6. billed < Budget + (MaxCost + Lost)
      BY <2>3, <2>5
    <2>7. QED BY <2>4, <2>6
  <1>2. QED BY <1>1, JudgeInvariant, PTL

\* EvaluateAlert is not asked about an alert that has a verdict as long as runs do
\* not overlap, whatever crashed or failed before.
THEOREM NoSecondVerdict == Spec => NeverRejudged
  <1>1. ASSUME JudgeInv, NEW r \in Runs, pc[r] = "evaluate", ~overlapped
        PROVE  ~Judged(Head(todo[r]))
    <2>1. Unjudged(r) /\ todo[r] \in Seq(Alerts) /\ todo[r] # <<>>
      BY <1>1, RunOf DEF Listing
    <2>2. Len(todo[r]) \in Nat /\ Len(todo[r]) > 0 /\ Head(todo[r]) = todo[r][1]
      BY <2>1, Hand
    <2>3. QED BY <1>1, <2>1, <2>2 DEF Unjudged
  <1>2. JudgeInv => \A r \in Runs : pc[r] = "evaluate" /\ ~overlapped => ~Judged(Head(todo[r]))
    BY <1>1
  <1>3. JudgeInv /\ [Next]_vars
          => [\A r \in Runs : pc[r] = "evaluate" /\ pc'[r] = "insert" /\ ~overlapped
                => ~Judged(Head(todo[r]))]_vars
    BY <1>2
  <1>4. QED BY <1>3, JudgeInvariant, PTL DEF Spec, NeverRejudged
=============================================================================
