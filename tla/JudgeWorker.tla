----------------------------- MODULE JudgeWorker -----------------------------
(***************************************************************************)
(* The LLM-as-judge worker: Worker.Run lists alerts without a verdict,     *)
(* asks the LLM about each one and stores the verdict with its cost; the   *)
(* stored costs of the day are checked against the daily budget.           *)
(*                                                                         *)
(* Source: pkg/judge/worker.go, pkg/judge/llm_judge.go, the judge SQL of   *)
(* internal/store, migrations/013_add_judge_scores.sql.                    *)
(*                                                                         *)
(* Run is called by the cron entry and, without the scheduler lock, by     *)
(* POST /api/v1/judge/run: Runs are the calls in progress at one time.     *)
(* Alerts are numbered in the order of created_at; money is counted in     *)
(* whole units; what a verdict says is left out.                           *)
(***************************************************************************)
EXTENDS Naturals, Sequences, FiniteSets

CONSTANTS
    Runs,       \* concurrent calls of Worker.Run
    Budget,     \* dailyBudgetUSD; 0: no cap
    MaxCost,    \* the most expensive verdict
    BatchSize,  \* LIMIT of ListAlertsForJudging
    MaxAlerts,  \* bound: alerts
    MaxFaults   \* bound: failed calls and crashes

ASSUME JudgeConstants ==
    /\ IsFiniteSet(Runs) /\ Runs # {}
    /\ {Budget, MaxCost, BatchSize, MaxAlerts, MaxFaults} \subseteq Nat

VARIABLES
    created,  \* number of alerts
    aged,     \* alerts older than lookback
    scores,   \* judge_scores: per alert, cost_usd of its row as <<cost>>; <<>>: no row
    spent,    \* SUM(cost_usd) of the rows judged since UTC midnight
    billed,   \* history: what the LLM calls of the day cost, stored or not
    pc,       \* per run: where it is in Run
    todo,     \* per run: candidates not yet handled
    cost,     \* per run: cost of the verdict in hand
    overlapped, \* history: two runs were in progress at one time
    faults    \* failures so far

runVars == <<pc, todo, cost>>
vars == <<created, aged, scores, spent, billed, runVars, overlapped, faults>>

Alerts == 1..MaxAlerts
Costs  == 0..MaxCost

TypeOK ==
    /\ created \in 0..MaxAlerts
    /\ aged \subseteq Alerts
    /\ scores \in [Alerts -> {<<>>} \cup {<<c>> : c \in Costs}]
    /\ spent \in Nat
    /\ billed \in Nat
    /\ pc \in [Runs -> {"idle", "list", "loop", "evaluate", "insert"}]
    /\ todo \in [Runs -> Seq(Alerts)]
    /\ cost \in [Runs -> Costs]
    /\ overlapped \in BOOLEAN
    /\ faults \in 0..MaxFaults

Init ==
    /\ created = 0
    /\ aged = {}
    /\ scores = [a \in Alerts |-> <<>>]
    /\ spent = 0
    /\ billed = 0
    /\ pc = [r \in Runs |-> "idle"]
    /\ todo = [r \in Runs |-> <<>>]
    /\ cost = [r \in Runs |-> 0]
    /\ overlapped = FALSE
    /\ faults = 0

-----------------------------------------------------------------------------
Glitch == faults < MaxFaults /\ faults' = faults + 1

Goto(r, stage) == pc' = [pc EXCEPT ![r] = stage]

Judged(a) == scores[a] # <<>>

\* spent >= dailyBudgetUSD stops the run; a budget of 0 disables the cap.
UnderBudget == Budget = 0 \/ spent < Budget

-----------------------------------------------------------------------------
(* Run *)

\* The first budget check. When it fails or finds the budget exhausted, Run
\* returns and nothing has changed.
Begin(r) ==
    /\ pc[r] = "idle"
    /\ UnderBudget
    /\ Goto(r, "list")
    /\ overlapped' = (overlapped \/ \E q \in Runs \ {r} : pc[q] # "idle")
    /\ UNCHANGED <<created, aged, scores, spent, billed, todo, cost, faults>>

\* mutant: the anti-join on judge_scores is missing
EveryAlert == {a \in 1..created : a \notin aged}

\* created_at >= now() - lookback AND js.alert_id IS NULL
Candidates == {a \in 1..created : a \notin aged /\ ~Judged(a)}

\* ORDER BY created_at DESC LIMIT batchSize: the one listing of the newest of S.
NewestFirst(S) ==
    LET n == IF Cardinality(S) < BatchSize THEN Cardinality(S) ELSE BatchSize
    IN  {s \in [1..n -> S] :
            /\ \A i, k \in 1..n : i < k => s[i] > s[k]
            /\ \A a \in S, i \in 1..n : a > s[i] => \E k \in 1..n : s[k] = a}

ListAlertsForJudging(r) ==
    /\ pc[r] = "list"
    /\ \/ /\ \E rows \in NewestFirst(Candidates) : todo' = [todo EXCEPT ![r] = rows]
          /\ Goto(r, "loop")
          /\ UNCHANGED faults
       \/ Glitch /\ Goto(r, "idle") /\ UNCHANGED todo
    /\ UNCHANGED <<created, aged, overlapped, scores, spent, billed, cost>>

Return(r) ==
    /\ Goto(r, "idle")
    /\ todo' = [todo EXCEPT ![r] = <<>>]

\* mutant: no recheck inside the loop
CheckBudgetOnce(r) ==
    /\ pc[r] = "loop"
    /\ IF todo[r] # <<>> THEN Goto(r, "evaluate") /\ UNCHANGED todo ELSE Return(r)
    /\ UNCHANGED <<created, aged, overlapped, scores, spent, billed, cost, faults>>

\* The next candidate: checkBudget halts the run when the cap is met and when
\* the sum cannot be read.
CheckBudget(r) ==
    /\ pc[r] = "loop"
    /\ \/ /\ todo[r] # <<>> /\ UnderBudget
          /\ Goto(r, "evaluate")
          /\ UNCHANGED <<todo, faults>>
       \/ /\ todo[r] = <<>> \/ ~UnderBudget
          /\ Return(r)
          /\ UNCHANGED faults
       \/ todo[r] # <<>> /\ Glitch /\ Return(r)
    /\ UNCHANGED <<created, aged, overlapped, scores, spent, billed, cost>>

Skip(r) ==
    /\ Goto(r, "loop")
    /\ todo' = [todo EXCEPT ![r] = Tail(@)]

\* judge.EvaluateAlert: a call that fails to parse, or whose answer is lost, may
\* have been billed. An error is logged and the loop goes on.
EvaluateAlert(r) ==
    /\ pc[r] = "evaluate"
    /\ \E c \in Costs :
          /\ billed' = billed + c
          /\ \/ /\ cost' = [cost EXCEPT ![r] = c]
                /\ Goto(r, "insert")
                /\ UNCHANGED <<todo, faults>>
             \/ Glitch /\ Skip(r) /\ UNCHANGED cost
    /\ UNCHANGED <<created, aged, overlapped, scores, spent>>

\* INSERT INTO judge_scores ... ON CONFLICT (alert_id) DO NOTHING
Insert(a, c) ==
    IF Judged(a) THEN UNCHANGED <<scores, spent>>
    ELSE /\ scores' = [scores EXCEPT ![a] = <<c>>]
         /\ spent' = spent + c

\* mutant: the verdict is handed to Langfuse only
ForgetVerdict(r) ==
    /\ pc[r] = "insert"
    /\ Skip(r)
    /\ cost' = [cost EXCEPT ![r] = 0]
    /\ UNCHANGED <<created, aged, overlapped, scores, spent, billed, faults>>

InsertJudgeScore(r) ==
    /\ pc[r] = "insert"
    /\ \/ Insert(Head(todo[r]), cost[r]) /\ UNCHANGED faults
       \/ Glitch /\ UNCHANGED <<scores, spent>>
    /\ Skip(r)
    /\ cost' = [cost EXCEPT ![r] = 0]
    /\ UNCHANGED <<created, aged, overlapped, billed>>

-----------------------------------------------------------------------------
(* The world around Run. *)

Crash(r) ==
    /\ pc[r] # "idle"
    /\ Glitch
    /\ Return(r)
    /\ cost' = [cost EXCEPT ![r] = 0]
    /\ UNCHANGED <<created, aged, overlapped, scores, spent, billed>>

CreateAlert ==
    /\ created < MaxAlerts
    /\ created' = created + 1
    /\ UNCHANGED <<aged, overlapped, scores, spent, billed, runVars, faults>>

\* The oldest alert in the lookback window leaves it.
AgeOut(a) ==
    /\ a <= created
    /\ a \notin aged
    /\ 1..(a - 1) \subseteq aged
    /\ aged' = aged \cup {a}
    /\ UNCHANGED <<created, overlapped, scores, spent, billed, runVars, faults>>

\* todayUTCMidnight moves on: no row has been judged since.
Midnight ==
    /\ spent' = 0
    /\ billed' = 0
    /\ UNCHANGED <<created, aged, overlapped, scores, runVars, faults>>

-----------------------------------------------------------------------------
RunStep(r) ==
    \/ Begin(r) \/ ListAlertsForJudging(r) \/ CheckBudget(r)
    \/ EvaluateAlert(r) \/ InsertJudgeScore(r)

Next ==
    \/ \E r \in Runs : RunStep(r) \/ Crash(r)
    \/ CreateAlert
    \/ \E a \in Alerts : AgeOut(a)
    \/ Midnight

Spec == Init /\ [][Next]_vars

\* cron calls Run every interval, every call in it returns, days pass.
FairSpec == Spec /\ (\A r \in Runs : WF_vars(RunStep(r))) /\ WF_vars(Midnight)

-----------------------------------------------------------------------------
(* Properties. *)

\* Past the check of the cap, verdict not yet stored.
InFlight == {r \in Runs : pc[r] \in {"evaluate", "insert"}}

\* The cap can be overshot, by at most one verdict for each concurrent run: the
\* recheck of checkBudget before every candidate is what bounds it, across
\* midnight, crashes and runs that race each other.
OvershootBounded ==
    Budget > 0 => spent < Budget + MaxCost * Cardinality(Runs)

\* OvershootBounded made inductive: a run that has passed the check has its
\* share of the overshoot still ahead of it.
RoomForInFlight ==
    Budget > 0 =>
        spent + MaxCost * Cardinality(InFlight) < Budget + MaxCost * Cardinality(Runs)

\* As long as runs do not overlap, the real bill of the day exceeds the cap by
\* one verdict and by the calls whose verdict was lost, and by no more.
BillBounded ==
    Budget > 0 /\ ~overlapped => billed < Budget + MaxCost * (1 + faults)

\* queries.go:437: re-running never judges again an alert that has a verdict.
\* Nothing but the anti-join of ListAlertsForJudging sees to it, so it holds as
\* long as runs do not overlap; crashes and failed inserts do not matter.
NeverRejudged ==
    [][\A r \in Runs : pc[r] = "evaluate" /\ pc'[r] = "insert" /\ ~overlapped
          => ~Judged(Head(todo[r]))]_vars

\* Every alert is judged or leaves the window, whatever the cap: the next day
\* goes on where this one stopped.
EveryAlertJudged ==
    \A a \in Alerts : a <= created ~> Judged(a) \/ a \in aged
=============================================================================
