-------------------------- MODULE OperationsProofs --------------------------
(***************************************************************************)
(* What operators may rely on, for any number of pods, migrations and      *)
(* crashes and every configuration, for any number of alerts, operators    *)
(* and clicks, and for any watches, clients and commands.                  *)
(*                                                                         *)
(* The pods share only the schema and its record. DeployInv says, of each  *)
(* pod, what it has learned of them on its way (Migrated), what it still   *)
(* has in hand while it stops (Drained) and what its configuration allowed *)
(* it to build (Built); Ordered adds what one pod at a time may rely on.   *)
(*                                                                         *)
(* The review page serves one operator among many who click at once:       *)
(* ReviewInv ties a label to what its readers may still write, and WalkInv *)
(* what an operator has not seen yet to the pages still to come: every     *)
(* ORDER BY ends with the id, so a page begins where the last one ended.   *)
(***************************************************************************)
EXTENDS Deployment, AlertReview, WatchAdmin, FiniteSetTheorems, TLAPS

PodStages ==
  {"down", "refused", "check", "apply", "record", "observe", "connect", "serve", "signalled", "stopping",
   "draining", "closed", "exited"}

Works == {"job", "request", "worker"}

PartNames == {"store", "ebay", "extractor", "engine", "scheduler", "judge", "web"}

PodStates == [at : PodStages, file : Nat \ {0}, parts : SUBSET PartNames]

DeployTypes ==
  /\ pod \in [Pods -> PodStates]
  /\ busy \in [Pods -> SUBSET Works]

\* The record grows file by file, and the schema is at most one file ahead of it.
Rows ==
  \E k \in 0..FileCount :
    recorded = 1..k /\ applied \in {1..k, 1..(k + 1)} /\ applied \subseteq Files

\* The pods that have been through their migrations.
PastMigrations == {"observe", "connect", "serve", "signalled", "stopping", "draining", "closed"}

\* What a pod in state q has learned: every file before its own is recorded.
Migrated(q) ==
  /\ q.at = "down" => q.file = 1
  /\ q.at \in {"check", "apply", "record"} => \A f \in 1..(q.file - 1) : f \in recorded
  /\ q.at \in {"apply", "record"} => q.file \in Files
  /\ q.at = "record" => q.file \in applied
  /\ q.at \in PastMigrations => recorded = Files

\* What a pod that stops may still be doing.
Drained(p, q, b) ==
  /\ q.at \in {"draining", "closed"} => "job" \notin b
  /\ q.at = "closed" /\ "request" \in b => p \in overdue

\* What a pod that passed its configuration has built.
Built(q) ==
  /\ q.at \notin {"down", "refused"} => validate(applyDefaults(config))
  /\ q.at = "serve" => \E store \in BOOLEAN : q.parts = buildParts(applyDefaults(config), store)

PodOK(p) == Migrated(pod[p]) /\ Drained(p, pod[p], busy[p]) /\ Built(pod[p])

\* No two pods were in their migrations at one time, so none repeats a file that
\* is on record, and none undoes a newer one.
Ordered ==
  ~overlapped =>
    /\ undone = {}
    /\ \A p, q \in Pods : InMigrations(p) /\ InMigrations(q) => p = q
    /\ \A p \in Pods : pod[p].at = "apply" => pod[p].file \notin recorded

DeployInv == DeployTypes /\ Rows /\ \A p \in Pods : PodOK(p)

-----------------------------------------------------------------------------
LEMMA FileNumbers == FileCount \in Nat /\ Files = 1..FileCount
  BY DeployConstants, FS_CardinalityType DEF DeployConstants, FileCount

\* What is known of one pod.
LEMMA PodOf ==
    ASSUME DeployInv, NEW p \in Pods
    PROVE  /\ pod[p] \in PodStates /\ pod[p].at \in PodStages
           /\ pod[p].file \in Nat /\ pod[p].file > 0 /\ pod[p].parts \in SUBSET PartNames
           /\ busy[p] \in SUBSET Works
           /\ Migrated(pod[p]) /\ Drained(p, pod[p], busy[p]) /\ Built(pod[p]) /\ Rows
  BY DEF DeployInv, DeployTypes, PodOK, PodStates

\* A step of pod p: the schema only grows, and the other pods keep what they know.
LEMMA DeployFrame ==
    ASSUME DeployInv, NEW p \in Pods, NEW q \in PodStates, NEW b \in SUBSET Works,
           pod' = [pod EXCEPT ![p] = q], busy' = [busy EXCEPT ![p] = b], config' = config,
           recorded \subseteq recorded', applied \subseteq applied', overdue \subseteq overdue', Rows',
           pod'[p] = q /\ busy'[p] = b => PodOK(p)'
    PROVE  DeployInv'
  <1>1. DeployTypes'
    BY DEF DeployInv, DeployTypes
  <1>2. pod'[p] = q /\ busy'[p] = b
    BY DEF DeployInv, DeployTypes
  <1>3. ASSUME NEW d \in Pods, d # p PROVE PodOK(d)'
    <2>1. pod'[d] = pod[d] /\ busy'[d] = busy[d]
      BY <1>3 DEF DeployInv, DeployTypes
    <2>2. Migrated(pod[d]) /\ Drained(d, pod[d], busy[d]) /\ Built(pod[d])
      BY PodOf
    <2>3. recorded = Files => recorded' = Files
      BY FileNumbers DEF Rows
    <2>4. Migrated(pod[d])'
      BY <2>1, <2>2, <2>3 DEF Migrated
    <2>5. Drained(d, pod[d], busy[d])'
      BY <2>1, <2>2 DEF Drained
    <2>6. Built(pod[d])'
      BY <2>1, <2>2 DEF Built
    <2>7. QED BY <2>4, <2>5, <2>6 DEF PodOK
  <1>4. QED BY <1>1, <1>2, <1>3 DEF DeployInv

\* A pod that moves keeps its file and its parts.
LEMMA GoesState ==
    ASSUME DeployInv, NEW p \in Pods, NEW at \in PodStages, Goes(p, at)
    PROVE  /\ pod' = [pod EXCEPT ![p] = [at |-> at, file |-> pod[p].file, parts |-> pod[p].parts]]
           /\ [at |-> at, file |-> pod[p].file, parts |-> pod[p].parts] \in PodStates
           /\ pod'[p] = [at |-> at, file |-> pod[p].file, parts |-> pod[p].parts]
  <1>1. pod[p] \in [at : PodStages, file : Nat \ {0}, parts : SUBSET PartNames]
    BY PodOf DEF PodStates
  <1>2. [pod[p] EXCEPT !.at = at] = [at |-> at, file |-> pod[p].file, parts |-> pod[p].parts]
    BY <1>1
  <1>3. pod' = [pod EXCEPT ![p] = [pod[p] EXCEPT !.at = at]]
    BY DEF Goes
  <1>4. [at |-> at, file |-> pod[p].file, parts |-> pod[p].parts] \in PodStates
    BY <1>1 DEF PodStates
  <1>5. QED BY <1>2, <1>3, <1>4 DEF DeployInv, DeployTypes

LEMMA DownState == Down \in PodStates /\ Down.at = "down" /\ Down.file = 1
  BY DEF Down, PodStates, PodStages

LEMMA SameBusy ==
    ASSUME DeployInv, NEW p \in Pods
    PROVE  [busy EXCEPT ![p] = busy[p]] = busy
  BY DEF DeployInv, DeployTypes

LEMMA InitDeployInv == InitDeploy => DeployInv
  <1> SUFFICES ASSUME InitDeploy PROVE DeployInv
    OBVIOUS
  <1>1. DeployTypes
    BY DownState DEF InitDeploy, DeployTypes
  <1>2. Rows
    <2>1. 0 \in 0..FileCount /\ 1..0 = {}
      BY FileNumbers
    <2>2. QED BY <2>1 DEF Rows, InitDeploy
  <1>3. ASSUME NEW p \in Pods PROVE PodOK(p)
    <2>1. pod[p] = Down
      BY DEF InitDeploy
    <2>2. QED BY <2>1, DownState DEF PodOK, Migrated, Drained, Built, PastMigrations
  <1>4. QED BY <1>1, <1>2, <1>3 DEF DeployInv

\* A pod that only moves on: what its new state needs holds already.
LEMMA MoveKeeps ==
    ASSUME DeployInv, NEW p \in Pods, NEW at \in PodStages, Goes(p, at),
           UNCHANGED <<config, applied, recorded, busy, overdue>>,
           NEW q, q = [at |-> at, file |-> pod[p].file, parts |-> pod[p].parts],
           Migrated(q), Drained(p, q, busy[p]), Built(q)
    PROVE  DeployInv'
  <1>1. q \in PodStates /\ pod' = [pod EXCEPT ![p] = q]
    BY GoesState
  <1>2. busy[p] \in SUBSET Works /\ busy' = [busy EXCEPT ![p] = busy[p]]
    BY PodOf, SameBusy
  <1>3. /\ recorded \subseteq recorded' /\ applied \subseteq applied' /\ overdue \subseteq overdue'
        /\ config' = config
    OBVIOUS
  <1>4. Rows'
    BY PodOf DEF Rows
  <1>5. ASSUME pod'[p] = q, busy'[p] = busy[p] PROVE PodOK(p)'
    <2>1. Migrated(pod'[p]) /\ Drained(p, pod'[p], busy'[p]) /\ Built(pod'[p])
      BY <1>5
    <2>2. Migrated(pod[p])'
      BY <2>1 DEF Migrated
    <2>3. Drained(p, pod[p], busy[p])'
      BY <2>1 DEF Drained
    <2>4. Built(pod[p])'
      BY <2>1 DEF Built
    <2>5. QED BY <2>2, <2>3, <2>4 DEF PodOK
  <1>6. QED BY <1>1, <1>2, <1>3, <1>4, <1>5, DeployFrame

\* A container that is started again knows nothing and holds nothing.
LEMMA DownKeeps ==
    ASSUME DeployInv, NEW p \in Pods, pod' = [pod EXCEPT ![p] = Down],
           NEW b \in SUBSET Works, busy' = [busy EXCEPT ![p] = b],
           UNCHANGED <<config, applied, recorded, overdue>>
    PROVE  DeployInv'
  <1>1. Rows'
    BY PodOf DEF Rows
  <1>2. ASSUME pod'[p] = Down, busy'[p] = b PROVE PodOK(p)'
    BY <1>2, DownState DEF PodOK, Migrated, Drained, Built, PastMigrations
  <1>3. /\ recorded \subseteq recorded' /\ applied \subseteq applied' /\ overdue \subseteq overdue'
        /\ config' = config /\ Down \in PodStates
    BY DownState
  <1>4. QED BY <1>1, <1>2, <1>3, DeployFrame

LEMMA StartMigrateKeeps ==
    ASSUME DeployInv, NEW p \in Pods, StartMigrate(p)
    PROVE  DeployInv'
  <1>1. PICK at \in {"check", "refused"} : Goes(p, at) /\ (at = "check" => validate(applyDefaults(config)))
    BY DEF StartMigrate, schema
  <1> DEFINE q == [at |-> at, file |-> pod[p].file, parts |-> pod[p].parts]
  <1>2. at \in PodStages /\ UNCHANGED <<config, applied, recorded, busy, overdue>>
    BY DEF StartMigrate, schema, PodStages
  <1>3. pod[p].file = 1
    BY PodOf DEF StartMigrate, schema, Migrated
  <1>4. Migrated(q)
    BY <1>3 DEF Migrated, PastMigrations
  <1>5. Drained(p, q, busy[p]) /\ Built(q)
    BY <1>1 DEF Drained, Built
  <1>6. QED BY <1>1, <1>2, <1>4, <1>5, MoveKeeps

LEMMA CheckMigrationKeeps ==
    ASSUME DeployInv, NEW p \in Pods, CheckMigration(p)
    PROVE  DeployInv'
  <1> DEFINE f == pod[p].file
  <1>1. /\ pod[p].at = "check" /\ UNCHANGED <<config, applied, recorded, busy, overdue>>
        /\ Migrated(pod[p]) /\ Built(pod[p]) /\ Rows /\ f \in Nat /\ f > 0
    BY PodOf DEF CheckMigration, schema
  <1>2. /\ \A g \in 1..(f - 1) : g \in recorded
        /\ validate(applyDefaults(config))
    BY <1>1 DEF Migrated, Built
  <1>3. CASE f > FileCount
    <2> DEFINE q == [at |-> "observe", file |-> pod[p].file, parts |-> pod[p].parts]
    <2>0. f \notin recorded
      BY <1>1, <1>3, FileNumbers DEF Rows
    <2>1. Goes(p, "observe") /\ "observe" \in PodStages
      BY <1>1, <1>3, <2>0 DEF CheckMigration, schema, PodStages
    <2>2. recorded = Files
      BY <1>1, <1>2, <1>3, FileNumbers DEF Rows
    <2>3. Migrated(q) /\ Drained(p, q, busy[p]) /\ Built(q)
      BY <1>2, <2>2 DEF Migrated, Drained, Built
    <2>4. QED BY <1>1, <2>1, <2>3, MoveKeeps
  <1>4. CASE ~(f > FileCount) /\ f \notin recorded
    <2> DEFINE q == [at |-> "apply", file |-> pod[p].file, parts |-> pod[p].parts]
    <2>1. Goes(p, "apply") /\ "apply" \in PodStages
      BY <1>1, <1>4 DEF CheckMigration, schema, PodStages
    <2>2. f \in Files
      BY <1>1, <1>4, FileNumbers
    <2>3. Migrated(q) /\ Drained(p, q, busy[p]) /\ Built(q)
      BY <1>2, <2>2 DEF Migrated, Drained, Built, PastMigrations
    <2>4. QED BY <1>1, <2>1, <2>3, MoveKeeps
  <1>5. CASE ~(f > FileCount) /\ f \in recorded
    <2> DEFINE q == [at |-> "check", file |-> f + 1, parts |-> pod[p].parts]
    <2>1. pod' = [pod EXCEPT ![p].file = @ + 1]
      BY <1>1, <1>5 DEF CheckMigration, schema
    <2>2. pod[p] \in [at : PodStages, file : Nat \ {0}, parts : SUBSET PartNames]
      BY PodOf DEF PodStates
    <2>3. [pod[p] EXCEPT !.file = f + 1] = q /\ f + 1 \in Nat \ {0} /\ "check" \in PodStages
      BY <1>1, <2>2 DEF PodStages
    <2>4. q \in PodStates
      BY <2>2, <2>3 DEF PodStates
    <2>5. pod' = [pod EXCEPT ![p] = q]
      BY <2>1, <2>3
    <2>6. Rows' /\ busy' = [busy EXCEPT ![p] = busy[p]] /\ busy[p] \in SUBSET Works
      BY <1>1, PodOf, SameBusy DEF Rows
    <2>7. /\ recorded \subseteq recorded' /\ applied \subseteq applied' /\ overdue \subseteq overdue'
          /\ config' = config
      BY <1>1
    <2>8. ASSUME pod'[p] = q, busy'[p] = busy[p] PROVE PodOK(p)'
      <3>1. \A g \in 1..((f + 1) - 1) : g \in recorded
        BY <1>1, <1>2, <1>5
      <3>2. Migrated(pod[p])'
        BY <1>1, <2>8, <3>1 DEF Migrated, PastMigrations
      <3>3. Drained(p, pod[p], busy[p])' /\ Built(pod[p])'
        BY <1>1, <1>2, <2>8 DEF Drained, Built
      <3>4. QED BY <3>2, <3>3 DEF PodOK
    <2>9. QED BY <2>4, <2>5, <2>6, <2>7, <2>8, DeployFrame
  <1>6. QED BY <1>3, <1>4, <1>5

LEMMA ApplyMigrationKeeps ==
    ASSUME DeployInv, NEW p \in Pods, ApplyMigration(p)
    PROVE  DeployInv'
  <1> DEFINE f == pod[p].file
  <1>1. /\ pod[p].at = "apply" /\ UNCHANGED <<config, recorded, busy, overdue>>
        /\ Migrated(pod[p]) /\ Built(pod[p]) /\ Rows /\ f \in Nat /\ f > 0
    BY PodOf DEF ApplyMigration, schema
  <1>2. /\ \A g \in 1..(f - 1) : g \in recorded
        /\ f \in Files /\ validate(applyDefaults(config))
    BY <1>1 DEF Migrated, Built
  <1>3. busy' = [busy EXCEPT ![p] = busy[p]] /\ busy[p] \in SUBSET Works
    BY <1>1, PodOf, SameBusy
  <1>4. CASE pod' = [pod EXCEPT ![p] = Down] /\ UNCHANGED schema
    <2>1. pod' = [pod EXCEPT ![p] = Down] /\ UNCHANGED <<config, applied, recorded, overdue>>
      BY <1>4, <1>1 DEF schema
    <2>2. QED BY <2>1, <1>3, DownKeeps
  <1>5. CASE applied' = applied \cup {f} /\ Goes(p, "record")
    <2> DEFINE q == [at |-> "record", file |-> pod[p].file, parts |-> pod[p].parts]
    <2>1. applied' = applied \cup {f} /\ Goes(p, "record") /\ "record" \in PodStages
      BY <1>5 DEF PodStages
    <2>2. q \in PodStates /\ pod' = [pod EXCEPT ![p] = q]
      BY <2>1, GoesState
    <2>3. Rows'
      <3>1. PICK k \in 0..FileCount : recorded = 1..k /\ applied \in {1..k, 1..(k + 1)} /\ applied \subseteq Files
        BY <1>1 DEF Rows
      <3>2. f <= k + 1
        <4>1. CASE f = 1
          BY <3>1, <4>1, FileNumbers
        <4>2. CASE f # 1
          <5>1. f - 1 \in 1..(f - 1)
            BY <1>1, <4>2
          <5>2. f - 1 \in 1..k
            BY <1>2, <3>1, <5>1
          <5>3. QED BY <1>1, <5>2, FileNumbers
        <4>3. QED BY <4>1, <4>2
      <3>3. applied' \in {1..k, 1..(k + 1)} /\ applied' \subseteq Files
        <4>1. k \in Nat
          BY FileNumbers
        <4>2. CASE applied = 1..k /\ f <= k
          BY <1>1, <1>2, <2>1, <3>1, <4>1, <4>2
        <4>3. CASE applied = 1..k /\ f = k + 1
          <5>1. 1..(k + 1) = (1..k) \cup {k + 1}
            BY <4>1
          <5>2. QED BY <1>1, <1>2, <2>1, <3>1, <4>1, <4>3, <5>1
        <4>4. CASE applied = 1..(k + 1)
          BY <1>1, <1>2, <2>1, <3>1, <3>2, <4>1, <4>4
        <4>5. QED BY <1>1, <3>1, <3>2, <4>1, <4>2, <4>3, <4>4
      <3>4. recorded' = 1..k
        BY <1>1, <3>1
      <3>5. QED BY <3>3, <3>4 DEF Rows
    <2>4. recorded \subseteq recorded' /\ applied \subseteq applied' /\ overdue \subseteq overdue' /\ config' = config
      BY <1>1, <2>1
    <2>5. ASSUME pod'[p] = q, busy'[p] = busy[p] PROVE PodOK(p)'
      <3>1. f \in applied'
        BY <2>1
      <3>2. Migrated(pod[p])'
        BY <1>1, <1>2, <2>5, <3>1 DEF Migrated, PastMigrations
      <3>3. Drained(p, pod[p], busy[p])' /\ Built(pod[p])'
        BY <1>1, <1>2, <2>5 DEF Drained, Built
      <3>4. QED BY <3>2, <3>3 DEF PodOK
    <2>6. QED BY <1>3, <2>2, <2>3, <2>4, <2>5, DeployFrame
  <1>6. QED BY <1>4, <1>5 DEF ApplyMigration

LEMMA RecordMigrationKeeps ==
    ASSUME DeployInv, NEW p \in Pods, RecordMigration(p)
    PROVE  DeployInv'
  <1> DEFINE f == pod[p].file
  <1>1. /\ pod[p].at = "record" /\ UNCHANGED <<config, applied, busy, overdue>>
        /\ Migrated(pod[p]) /\ Built(pod[p]) /\ Rows /\ f \in Nat /\ f > 0
    BY PodOf DEF RecordMigration, schema
  <1>2. /\ \A g \in 1..(f - 1) : g \in recorded
        /\ f \in Files /\ f \in applied /\ validate(applyDefaults(config))
    BY <1>1 DEF Migrated, Built
  <1>3. busy' = [busy EXCEPT ![p] = busy[p]] /\ busy[p] \in SUBSET Works
    BY <1>1, PodOf, SameBusy
  <1>4. CASE f \in recorded
    <2>1. pod' = [pod EXCEPT ![p] = Down] /\ UNCHANGED <<config, applied, recorded, overdue>>
      BY <1>4, <1>1 DEF RecordMigration, schema
    <2>2. QED BY <2>1, <1>3, DownKeeps
  <1>5. CASE f \notin recorded
    <2> DEFINE q == [at |-> "check", file |-> f + 1, parts |-> pod[p].parts]
    <2>1. recorded' = recorded \cup {f} /\ pod' = [pod EXCEPT ![p].at = "check", ![p].file = f + 1]
      BY <1>5 DEF RecordMigration, schema
    <2>2. pod[p] \in [at : PodStages, file : Nat \ {0}, parts : SUBSET PartNames]
      BY PodOf DEF PodStates
    <2>3. /\ [pod[p] EXCEPT !.at = "check", !.file = f + 1] = q
          /\ f + 1 \in Nat \ {0} /\ "check" \in PodStages
      <3> DEFINE r == [at |-> "check", file |-> f, parts |-> pod[p].parts]
      <3>1. [pod[p] EXCEPT !.at = "check"] = r
        BY <2>2
      <3>2. [r EXCEPT !.file = f + 1] = q
        OBVIOUS
      <3>3. f + 1 \in Nat \ {0} /\ "check" \in PodStages
        BY <1>1 DEF PodStages
      <3> HIDE DEF r
      <3>4. [[pod[p] EXCEPT !.at = "check"] EXCEPT !.file = f + 1] = q
        BY <3>1, <3>2
      <3>5. QED BY <3>3, <3>4
    <2>4. q \in PodStates
      BY <2>2, <2>3 DEF PodStates
    <2>5. pod' = [pod EXCEPT ![p] = q]
      BY <2>1, <2>2, <2>3 DEF DeployInv, DeployTypes, PodStates
    <2>6. Rows'
      <3>1. PICK k \in 0..FileCount : recorded = 1..k /\ applied \in {1..k, 1..(k + 1)} /\ applied \subseteq Files
        BY <1>1 DEF Rows
      <3>2. k \in Nat /\ f = k + 1 /\ applied = 1..(k + 1)
        BY <1>1, <1>2, <1>5, <3>1, FileNumbers
      <3>3. 1..(k + 1) = (1..k) \cup {k + 1}
        BY <3>2
      <3>4. k + 1 \in 0..FileCount /\ recorded' = 1..(k + 1) /\ applied' = 1..(k + 1) /\ applied' \subseteq Files
        BY <1>1, <1>2, <2>1, <3>1, <3>2, <3>3, FileNumbers
      <3>5. QED BY <3>4 DEF Rows
    <2>7. recorded \subseteq recorded' /\ applied \subseteq applied' /\ overdue \subseteq overdue' /\ config' = config
      BY <1>1, <2>1
    <2>8. ASSUME pod'[p] = q, busy'[p] = busy[p] PROVE PodOK(p)'
      <3>1. \A g \in 1..((f + 1) - 1) : g \in recorded'
        BY <1>1, <1>2, <2>1
      <3>2. Migrated(pod[p])'
        BY <1>1, <2>8, <3>1 DEF Migrated, PastMigrations
      <3>3. Drained(p, pod[p], busy[p])' /\ Built(pod[p])'
        BY <1>1, <1>2, <2>8 DEF Drained, Built
      <3>4. QED BY <3>2, <3>3 DEF PodOK
    <2>9. QED BY <1>3, <2>4, <2>5, <2>6, <2>7, <2>8, DeployFrame
  <1>6. QED BY <1>4, <1>5

LEMMA InitObservabilityKeeps ==
    ASSUME DeployInv, NEW p \in Pods, InitObservability(p)
    PROVE  DeployInv'
  <1>1. PICK at \in {"connect", "refused"} : Goes(p, at)
    BY DEF InitObservability, schema
  <1> DEFINE q == [at |-> at, file |-> pod[p].file, parts |-> pod[p].parts]
  <1>2. at \in PodStages /\ UNCHANGED <<config, applied, recorded, busy, overdue>> /\ pod[p].at = "observe"
    BY DEF InitObservability, schema, PodStages
  <1>3. recorded = Files /\ validate(applyDefaults(config))
    BY <1>2, PodOf DEF Migrated, Built, PastMigrations
  <1>4. Migrated(q) /\ Drained(p, q, busy[p]) /\ Built(q)
    BY <1>3 DEF Migrated, Drained, Built, PastMigrations
  <1>5. QED BY <1>1, <1>2, <1>4, MoveKeeps

\* The steps of a pod that serves and of a shutdown that only move it on.
LEMMA ShutdownKeeps ==
    ASSUME DeployInv, NEW p \in Pods, Signal(p) \/ StopScheduler(p) \/ CloseListener(p)
    PROVE  DeployInv'
  <1>1. PICK at \in {"signalled", "stopping", "draining"} :
          Goes(p, at) /\ (at = "draining" => "job" \notin busy[p])
    BY DEF Signal, StopScheduler, CloseListener, schema
  <1> DEFINE q == [at |-> at, file |-> pod[p].file, parts |-> pod[p].parts]
  <1>2. /\ at \in PodStages /\ UNCHANGED <<config, applied, recorded, busy, overdue>>
        /\ pod[p].at \in {"serve", "signalled", "stopping"}
    BY DEF Signal, StopScheduler, CloseListener, schema, PodStages
  <1>3. recorded = Files /\ validate(applyDefaults(config))
    BY <1>2, PodOf DEF Migrated, Built, PastMigrations
  <1>4. Migrated(q) /\ Drained(p, q, busy[p]) /\ Built(q)
    BY <1>1, <1>3 DEF Migrated, Drained, Built, PastMigrations
  <1>5. QED BY <1>1, <1>2, <1>4, MoveKeeps

LEMMA PartsNamed == \A c, store : buildParts(c, store) \in SUBSET PartNames
  BY DEF buildParts, PartNames

LEMMA StartServerKeeps ==
    ASSUME DeployInv, NEW p \in Pods, StartServer(p)
    PROVE  DeployInv'
  <1>1. PICK store \in BOOLEAN :
          pod' = [pod EXCEPT ![p].at = "serve", ![p].parts = buildParts(applyDefaults(config), store)]
    BY DEF StartServer, schema
  <1> DEFINE B == buildParts(applyDefaults(config), store)
             q == [at |-> "serve", file |-> pod[p].file, parts |-> B]
             r == [at |-> "serve", file |-> pod[p].file, parts |-> pod[p].parts]
  <1>2. /\ pod[p].at = "connect" /\ UNCHANGED <<config, applied, recorded, busy, overdue>>
        /\ pod[p].file \in Nat \ {0}
    BY PodOf DEF StartServer, schema
  <1>3. recorded = Files /\ validate(applyDefaults(config))
    BY <1>2, PodOf DEF Migrated, Built, PastMigrations
  <1>4. B \in SUBSET PartNames
    BY PartsNamed
  <1>5. \E s \in BOOLEAN : B = buildParts(applyDefaults(config), s)
    OBVIOUS
  <1> HIDE DEF B
  <1>6. pod' = [pod EXCEPT ![p] = q] /\ q \in PodStates
    <2>1. pod[p] \in [at : PodStages, file : Nat \ {0}, parts : SUBSET PartNames]
      BY PodOf DEF PodStates
    <2>2. [pod[p] EXCEPT !.at = "serve"] = r
      BY <2>1
    <2>3. [r EXCEPT !.parts = B] = q
      OBVIOUS
    <2> HIDE DEF r
    <2>4. [[pod[p] EXCEPT !.at = "serve"] EXCEPT !.parts = B] = q
      BY <2>2, <2>3
    <2>5. pod' = [pod EXCEPT ![p] = [[pod[p] EXCEPT !.at = "serve"] EXCEPT !.parts = B]]
      BY <1>1, PodOf DEF DeployInv, DeployTypes, B
    <2>6. "serve" \in PodStages
      BY DEF PodStages
    <2>7. q \in PodStates
      BY <1>2, <1>4, <2>6 DEF PodStates
    <2>8. QED BY <2>4, <2>5, <2>7
  <1>7. Rows' /\ busy' = [busy EXCEPT ![p] = busy[p]] /\ busy[p] \in SUBSET Works
    BY <1>2, PodOf, SameBusy DEF Rows
  <1>8. recorded \subseteq recorded' /\ applied \subseteq applied' /\ overdue \subseteq overdue' /\ config' = config
    BY <1>2
  <1>9. ASSUME pod'[p] = q, busy'[p] = busy[p] PROVE PodOK(p)'
    <2>1. Migrated(pod[p])' /\ Drained(p, pod[p], busy[p])'
      BY <1>2, <1>3, <1>9 DEF Migrated, Drained
    <2>2. Built(pod[p])'
      BY <1>2, <1>3, <1>5, <1>9 DEF Built
    <2>3. QED BY <2>1, <2>2 DEF PodOK
  <1>10. QED BY <1>6, <1>7, <1>8, <1>9, DeployFrame

LEMMA ClosePoolKeeps ==
    ASSUME DeployInv, NEW p \in Pods, ClosePool(p)
    PROVE  DeployInv'
  <1> DEFINE q == [at |-> "closed", file |-> pod[p].file, parts |-> pod[p].parts]
  <1>1. /\ pod[p].at = "draining" /\ Goes(p, "closed") /\ UNCHANGED <<config, applied, recorded, busy>>
        /\ overdue \subseteq overdue' /\ ("request" \in busy[p] => p \in overdue') /\ "closed" \in PodStages
    BY DEF ClosePool, schema, PodStages
  <1>2. recorded = Files /\ validate(applyDefaults(config)) /\ "job" \notin busy[p]
    BY <1>1, PodOf DEF Migrated, Built, Drained, PastMigrations
  <1>3. q \in PodStates /\ pod' = [pod EXCEPT ![p] = q]
    BY <1>1, GoesState
  <1>4. Rows' /\ busy' = [busy EXCEPT ![p] = busy[p]] /\ busy[p] \in SUBSET Works
    BY <1>1, PodOf, SameBusy DEF Rows
  <1>5. recorded \subseteq recorded' /\ applied \subseteq applied' /\ overdue \subseteq overdue' /\ config' = config
    BY <1>1
  <1>6. ASSUME pod'[p] = q, busy'[p] = busy[p] PROVE PodOK(p)'
    BY <1>1, <1>2, <1>6 DEF PodOK, Migrated, Drained, Built, PastMigrations
  <1>7. QED BY <1>3, <1>4, <1>5, <1>6, DeployFrame

LEMMA ExitKeeps ==
    ASSUME DeployInv, NEW p \in Pods, Exit(p)
    PROVE  DeployInv'
  <1> DEFINE q == [at |-> "exited", file |-> pod[p].file, parts |-> pod[p].parts]
  <1>1. /\ pod[p].at = "closed" /\ Goes(p, "exited") /\ UNCHANGED <<config, applied, recorded, overdue>>
        /\ busy' = [busy EXCEPT ![p] = {}] /\ "exited" \in PodStages
    BY DEF Exit, schema, PodStages
  <1>2. validate(applyDefaults(config))
    BY <1>1, PodOf DEF Built
  <1>3. q \in PodStates /\ pod' = [pod EXCEPT ![p] = q]
    BY <1>1, GoesState
  <1>4. Rows' /\ busy' = [busy EXCEPT ![p] = {}] /\ {} \in SUBSET Works
    BY <1>1, PodOf DEF Rows
  <1>5. recorded \subseteq recorded' /\ applied \subseteq applied' /\ overdue \subseteq overdue' /\ config' = config
    BY <1>1
  <1>6. ASSUME pod'[p] = q, busy'[p] = {} PROVE PodOK(p)'
    BY <1>1, <1>2, <1>6 DEF PodOK, Migrated, Drained, Built, PastMigrations
  <1>7. QED BY <1>3, <1>4, <1>5, <1>6, DeployFrame

\* Work begins or ends: no job begins once the scheduler is stopped, and no
\* request once the listener is closed.
LEMMA WorkKeeps ==
    ASSUME DeployInv, NEW p \in Pods, Begins(p) \/ \E w \in Works : Ends(p, w)
    PROVE  DeployInv'
  <1>1. UNCHANGED <<config, applied, recorded, pod, overdue>>
    BY DEF Begins, Ends, schema
  <1>2. PICK b \in SUBSET Works : /\ busy' = [busy EXCEPT ![p] = b]
                                  /\ pod[p].at \in {"draining", "closed"} => b \subseteq busy[p] \cup {"worker"}
    <2>1. CASE Begins(p)
      <3>1. PICK w \in Works : /\ busy' = [busy EXCEPT ![p] = busy[p] \cup {w}]
                               /\ pod[p].at \in {"draining", "closed"} => w = "worker"
        BY <2>1 DEF Begins, Works
      <3>2. busy[p] \cup {w} \in SUBSET Works
        BY PodOf
      <3>3. QED BY <3>1, <3>2
    <2>2. CASE \E w \in Works : Ends(p, w)
      <3>1. PICK w \in Works : busy' = [busy EXCEPT ![p] = busy[p] \ {w}]
        BY <2>2 DEF Ends
      <3>2. busy[p] \ {w} \in SUBSET Works
        BY PodOf
      <3>3. QED BY <3>1, <3>2
    <2>3. QED BY <2>1, <2>2
  <1>3. pod[p] \in PodStates /\ pod' = [pod EXCEPT ![p] = pod[p]] /\ Rows'
    BY <1>1, PodOf DEF DeployInv, DeployTypes, Rows
  <1>4. recorded \subseteq recorded' /\ applied \subseteq applied' /\ overdue \subseteq overdue' /\ config' = config
    BY <1>1
  <1>5. ASSUME pod'[p] = pod[p], busy'[p] = b PROVE PodOK(p)'
    <2>1. Migrated(pod[p]) /\ Drained(p, pod[p], busy[p]) /\ Built(pod[p])
      BY PodOf
    <2>2. Migrated(pod[p])' /\ Built(pod[p])'
      BY <1>1, <2>1 DEF Migrated, Built
    <2>3. Drained(p, pod[p], busy[p])'
      BY <1>1, <1>2, <1>5, <2>1 DEF Drained
    <2>4. QED BY <2>2, <2>3 DEF PodOK
  <1>6. busy' = [busy EXCEPT ![p] = b]
    BY <1>2
  <1>7. QED BY <1>3, <1>4, <1>5, <1>6, DeployFrame

LEMMA DeployStepKeeps == DeployInv /\ [NextDeploy]_deployVars => DeployInv'
  <1> SUFFICES ASSUME DeployInv, [NextDeploy]_deployVars PROVE DeployInv'
    OBVIOUS
  <1>1. CASE UNCHANGED deployVars
    <2>1. UNCHANGED <<config, applied, recorded, pod, busy, overdue>>
      BY <1>1 DEF deployVars, schema
    <2>2. DeployTypes' /\ Rows'
      BY <2>1 DEF DeployInv, DeployTypes, Rows
    <2>3. ASSUME NEW p \in Pods PROVE PodOK(p)'
      BY <2>1, PodOf DEF PodOK, Migrated, Drained, Built
    <2>4. QED BY <2>2, <2>3 DEF DeployInv
  <1>2. ASSUME NEW p \in Pods, MigrateStep(p) PROVE DeployInv'
    BY <1>2, StartMigrateKeeps, CheckMigrationKeeps, ApplyMigrationKeeps, RecordMigrationKeeps DEF MigrateStep
  <1>3. ASSUME NEW p \in Pods, ServeStep(p) PROVE DeployInv'
    BY <1>3, InitObservabilityKeeps, StartServerKeeps, ShutdownKeeps, ClosePoolKeeps, ExitKeeps DEF ServeStep
  <1>4. ASSUME NEW p \in Pods, Crash(p) PROVE DeployInv'
    <2>1. /\ pod' = [pod EXCEPT ![p] = Down] /\ busy' = [busy EXCEPT ![p] = {}] /\ {} \in SUBSET Works
          /\ UNCHANGED <<config, applied, recorded, overdue>>
      BY <1>4 DEF Crash, schema
    <2>2. QED BY <2>1, DownKeeps
  <1>5. ASSUME NEW p \in Pods, Signal(p) PROVE DeployInv'
    BY <1>5, ShutdownKeeps
  <1>6. ASSUME NEW p \in Pods, Begins(p) \/ \E w \in {"job", "request", "worker"} : Ends(p, w) PROVE DeployInv'
    BY <1>6, WorkKeeps DEF Works
  <1>7. QED BY <1>1, <1>2, <1>3, <1>4, <1>5, <1>6 DEF NextDeploy

\* A step of pod p that brings no pod to the migrations, nor to a recorded file.
LEMMA OrderedFrame ==
    ASSUME Ordered, NEW p \in Pods, overlapped' = overlapped,
           \A d \in Pods : d # p => pod'[d] = pod[d],
           ~overlapped => undone' = {},
           pod'[p].at \in {"check", "apply", "record"} => InMigrations(p),
           pod'[p].at = "apply" => pod'[p].file \notin recorded',
           recorded' = recorded \/ InMigrations(p)
    PROVE  Ordered'
  <1> SUFFICES ASSUME ~overlapped PROVE Ordered'
    BY DEF Ordered
  <1>1. \A d \in Pods : InMigrations(d)' => InMigrations(d)
    BY DEF InMigrations
  <1>2. \A d, q \in Pods : InMigrations(d) /\ InMigrations(q) => d = q
    BY DEF Ordered
  <1>3. ASSUME NEW d \in Pods, pod'[d].at = "apply" PROVE pod'[d].file \notin recorded'
    <2>1. CASE d = p
      BY <1>3, <2>1
    <2>2. CASE d # p
      <3>1. pod[d].at = "apply" /\ pod'[d].file = pod[d].file
        BY <1>3, <2>2
      <3>2. recorded' = recorded
        BY <1>2, <2>2, <3>1 DEF InMigrations
      <3>3. QED BY <3>1, <3>2 DEF Ordered
    <2>3. QED BY <2>1, <2>2
  <1>4. QED BY <1>1, <1>2, <1>3 DEF Ordered

\* A lone pod applies the file after the last that is on record: there is no
\* newer one to undo.
LEMMA NothingUndone ==
    ASSUME DeployInv, Ordered, ~overlapped, NEW p \in Pods, pod[p].at = "apply"
    PROVE  Undone(pod[p].file) = {}
  <1> DEFINE f == pod[p].file
  <1>1. f \notin recorded /\ f \in Nat /\ f > 0
    BY PodOf DEF Ordered
  <1>2. \A g \in 1..(f - 1) : g \in recorded
    BY PodOf DEF Migrated
  <1>3. PICK k \in 0..FileCount : recorded = 1..k /\ applied \in {1..k, 1..(k + 1)}
    BY PodOf DEF Rows
  <1>4. k \in Nat /\ f > k
    BY <1>1, <1>3, FileNumbers
  <1>5. applied \subseteq 1..(k + 1)
    BY <1>3, <1>4
  <1>6. ASSUME NEW g \in applied, <<f, g>> \in Undoes PROVE FALSE
    <2>1. f < g
      BY <1>6, DeployConstants DEF DeployConstants
    <2>2. g \in 1..(k + 1)
      BY <1>5
    <2>3. QED BY <1>1, <1>4, <2>1, <2>2
  <1>7. QED BY <1>6 DEF Undone

LEMMA OrderedKeeps == DeployInv /\ Ordered /\ [NextDeploy]_deployVars => Ordered'
  <1> SUFFICES ASSUME DeployInv, Ordered, [NextDeploy]_deployVars PROVE Ordered'
    OBVIOUS
  <1>0. \A p \in Pods : pod[p] \in PodStates
    BY PodOf
  <1>1. CASE UNCHANGED deployVars
    BY <1>1 DEF deployVars, schema, Ordered, InMigrations
  <1>2. ASSUME NEW p \in Pods, StartMigrate(p) PROVE Ordered'
    <2>1. PICK at \in {"check", "refused"} : Goes(p, at)
      BY <1>2 DEF StartMigrate
    <2>2. /\ pod'[p].at = at /\ \A d \in Pods : d # p => pod'[d] = pod[d]
          /\ undone' = undone /\ recorded' = recorded
      BY <1>2, <2>1, <1>0 DEF Goes, StartMigrate, schema, PodStates, DeployInv, DeployTypes
    <2>3. overlapped' = (overlapped \/ \E q \in Pods \ {p} : InMigrations(q))
      BY <1>2 DEF StartMigrate
    <2>4. CASE overlapped'
      BY <2>4 DEF Ordered
    <2>5. CASE ~overlapped'
      <3>1. ~overlapped /\ \A q \in Pods : q # p => ~InMigrations(q)
        BY <2>3, <2>5
      <3>2. \A q \in Pods : q # p => ~InMigrations(q)'
        BY <2>2, <3>1 DEF InMigrations
      <3>3. undone' = {}
        BY <2>2, <3>1 DEF Ordered
      <3>4. \A q \in Pods : pod'[q].at # "apply"
        BY <2>2, <3>2 DEF InMigrations
      <3>5. QED BY <3>2, <3>3, <3>4 DEF Ordered
    <2>6. QED BY <2>4, <2>5
  <1>3. ASSUME NEW p \in Pods, CheckMigration(p) PROVE Ordered'
    <2>1. /\ pod[p].at = "check" /\ UNCHANGED <<undone, recorded, overlapped>>
          /\ \A d \in Pods : d # p => pod'[d] = pod[d]
      BY <1>3 DEF CheckMigration, Goes, schema, DeployInv, DeployTypes
    <2>2. CASE pod'[p].at # "apply"
      BY <2>1, <2>2, OrderedFrame DEF InMigrations, Ordered
    <2>3. CASE pod'[p].at = "apply"
      <3>1. pod[p].file \notin recorded /\ Goes(p, "apply")
        BY <1>0, <1>3, <2>1, <2>3 DEF CheckMigration, Goes, DeployInv, DeployTypes, PodStates
      <3>2. pod'[p].file = pod[p].file
        BY <1>0, <3>1 DEF Goes, DeployInv, DeployTypes, PodStates
      <3>3. QED BY <2>1, <3>1, <3>2, OrderedFrame DEF InMigrations, Ordered
    <2>4. QED BY <2>2, <2>3
  <1>4. ASSUME NEW p \in Pods, ApplyMigration(p) PROVE Ordered'
    <2>1. /\ pod[p].at = "apply" /\ UNCHANGED <<recorded, overlapped>>
          /\ \A d \in Pods : d # p => pod'[d] = pod[d]
          /\ pod'[p].at \in {"record", "down"}
      BY <1>4, <1>0 DEF ApplyMigration, Goes, Down, DeployInv, DeployTypes, PodStates
    <2>2. ~overlapped => undone' = {}
      <3> SUFFICES ASSUME ~overlapped PROVE undone' = {}
        OBVIOUS
      <3>1. undone = {} /\ Undone(pod[p].file) = {}
        BY <2>1, NothingUndone DEF Ordered
      <3>2. undone' = (undone \ {pod[p].file}) \cup Undone(pod[p].file) \/ undone' = undone
        BY <1>4 DEF ApplyMigration, schema
      <3>3. QED BY <3>1, <3>2
    <2>3. QED BY <2>1, <2>2, OrderedFrame DEF InMigrations
  <1>5. ASSUME NEW p \in Pods, RecordMigration(p) PROVE Ordered'
    <2>1. /\ pod[p].at = "record" /\ UNCHANGED <<undone, overlapped>>
          /\ \A d \in Pods : d # p => pod'[d] = pod[d]
          /\ pod'[p].at \in {"check", "down"}
      BY <1>5, <1>0 DEF RecordMigration, Down, schema, DeployInv, DeployTypes, PodStates
    <2>2. QED BY <2>1, OrderedFrame DEF InMigrations, Ordered
  \* A pod that serves, stops, works or crashes is in no migration afterwards.
  <1>6. ASSUME NEW p \in Pods, ServeStep(p) \/ Signal(p) \/ Crash(p) PROVE Ordered'
    <2>1. UNCHANGED <<undone, recorded, overlapped>>
      BY <1>6 DEF ServeStep, InitObservability, StartServer, StopScheduler, CloseListener, ClosePool, Exit,
                  Signal, Crash, schema
    <2>2. \A d \in Pods : d # p => pod'[d] = pod[d]
      BY <1>6 DEF ServeStep, InitObservability, StartServer, StopScheduler, CloseListener, ClosePool, Exit,
                  Signal, Crash, Goes, DeployInv, DeployTypes
    <2>3. pod'[p].at \notin {"check", "apply", "record"}
      <3>1. CASE Crash(p)
        BY <3>1 DEF Crash, Down, DeployInv, DeployTypes
      <3>2. CASE StartServer(p)
        BY <1>0, <3>2 DEF StartServer, DeployInv, DeployTypes, PodStates
      <3>3. CASE InitObservability(p) \/ StopScheduler(p) \/ CloseListener(p) \/ ClosePool(p) \/ Exit(p) \/ Signal(p)
        BY <1>0, <3>3 DEF InitObservability, StopScheduler, CloseListener, ClosePool, Exit, Signal, Goes,
                          DeployInv, DeployTypes, PodStates
      <3>4. QED BY <1>6, <3>1, <3>2, <3>3 DEF ServeStep
    <2>4. QED BY <2>1, <2>2, <2>3, OrderedFrame DEF Ordered
  <1>7. ASSUME NEW p \in Pods, Begins(p) \/ \E w \in {"job", "request", "worker"} : Ends(p, w) PROVE Ordered'
    <2>1. UNCHANGED <<pod, undone, recorded, overlapped>>
      BY <1>7 DEF Begins, Ends, schema
    <2>2. QED BY <2>1 DEF Ordered, InMigrations
  <1>8. QED BY <1>1, <1>2, <1>3, <1>4, <1>5, <1>6, <1>7 DEF NextDeploy, MigrateStep

-----------------------------------------------------------------------------
\* The record is a prefix of the files, the schema at most one file ahead, and
\* every pod has learned, holds and has built what its place in RunMigrations,
\* runServe and the shutdown says.
THEOREM DeployInvariant == SpecDeploy => [](DeployInv /\ Ordered)
  <1>1. InitDeploy => Ordered
    BY DownState DEF InitDeploy, Ordered, InMigrations
  <1>2. QED BY <1>1, InitDeployInv, DeployStepKeeps, OrderedKeeps, PTL DEF SpecDeploy

\* However the init containers race and wherever they crash, RunMigrations grows
\* the schema and its record file by file, a pod serves after all of them, and
\* the newest definition of each object stands if no two ever ran at one time.
THEOREM SchemaIsWhole == SpecDeploy => []SchemaBeforeServe
  <1>1. DeployInv /\ Ordered => SchemaBeforeServe
    <2> SUFFICES ASSUME DeployInv, Ordered PROVE SchemaBeforeServe
      OBVIOUS
    <2>1. Rows
      BY DEF DeployInv
    <2>2. \E k \in 0..FileCount : recorded = 1..k /\ applied \in {1..k, 1..(k + 1)}
      BY <2>1 DEF Rows
    <2>3. ASSUME NEW p \in Pods, Serving(p) PROVE applied = Files
      <3>1. recorded = Files
        BY <2>3, PodOf DEF Serving, Migrated, PastMigrations
      <3>2. recorded \subseteq applied /\ applied \subseteq Files
        BY <2>1, FileNumbers DEF Rows
      <3>3. QED BY <3>1, <3>2
    <2>4. ~overlapped => undone = {}
      BY DEF Ordered
    <2>5. QED BY <2>2, <2>3, <2>4 DEF SchemaBeforeServe
  <1>2. QED BY <1>1, DeployInvariant, PTL

\* The shutdown closes the pool only when no job runs, and cuts a request off
\* only after Shutdown's ten seconds.
THEOREM JobsKeepTheirPool == SpecDeploy => []PoolOutlivesJobs
  <1>1. DeployInv => PoolOutlivesJobs
    BY PodOf DEF PoolOutlivesJobs, Drained
  <1>2. QED BY <1>1, DeployInvariant, PTL

\* What validate accepts buildLLMBackend builds, and registerRoutes gives no pod
\* a route without its parts, but for /readyz and rescore.
THEOREM RoutesAreServed == SpecDeploy => []RoutesHaveParts
  <1>1. ASSUME NEW c, NEW store \in BOOLEAN, validate(c)
        PROVE  LET P == buildParts(c, store) IN
               /\ "extractor" \in P
               /\ "engine" \in P => "store" \in P
               /\ "web" \in P => "store" \in P
    BY <1>1 DEF validate, buildParts, buildLLMBackend
  <1>2. ASSUME NEW P, "web" \in P => "store" \in P, NEW r \in registerRoutes(P) \ {"readyz", "rescore"}
        PROVE  Uses[r] \subseteq P
    BY <1>2 DEF registerRoutes, Uses
  <1>3. DeployInv => RoutesHaveParts
    BY <1>1, <1>2, PodOf DEF RoutesHaveParts, Built
  <1>4. QED BY <1>3, DeployInvariant, PTL

-----------------------------------------------------------------------------
(* The labels. LabelTruthful speaks of traces nobody is about to label. To   *)
(* get there, the request that moved an alert last must carry its present    *)
(* state, and no second request may carry its trace too, or it is in raced.  *)

Row == [kind : Kinds, notified : BOOLEAN, dismissed : BOOLEAN]

Clicks == [traces : SUBSET Traces, value : {0, 1}]

ReviewTypes ==
  /\ \E n \in Nat : DOMAIN table = 1..n
  /\ table \in [DOMAIN table -> Row]
  /\ DOMAIN table \subseteq Alerts
  /\ click \in [Operators -> Clicks]
  /\ label \in [Traces -> {NoLabel, 0, 1}]
  /\ \A t \in Traces : AlertsOf(t) = {} => label[t] = NoLabel
  /\ \A o \in Operators : \A t \in click[o].traces : AlertsOf(t) # {}

Free(t) == \A o \in Operators : t \notin click[o].traces

\* The value v is the state of an alert of the trace.
Matches(t, v) == \E a \in AlertsOf(t) : v = 1 <=> table[a].dismissed

\* A trace that no requests raced for: its label, if none was lost since, or the
\* one that is on its way, is the state of one of its alerts.
Agreed(t) ==
  /\ Free(t) /\ t \notin missed /\ AlertsOf(t) # {} => Matches(t, label[t])
  /\ \A o \in Operators : t \in click[o].traces => Matches(t, click[o].value)
  /\ \A o, q \in Operators : t \in click[o].traces /\ t \in click[q].traces => o = q

ReviewInv == ReviewTypes /\ \A t \in Traces \ raced : Agreed(t)

LEMMA InitReviewInv == InitReview => ReviewInv
  <1> SUFFICES ASSUME InitReview PROVE ReviewInv
    OBVIOUS
  <1>1. table = <<>> /\ DOMAIN table = {} /\ 0 \in Nat /\ 1..0 = {}
    BY DEF InitReview
  <1>2. table \in [DOMAIN table -> Row]
    BY <1>1
  <1>3. NoClick \in Clicks /\ NoClick.traces = {}
    BY DEF NoClick, Clicks
  <1>4. click \in [Operators -> Clicks] /\ \A o \in Operators : click[o].traces = {}
    BY <1>3 DEF InitReview
  <1>5. label \in [Traces -> {NoLabel, 0, 1}] /\ \A t \in Traces : label[t] = NoLabel
    BY DEF InitReview
  <1>6. ReviewTypes
    BY <1>1, <1>2, <1>4, <1>5 DEF ReviewTypes
  <1>7. \A t \in Traces : Agreed(t)
    BY <1>1, <1>4 DEF Agreed, AlertsOf
  <1>8. QED BY <1>6, <1>7 DEF ReviewInv

\* The rows of a trace that stay as they are keep saying what they said.
LEMMA MatchFrame ==
    ASSUME NEW t, NEW v, Matches(t, v),
           \A a \in AlertsOf(t) : /\ a \in DOMAIN table' /\ table'[a].kind = table[a].kind
                                  /\ table'[a].dismissed = table[a].dismissed
    PROVE  \E a \in AlertsOf(t)' : v = 1 <=> table'[a].dismissed
  BY DEF Matches, AlertsOf

\* A step that neither labels nor decides, on a trace that has an alert.
LEMMA AgreedFrame ==
    ASSUME NEW t, Agreed(t), UNCHANGED <<click, label, missed>>,
           \A a \in AlertsOf(t) : /\ a \in DOMAIN table' /\ table'[a].kind = table[a].kind
                                  /\ table'[a].dismissed = table[a].dismissed,
           AlertsOf(t) = {} => AlertsOf(t)' = {}
    PROVE  Agreed(t)'
  <1>1. ASSUME Free(t)', t \notin missed', AlertsOf(t)' # {} PROVE Matches(t, label[t])'
    <2>1. Matches(t, label[t])
      BY <1>1 DEF Agreed, Free
    <2>2. \E a \in AlertsOf(t)' : label[t] = 1 <=> table'[a].dismissed
      BY <2>1, MatchFrame
    <2>3. QED BY <2>2 DEF Matches
  <1>2. ASSUME NEW o \in Operators, t \in click'[o].traces PROVE Matches(t, click[o].value)'
    <2>1. Matches(t, click[o].value)
      BY <1>2 DEF Agreed
    <2>2. \E a \in AlertsOf(t)' : click[o].value = 1 <=> table'[a].dismissed
      BY <2>1, MatchFrame
    <2>3. QED BY <2>2 DEF Matches
  <1>3. \A o, q \in Operators : t \in click'[o].traces /\ t \in click'[q].traces => o = q
    BY DEF Agreed
  <1>4. QED BY <1>1, <1>2, <1>3 DEF Agreed

LEMMA CreateAlertKeeps == ReviewInv /\ CreateAlert => ReviewInv'
  <1> SUFFICES ASSUME ReviewInv, NEW k \in Kinds,
                      LET a == Cardinality(DOMAIN table) + 1 IN
                      /\ a \in Alerts
                      /\ table' = [x \in DOMAIN table \cup {a} |->
                                     IF x = a THEN [kind |-> k, notified |-> FALSE, dismissed |-> FALSE] ELSE table[x]]
                      /\ UNCHANGED <<click, label, raced, missed>>
               PROVE  ReviewInv'
    BY DEF CreateAlert
  <1> DEFINE a == Cardinality(DOMAIN table) + 1
             D == DOMAIN table
             row == [kind |-> k, notified |-> FALSE, dismissed |-> FALSE]
  <1>1. PICK n \in Nat : D = 1..n
    BY DEF ReviewInv, ReviewTypes
  <1>2. a = n + 1
    <2>1. Cardinality(1..n) = n
      BY FS_Interval
    <2>2. QED BY <1>1, <2>1
  <1>3. a \notin D /\ D \cup {a} = 1..(n + 1) /\ n + 1 \in Nat /\ a \in Alerts
    BY <1>1, <1>2
  <1>4. row \in Row /\ row.dismissed = FALSE
    BY DEF Row
  <1> HIDE DEF row
  <1>5. /\ DOMAIN table' = D \cup {a} /\ table'[a] = row
        /\ \A x \in D : table'[x] = table[x]
    BY <1>3 DEF row
  <1>6. table' \in [DOMAIN table' -> Row]
    <2>1. table' = [x \in D \cup {a} |-> table'[x]]
      BY <1>5 DEF row
    <2>2. \A x \in D \cup {a} : table'[x] \in Row
      BY <1>4, <1>5 DEF ReviewInv, ReviewTypes
    <2>3. QED BY <1>5, <2>1, <2>2
  <1>7. \A t \in Traces : AlertsOf(t) \subseteq AlertsOf(t)'
    BY <1>5 DEF AlertsOf
  <1>8. ReviewTypes'
    <2>1. /\ D \subseteq Alerts /\ label \in [Traces -> {NoLabel, 0, 1}] /\ click \in [Operators -> Clicks]
          /\ \A t \in Traces : AlertsOf(t) = {} => label[t] = NoLabel
          /\ \A o \in Operators : \A t \in click[o].traces : t \in Traces /\ AlertsOf(t) # {}
      BY DEF ReviewInv, ReviewTypes, Clicks
    <2>2. /\ \A t \in Traces : AlertsOf(t)' = {} => label'[t] = NoLabel
          /\ \A o \in Operators : \A t \in click'[o].traces : AlertsOf(t)' # {}
      BY <1>7, <2>1
    <2>3. QED BY <1>3, <1>5, <1>6, <2>1, <2>2 DEF ReviewTypes
  <1>9. ASSUME NEW t \in Traces \ raced' PROVE Agreed(t)'
    <2>1. Agreed(t)
      BY <1>9 DEF ReviewInv
    <2>2. \A x \in AlertsOf(t) : x \in DOMAIN table' /\ table'[x] = table[x]
      BY <1>5 DEF AlertsOf
    <2>3. CASE AlertsOf(t) # {} \/ AlertsOf(t)' = {}
      BY <2>1, <2>2, <2>3, AgreedFrame
    <2>4. CASE AlertsOf(t) = {} /\ AlertsOf(t)' # {}
      <3>1. a \in AlertsOf(t)' /\ table'[a].dismissed = FALSE
        BY <1>4, <1>5, <2>4 DEF AlertsOf
      <3>2. label'[t] # 1
        BY <1>9, <2>4 DEF ReviewInv, ReviewTypes, NoLabel
      <3>3. \A o \in Operators : t \notin click'[o].traces
        BY <2>1, <2>4 DEF Agreed, Matches
      <3>4. Matches(t, label[t])'
        BY <3>1, <3>2 DEF Matches
      <3>5. QED BY <3>3, <3>4 DEF Agreed
    <2>5. QED BY <2>3, <2>4
  <1>10. QED BY <1>8, <1>9 DEF ReviewInv

\* The rows the two updates leave.
LEMMA RowUpdates ==
    ASSUME NEW r \in Row, NEW v \in BOOLEAN
    PROVE  /\ [r EXCEPT !.notified = v] = [kind |-> r.kind, notified |-> v, dismissed |-> r.dismissed]
           /\ [r EXCEPT !.dismissed = v] = [kind |-> r.kind, notified |-> r.notified, dismissed |-> v]
           /\ [kind |-> r.kind, notified |-> v, dismissed |-> r.dismissed] \in Row
           /\ [kind |-> r.kind, notified |-> r.notified, dismissed |-> v] \in Row
  <1>1. r \in [kind : Kinds, notified : BOOLEAN, dismissed : BOOLEAN]
    BY DEF Row
  <1>2. [r EXCEPT !.notified = v] = [kind |-> r.kind, notified |-> v, dismissed |-> r.dismissed]
    BY <1>1
  <1>3. [r EXCEPT !.dismissed = v] = [kind |-> r.kind, notified |-> r.notified, dismissed |-> v]
    BY <1>1
  <1>4. r.kind \in Kinds /\ r.notified \in BOOLEAN /\ r.dismissed \in BOOLEAN
    BY <1>1
  <1>5. QED BY <1>2, <1>3, <1>4 DEF Row

LEMMA MarkNotifiedKeeps == ReviewInv /\ MarkAlertNotified => ReviewInv'
  <1> SUFFICES ASSUME ReviewInv, NEW a \in DOMAIN table,
                      table' = [table EXCEPT ![a].notified = TRUE], UNCHANGED <<click, label, raced, missed>>
               PROVE  ReviewInv'
    BY DEF MarkAlertNotified
  <1>1. table[a] \in Row /\ TRUE \in BOOLEAN
    BY DEF ReviewInv, ReviewTypes
  <1>2. [table[a] EXCEPT !.notified = TRUE] = [kind |-> table[a].kind, notified |-> TRUE, dismissed |-> table[a].dismissed]
    BY <1>1, RowUpdates
  <1> DEFINE row == [kind |-> table[a].kind, notified |-> TRUE, dismissed |-> table[a].dismissed]
  <1>3. row \in Row /\ row.kind = table[a].kind /\ row.dismissed = table[a].dismissed
    BY <1>1, RowUpdates
  <1>4. table' = [table EXCEPT ![a] = row]
    BY <1>2
  <1> HIDE DEF row
  <1>5. DOMAIN table' = DOMAIN table /\ table' \in [DOMAIN table' -> Row]
    BY <1>3, <1>4 DEF ReviewInv, ReviewTypes
  <1>6. \A x \in DOMAIN table : table'[x].kind = table[x].kind /\ table'[x].dismissed = table[x].dismissed
    BY <1>3, <1>4 DEF ReviewInv, ReviewTypes
  <1>7. \A t : AlertsOf(t)' = AlertsOf(t)
    BY <1>5, <1>6 DEF AlertsOf
  <1>8. ReviewTypes'
    BY <1>5, <1>7 DEF ReviewInv, ReviewTypes
  <1>9. ASSUME NEW t \in Traces \ raced' PROVE Agreed(t)'
    <2>1. Agreed(t)
      BY <1>9 DEF ReviewInv
    <2>2. \A x \in AlertsOf(t) : x \in DOMAIN table
      BY DEF AlertsOf
    <2>3. QED BY <1>5, <1>6, <1>7, <2>1, <2>2, AgreedFrame
  <1>10. QED BY <1>8, <1>9 DEF ReviewInv

LEMMA SetDismissedKeeps ==
    ASSUME ReviewInv, NEW o \in Operators, NEW ids \in SUBSET DOMAIN table, NEW on \in BOOLEAN,
           SetDismissed(o, ids, on)
    PROVE  ReviewInv'
  <1> DEFINE D == DOMAIN table
             moved == {a \in ids : table[a].dismissed # on}
             traces == {table[a].kind.trace : a \in moved} \ {NoTrace}
             v == IF on /\ traces # {} THEN 1 ELSE 0
             others == UNION {traces \cap click[p].traces : p \in Operators \ {o}}
  <1>1. /\ click[o] = NoClick
        /\ table' = [a \in D |-> IF a \in moved THEN [table[a] EXCEPT !.dismissed = on] ELSE table[a]]
        /\ \/ click' = [click EXCEPT ![o] = [traces |-> traces, value |-> v]] /\ missed' = missed
           \/ missed' = missed \cup traces /\ click' = click
        /\ raced' = raced \cup others
        /\ label' = label
    BY DEF SetDismissed
  <1>2. /\ \A a \in D : table[a] \in Row
        /\ click \in [Operators -> Clicks]
        /\ moved \subseteq D
        /\ \A a \in moved : table[a].kind.trace \in Traces => table[a].kind.trace \in traces
        /\ \A t \in traces : \E a \in moved : table[a].kind.trace = t
        /\ \A t \in traces : \A q \in Operators : q # o /\ t \in click[q].traces => t \in others
    BY DEF ReviewInv, ReviewTypes, Traces
  <1>3. v \in {0, 1} /\ (traces # {} => (v = 1 <=> on))
    OBVIOUS
  <1>4. traces \subseteq Traces
    BY <1>2 DEF Traces, Row
  <1> HIDE DEF moved, traces, v, others
  <1>5. \A a \in D : /\ table'[a] \in Row /\ table'[a].kind = table[a].kind
                     /\ a \in moved => table'[a].dismissed = on
                     /\ a \notin moved => table'[a].dismissed = table[a].dismissed
    <2> SUFFICES ASSUME NEW a \in D
                 PROVE  /\ table'[a] \in Row /\ table'[a].kind = table[a].kind
                        /\ a \in moved => table'[a].dismissed = on
                        /\ a \notin moved => table'[a].dismissed = table[a].dismissed
      OBVIOUS
    <2>1. CASE a \in moved
      <3> DEFINE row == [kind |-> table[a].kind, notified |-> table[a].notified, dismissed |-> on]
      <3>1. [table[a] EXCEPT !.dismissed = on] = row /\ row \in Row
        BY <1>2, RowUpdates
      <3>2. table'[a] = [table[a] EXCEPT !.dismissed = on]
        BY <1>1, <2>1
      <3>3. row.kind = table[a].kind /\ row.dismissed = on
        OBVIOUS
      <3> HIDE DEF row
      <3>4. table'[a] = row
        BY <3>1, <3>2
      <3>5. QED BY <2>1, <3>1, <3>3, <3>4
    <2>2. CASE a \notin moved
      <3>1. table'[a] = table[a]
        BY <1>1, <2>2
      <3>2. QED BY <1>2, <2>2, <3>1
    <2>3. QED BY <2>1, <2>2
  <1>6. DOMAIN table' = D /\ table' \in [D -> Row]
    <2>1. DOMAIN table' = D /\ table' = [a \in D |-> table'[a]]
      BY <1>1
    <2>2. QED BY <1>5, <2>1
  <1>7. \A t : AlertsOf(t)' = AlertsOf(t)
    BY <1>5, <1>6 DEF AlertsOf
  <1>8. /\ click' \in [Operators -> Clicks] /\ click[o].traces = {}
        /\ \A q \in Operators : q # o => click'[q] = click[q]
        /\ \/ click'[o].traces = traces /\ click'[o].value = v /\ missed' = missed
           \/ click'[o].traces = {} /\ missed' = missed \cup traces
    <2>1. [traces |-> traces, value |-> v] \in Clicks
      BY <1>3, <1>4 DEF Clicks
    <2>2. click[o].traces = {}
      BY <1>1 DEF NoClick
    <2>3. CASE click' = [click EXCEPT ![o] = [traces |-> traces, value |-> v]] /\ missed' = missed
      BY <1>2, <2>1, <2>2, <2>3
    <2>4. CASE missed' = missed \cup traces /\ click' = click
      BY <1>2, <2>2, <2>4
    <2>5. QED BY <1>1, <2>3, <2>4
  <1>9. ReviewTypes'
    <2>1. \A t \in traces : AlertsOf(t)' # {}
      BY <1>2, <1>7 DEF AlertsOf
    <2>2. \A q \in Operators : \A t \in click'[q].traces : AlertsOf(t)' # {}
      BY <1>7, <1>8, <2>1 DEF ReviewInv, ReviewTypes
    <2>3. QED BY <1>1, <1>6, <1>7, <1>8, <2>2 DEF ReviewInv, ReviewTypes
  <1>10. ASSUME NEW t \in Traces \ raced' PROVE Agreed(t)'
    <2>1. Agreed(t) /\ t \notin others
      BY <1>1, <1>10 DEF ReviewInv
    <2>2. CASE t \in traces
      <3>1. \A q \in Operators : q # o => t \notin click'[q].traces
        BY <1>2, <1>8, <2>1, <2>2
      <3>2. PICK a \in AlertsOf(t)' : table'[a].dismissed = on
        BY <1>2, <1>5, <1>6, <2>2 DEF AlertsOf
      <3>3. ASSUME click'[o].traces = traces, click'[o].value = v PROVE Matches(t, click[o].value)'
        BY <1>3, <2>2, <3>2, <3>3 DEF Matches
      <3>4. QED BY <1>8, <2>2, <3>1, <3>3 DEF Agreed, Free
    <2>3. CASE t \notin traces
      <3>1. \A q \in Operators : /\ t \in click'[q].traces <=> t \in click[q].traces
                                 /\ t \in click'[q].traces => click'[q].value = click[q].value
        BY <1>8, <2>3
      <3>2. t \in missed' <=> t \in missed
        BY <1>8, <2>3
      <3>3. \A a \in AlertsOf(t) : /\ a \in DOMAIN table' /\ table'[a].kind = table[a].kind
                                   /\ table'[a].dismissed = table[a].dismissed
        BY <1>2, <1>5, <1>6, <2>3 DEF AlertsOf
      <3>4. ASSUME Free(t)', t \notin missed', AlertsOf(t)' # {} PROVE Matches(t, label[t])'
        <4>1. Matches(t, label[t])
          BY <1>7, <2>1, <3>1, <3>2, <3>4 DEF Agreed, Free
        <4>2. \E a \in AlertsOf(t)' : label[t] = 1 <=> table'[a].dismissed
          BY <3>3, <4>1, MatchFrame
        <4>3. QED BY <1>1, <4>2 DEF Matches
      <3>5. ASSUME NEW q \in Operators, t \in click'[q].traces PROVE Matches(t, click[q].value)'
        <4>1. Matches(t, click[q].value) /\ click'[q].value = click[q].value
          BY <2>1, <3>1, <3>5 DEF Agreed
        <4>2. \E a \in AlertsOf(t)' : click[q].value = 1 <=> table'[a].dismissed
          BY <3>3, <4>1, MatchFrame
        <4>3. QED BY <4>1, <4>2 DEF Matches
      <3>6. \A p, q \in Operators : t \in click'[p].traces /\ t \in click'[q].traces => p = q
        BY <2>1, <3>1 DEF Agreed
      <3>7. QED BY <3>4, <3>5, <3>6 DEF Agreed
    <2>4. QED BY <2>2, <2>3
  <1>11. QED BY <1>9, <1>10 DEF ReviewInv

LEMMA ScoreKeeps ==
    ASSUME ReviewInv, NEW o \in Operators, scoreOperatorDismissValue(o)
    PROVE  ReviewInv'
  <1>1. PICK t \in click[o].traces :
          /\ \/ label' = [label EXCEPT ![t] = click[o].value] /\ missed' = missed \ {t}
             \/ missed' = missed \cup {t} /\ label' = label
          /\ click' = [click EXCEPT ![o] = IF click[o].traces = {t} THEN NoClick
                                           ELSE [click[o] EXCEPT !.traces = @ \ {t}]]
    BY DEF scoreOperatorDismissValue, Labelled
  <1>2. UNCHANGED <<table, raced>>
    BY DEF scoreOperatorDismissValue
  <1>3. click \in [Operators -> Clicks] /\ label \in [Traces -> {NoLabel, 0, 1}]
    BY DEF ReviewInv, ReviewTypes
  <1>4. /\ click[o] \in [traces : SUBSET Traces, value : {0, 1}] /\ click[o].traces \subseteq Traces
        /\ click[o].value \in {0, 1} /\ t \in Traces
    BY <1>1, <1>3 DEF Clicks
  <1> DEFINE rest == [traces |-> click[o].traces \ {t}, value |-> click[o].value]
  <1>5. [click[o] EXCEPT !.traces = click[o].traces \ {t}] = rest
    BY <1>4
  <1>6. rest \in Clicks /\ NoClick \in Clicks
    BY <1>4 DEF NoClick, Clicks
  <1>7. PICK c \in Clicks :
          /\ click' = [click EXCEPT ![o] = c]
          /\ c.traces = click[o].traces \ {t}
          /\ c.traces # {} => c.value = click[o].value
    <2>1. CASE click[o].traces = {t}
      BY <1>1, <1>6, <2>1 DEF NoClick
    <2>2. CASE click[o].traces # {t}
      <3>1. rest.traces = click[o].traces \ {t} /\ rest.value = click[o].value
        OBVIOUS
      <3>2. click' = [click EXCEPT ![o] = [click[o] EXCEPT !.traces = click[o].traces \ {t}]]
        BY <1>1, <2>2
      <3> HIDE DEF rest
      <3>3. click' = [click EXCEPT ![o] = rest]
        BY <1>5, <3>2
      <3>4. QED BY <1>6, <3>1, <3>3
    <2>3. QED BY <2>1, <2>2
  <1>8. /\ click' \in [Operators -> Clicks]
        /\ click'[o] = c /\ \A q \in Operators : q # o => click'[q] = click[q]
    BY <1>3, <1>7
  <1>9. /\ label' \in [Traces -> {NoLabel, 0, 1}]
        /\ t \notin missed' => label'[t] = click[o].value
        /\ \A x \in Traces : x # t => label'[x] = label[x] /\ (x \in missed' <=> x \in missed)
    BY <1>1, <1>3, <1>4
  <1>10. \A x : AlertsOf(x)' = AlertsOf(x)
    BY <1>2 DEF AlertsOf
  <1>11. AlertsOf(t) # {}
    BY <1>1 DEF ReviewInv, ReviewTypes
  <1>12. ASSUME NEW x \in Traces \ raced' PROVE Agreed(x)'
    <2>1. Agreed(x)
      BY <1>2, <1>12 DEF ReviewInv
    <2>2. CASE x = t
      <3>1. /\ \A q \in Operators : x \in click[q].traces => q = o
            /\ Matches(x, click[o].value)
        BY <1>1, <2>1, <2>2 DEF Agreed
      <3>2. \A q \in Operators : x \notin click'[q].traces
        BY <1>7, <1>8, <2>2, <3>1
      <3>3. t \notin missed' => Matches(x, label[x])'
        BY <1>2, <1>9, <1>10, <2>2, <3>1 DEF Matches
      <3>4. QED BY <2>2, <3>2, <3>3 DEF Agreed
    <2>3. CASE x # t
      <3>1. \A q \in Operators : /\ x \in click'[q].traces <=> x \in click[q].traces
                                 /\ x \in click'[q].traces => click'[q].value = click[q].value
        BY <1>7, <1>8, <2>3
      <3>2. label'[x] = label[x] /\ (x \in missed' <=> x \in missed)
        BY <1>9, <2>3
      <3>3. QED BY <1>2, <1>10, <2>1, <3>1, <3>2 DEF Agreed, Free, Matches
    <2>4. QED BY <2>2, <2>3
  <1>13. ReviewTypes'
    <2>1. \A x \in Traces : AlertsOf(x)' = {} => label'[x] = NoLabel
      BY <1>9, <1>10, <1>11 DEF ReviewInv, ReviewTypes
    <2>2. \A q \in Operators : \A x \in click'[q].traces : AlertsOf(x)' # {}
      BY <1>7, <1>8, <1>10 DEF ReviewInv, ReviewTypes
    <2>3. QED BY <1>2, <1>8, <1>9, <2>1, <2>2 DEF ReviewInv, ReviewTypes
  <1>14. QED BY <1>12, <1>13 DEF ReviewInv

\* What the requests in hand had to post is lost with them.
LEMMA RequestsDieKeeps == ReviewInv /\ RequestsDie => ReviewInv'
  <1> SUFFICES ASSUME ReviewInv, RequestsDie PROVE ReviewInv'
    OBVIOUS
  <1>1. /\ UNCHANGED <<table, label, raced>>
        /\ click' = [o \in Operators |-> NoClick]
        /\ missed' = missed \cup UNION {click[o].traces : o \in Operators}
    BY DEF RequestsDie
  <1>2. NoClick \in Clicks /\ NoClick.traces = {}
    BY DEF NoClick, Clicks
  <1>3. click' \in [Operators -> Clicks] /\ \A o \in Operators : click'[o].traces = {}
    BY <1>1, <1>2
  <1>4. \A t : AlertsOf(t)' = AlertsOf(t)
    BY <1>1 DEF AlertsOf
  <1>5. ReviewTypes'
    BY <1>1, <1>3, <1>4 DEF ReviewInv, ReviewTypes
  <1>6. ASSUME NEW t \in Traces \ raced' PROVE Agreed(t)'
    <2>1. Agreed(t)
      BY <1>1, <1>6 DEF ReviewInv
    <2>2. t \notin missed' => Free(t) /\ t \notin missed
      BY <1>1 DEF Free
    <2>3. QED BY <1>1, <1>3, <1>4, <2>1, <2>2 DEF Agreed, Matches
  <1>7. QED BY <1>5, <1>6 DEF ReviewInv

LEMMA ReviewStepKeeps == ReviewInv /\ [NextReview]_reviewVars => ReviewInv'
  <1> SUFFICES ASSUME ReviewInv, [NextReview]_reviewVars PROVE ReviewInv'
    OBVIOUS
  <1>1. ASSUME UNCHANGED <<table, click, label, raced, missed>> PROVE ReviewInv'
    BY <1>1 DEF ReviewInv, ReviewTypes, Agreed, Free, Matches, AlertsOf
  <1>2. CASE ListPage \/ ListAlertsForReview \/ PageLink
    BY <1>1, <1>2 DEF ListPage, ListAlertsForReview, PageLink
  <1>3. CASE UNCHANGED reviewVars
    BY <1>1, <1>3 DEF reviewVars
  <1>4. ASSUME NEW o \in Operators, DismissAlerts(o) PROVE ReviewInv'
    <2>1. PICK ids \in SUBSET DOMAIN table : SetDismissed(o, ids, TRUE)
      BY <1>4 DEF DismissAlerts
    <2>2. QED BY <2>1, SetDismissedKeeps
  <1>5. ASSUME NEW o \in Operators, RestoreAlerts(o) PROVE ReviewInv'
    <2>1. PICK a \in DOMAIN table : SetDismissed(o, {a}, FALSE)
      BY <1>5 DEF RestoreAlerts
    <2>2. {a} \in SUBSET DOMAIN table
      OBVIOUS
    <2>3. QED BY <2>1, <2>2, SetDismissedKeeps
  <1>6. QED BY <1>2, <1>3, <1>4, <1>5, CreateAlertKeeps, MarkNotifiedKeeps, ScoreKeeps,
               RequestsDieKeeps DEF NextReview

\* The label of every trace, or the label that is on its way, is what the
\* operators decided on one of its alerts, unless their requests overlapped or
\* the last score of the trace was lost.
THEOREM ReviewInvariant == SpecReview => []ReviewInv
  BY InitReviewInv, ReviewStepKeeps, PTL DEF SpecReview

\* The score scoreOperatorDismissValue got to Langfuse last is the state of an
\* alert of the trace, for every trace whose dismissals and restorations did not
\* overlap and that lost no score since.
THEOREM LabelsAreTrue == SpecReview => []LabelTruthful
  <1>1. ReviewInv => LabelTruthful
    <2> SUFFICES ASSUME ReviewInv, NEW t \in Traces \ (raced \cup missed), AlertsOf(t) # {},
                        \A o \in Operators : t \notin click[o].traces
                 PROVE  \E a \in AlertsOf(t) : (label[t] = 1) = table[a].dismissed
      BY DEF LabelTruthful
    <2>1. Matches(t, label[t])
      BY DEF ReviewInv, Agreed, Free
    <2>2. \A a \in AlertsOf(t) : table[a].dismissed \in BOOLEAN
      BY DEF ReviewInv, ReviewTypes, Row, AlertsOf
    <2>3. QED BY <2>1, <2>2 DEF Matches
  <1>2. QED BY <1>1, ReviewInvariant, PTL

-----------------------------------------------------------------------------
(* A walk. NoneSkipped speaks of its end. Before that, a row that was wanted *)
(* and not shown yet has at least as many rows in front of it as the pages   *)
(* shown so far hold: rows may join them, and none leaves.                   *)

\* The arithmetic of totalPages.
LEMMA DivAbove == \A a \in Nat, b \in Nat \ {0} : a \div b \in Nat /\ a < b * (a \div b + 1)
  OBVIOUS

LEMMA LastPage ==
    ASSUME NEW total \in Nat, NEW perPage \in Nat \ {0}, NEW page \in Nat, ~(page < totalPages(total, perPage))
    PROVE  total <= page * perPage
  <1>1. CASE total = 0
    <2>1. page * perPage \in Nat
      OBVIOUS
    <2>2. QED BY <1>1, <2>1
  <1>2. CASE total # 0
    <2> DEFINE a == total + perPage - 1
               n == a \div perPage
    <2>1. a \in Nat /\ ~(page < n)
      BY <1>2 DEF totalPages
    <2>2. n \in Nat /\ a < perPage * (n + 1)
      BY <2>1, DivAbove
    <2> HIDE DEF n
    <2>3. perPage * (n + 1) <= perPage * (page + 1)
      <3>1. perPage * (page - n) \in Nat /\ perPage * (page - n) = perPage * (page + 1) - perPage * (n + 1)
        BY <2>1, <2>2
      <3>2. perPage * (n + 1) \in Nat /\ perPage * (page + 1) \in Nat
        BY <2>2
      <3>3. QED BY <3>1, <3>2
    <2>4. perPage * (page + 1) = page * perPage + perPage
      OBVIOUS
    <2>5. QED BY <2>1, <2>2, <2>3, <2>4
  <1>3. QED BY <1>1, <1>2

\* LIMIT and OFFSET.
LEMMA OnPage ==
    ASSUME NEW S, NEW s \in Seq(S), NEW q, q.page \in Nat \ {0}, q.perPage \in Nat \ {0},
           NEW k \in 1..Len(s), (q.page - 1) * q.perPage < k, k <= q.page * q.perPage
    PROVE  s[k] \in ToSet(Page(s, q))
  <1> DEFINE lo == (q.page - 1) * q.perPage
             hi == q.page * q.perPage
             end == IF hi < Len(s) THEN hi ELSE Len(s)
             p == SubSeq(s, lo + 1, end)
  <1>1. lo \in Nat /\ hi \in Nat /\ Page(s, q) = p /\ lo < k /\ k <= hi
    BY DEF Page
  <1> HIDE DEF lo, hi
  <1>2. end \in Nat /\ end <= Len(s) /\ k <= end
    BY <1>1
  <1> HIDE DEF end
  <1>3. k - lo \in 1..(end - lo) /\ lo + (k - lo) = k
    BY <1>1, <1>2
  <1>4. k - lo \in DOMAIN p /\ p[k - lo] = s[k]
    BY <1>1, <1>2, <1>3
  <1>5. QED BY <1>1, <1>4 DEF ToSet

SortKeys == {"score", "created", "watch"}

Scored(rows) == \A a \in rows : a \in Int /\ table[a].kind.score \in Int /\ table[a].kind.rank \in Int

\* The order of a query is strict between different rows.
LEMMA StrictOrder ==
    ASSUME NEW rows, Scored(rows), NEW sort \in SortKeys, NEW a \in rows, NEW b \in rows, a # b,
           alertReviewOrderBy(sort, a, b)
    PROVE  ~alertReviewOrderBy(sort, b, a)
  <1> DEFINE s == table[a].kind.score  t == table[b].kind.score
             v == table[a].kind.rank  w == table[b].kind.rank
  <1>1. a \in Int /\ b \in Int /\ s \in Int /\ t \in Int /\ v \in Int /\ w \in Int
    BY DEF Scored
  <1>2. CASE sort = "created"
    BY <1>1, <1>2 DEF alertReviewOrderBy
  <1>3. CASE sort = "watch"
    <2>1. /\ v < w \/ (v = w /\ (s > t \/ (s = t /\ a >= b)))
          /\ alertReviewOrderBy(sort, b, a) => w < v \/ (w = v /\ (t > s \/ (t = s /\ b >= a)))
      BY <1>3 DEF alertReviewOrderBy
    <2> HIDE DEF s, t, v, w
    <2>2. QED BY <1>1, <2>1
  <1>4. CASE sort = "score"
    <2>1. /\ s > t \/ (s = t /\ a >= b)
          /\ alertReviewOrderBy(sort, b, a) => t > s \/ (t = s /\ b >= a)
      BY <1>4 DEF alertReviewOrderBy
    <2> HIDE DEF s, t, v, w
    <2>2. QED BY <1>1, <2>1
  <1>5. QED BY <1>2, <1>3, <1>4 DEF SortKeys

\* The rows of a query that come before a.
Ahead(rows, sort, a) == {b \in rows \ {a} : alertReviewOrderBy(sort, b, a)}

\* Whatever the database returns, a row is where the rows before it put it.
LEMMA PlaceInOrder ==
    ASSUME NEW rows, IsFiniteSet(rows), Scored(rows), NEW sort \in SortKeys, NEW s \in Sorted(rows, sort)
    PROVE  /\ s \in Seq(rows) /\ Len(s) = Cardinality(rows)
           /\ \A a \in rows : \E k \in 1..Len(s) : s[k] = a /\ Cardinality(Ahead(rows, sort, a)) = k - 1
  <1> DEFINE n == Cardinality(rows)
  <1>1. n \in Nat
    BY FS_CardinalityType
  <1>2. s \in [1..n -> rows] /\ \A i, j \in 1..n : i # j => s[i] # s[j]
    BY DEF Sorted, SetToSeqs
  <1> HIDE DEF n
  <1>3. s \in Seq(rows) /\ Len(s) = n
    BY <1>1, <1>2
  <1>4. \A i, j \in 1..n : i < j => alertReviewOrderBy(sort, s[i], s[j])
    BY <1>3 DEF Sorted
  <1>5. s \in Surjection(1..n, rows)
    <2>1. s \in Injection(1..n, rows)
      BY <1>2 DEF Injection, IsInjective
    <2>2. IsFiniteSet(1..n) /\ Cardinality(1..n) = n
      BY <1>1, FS_Interval
    <2>3. QED BY <2>1, <2>2, FS_Injection DEF n
  <1>6. ASSUME NEW a \in rows
        PROVE  \E k \in 1..n : s[k] = a /\ Cardinality(Ahead(rows, sort, a)) = k - 1
    <2>1. PICK k \in 1..n : s[k] = a
      BY <1>5 DEF Surjection
    <2> DEFINE A == Ahead(rows, sort, a)
               f == [i \in 1..(k - 1) |-> s[i]]
    <2>2. \A i \in 1..(k - 1) : i \in 1..n /\ f[i] = s[i] /\ f[i] \in A
      BY <1>1, <1>2, <1>4, <2>1 DEF Ahead
    <2>3. \A b \in A : \E i \in 1..(k - 1) : f[i] = b
      <3> SUFFICES ASSUME NEW b \in A PROVE \E i \in 1..(k - 1) : s[i] = b
        OBVIOUS
      <3>1. b \in rows /\ b # a /\ alertReviewOrderBy(sort, b, a)
        BY DEF Ahead
      <3>2. PICK i \in 1..n : s[i] = b
        BY <1>5, <3>1 DEF Surjection
      <3>3. i # k
        BY <2>1, <3>1, <3>2
      <3>4. ~(k < i)
        BY <1>4, <2>1, <3>1, <3>2, StrictOrder
      <3>5. i \in 1..(k - 1)
        BY <1>1, <3>3, <3>4
      <3>6. QED BY <3>2, <3>5
    <2>4. f \in Bijection(1..(k - 1), A)
      <3> HIDE DEF A
      <3>1. f \in [1..(k - 1) -> A] /\ \A i, j \in 1..(k - 1) : f[i] = f[j] => i = j
        BY <1>2, <2>2
      <3>2. QED BY <2>3, <3>1 DEF Bijection, Injection, Surjection, IsInjective
    <2>5. IsFiniteSet(1..(k - 1)) /\ Cardinality(1..(k - 1)) = k - 1
      BY FS_Interval
    <2>6. Cardinality(A) = k - 1
      BY <2>4, <2>5, FS_Bijection DEF ExistsBijection
    <2>7. QED BY <2>1, <2>6
  <1>7. QED BY <1>3, <1>6 DEF n

\* What parsing and the defaults leave of a query.
QueryOK(q) ==
  /\ DOMAIN q = {"watch", "type", "status", "sort", "minScore", "page", "perPage"}
  /\ q.page \in Nat \ {0} /\ q.perPage \in Nat \ {0} /\ q.sort \in SortKeys

\* The rows that the query of the walk finds now.
Results == buildAlertReviewWhere(table, browse.query)

\* What is left to show has n rows or more in front.
Behind(n) ==
  \A a \in browse.wanted \ browse.shown : Cardinality(Ahead(Results, browse.query.sort, a)) >= n

\* After each page, and at the end, nothing that was wanted is behind.
Complete ==
  LET q == browse.query IN
  /\ browse.wanted \subseteq Results
  /\ browse.at = "list" => browse.total = Cardinality(Results) /\ Behind((q.page - 1) * q.perPage)
  /\ browse.at = "page" => Behind(q.page * q.perPage)
  /\ browse.at = "done" => browse.wanted \subseteq browse.shown

WalkInv ==
  browse.at # "none" =>
    /\ browse.at \in {"list", "page", "done"}
    /\ DOMAIN browse = {"at", "query", "total", "shown", "wanted", "disturbed"}
    /\ browse.disturbed \in BOOLEAN
    /\ QueryOK(browse.query)
    /\ ~browse.disturbed => Complete

LEMMA ResultsScored == ASSUME ReviewTypes, NEW q
    PROVE  LET rows == buildAlertReviewWhere(table, q) IN
           rows \subseteq DOMAIN table /\ IsFiniteSet(rows) /\ Scored(rows) /\ Cardinality(rows) \in Nat
  <1> DEFINE rows == buildAlertReviewWhere(table, q)
  <1>1. rows \subseteq DOMAIN table
    BY DEF buildAlertReviewWhere
  <1>2. PICK n \in Nat : DOMAIN table = 1..n
    BY DEF ReviewTypes
  <1>3. IsFiniteSet(1..n)
    BY <1>2, FS_Interval
  <1>4. IsFiniteSet(rows) /\ Cardinality(rows) \in Nat
    BY <1>1, <1>2, <1>3, FS_Subset, FS_CardinalityType
  <1>5. Scored(rows)
    <2> SUFFICES ASSUME NEW a \in rows PROVE a \in Int /\ table[a].kind.score \in Int /\ table[a].kind.rank \in Int
      BY DEF Scored
    <2>1. a \in 1..n /\ table[a].kind \in Kinds
      BY <1>1, <1>2 DEF ReviewTypes, Row
    <2>2. QED BY <2>1, ReviewConstants
  <1>6. QED BY <1>1, <1>4, <1>5

\* Alerts arrive, are notified, dismissed and restored.
LEMMA WalkGoesOn ==
    ASSUME ReviewTypes, ReviewTypes', WalkInv, browse' = Disturbed, DOMAIN table \subseteq DOMAIN table',
           \A a \in DOMAIN table : table'[a].kind = table[a].kind
    PROVE  WalkInv'
  <1>1. CASE browse.at = "none"
    BY <1>1 DEF Disturbed, WalkInv
  <1>2. CASE browse.at # "none"
    <2> DEFINE q == browse.query
               before == buildAlertReviewWhere(table, q)
               after == buildAlertReviewWhere(table', q)
    <2>1. PICK d : d = (browse.disturbed \/ before \ after # {} \/ (browse.at = "list" /\ before # after))
      OBVIOUS
    <2>2. browse' = [browse EXCEPT !.disturbed = d]
      BY <1>2, <2>1, Zenon DEF Disturbed
    <2>3. /\ browse.at \in {"list", "page", "done"} /\ browse.disturbed \in BOOLEAN /\ QueryOK(browse.query)
          /\ DOMAIN browse = {"at", "query", "total", "shown", "wanted", "disturbed"}
          /\ ~browse.disturbed => Complete
      BY <1>2 DEF WalkInv
    <2>4. /\ browse'.at = browse.at /\ browse'.query = browse.query /\ browse'.total = browse.total
          /\ browse'.shown = browse.shown /\ browse'.wanted = browse.wanted /\ browse'.disturbed = d
          /\ DOMAIN browse' = DOMAIN browse
      BY <2>2, <2>3
    <2>5. d \in BOOLEAN
      BY <2>1
    <2>6. ASSUME ~d PROVE Complete'
      <3>1. before \subseteq after /\ (browse.at = "list" => before = after) /\ ~browse.disturbed
        BY <2>1, <2>6
      <3>2. before \subseteq DOMAIN table /\ IsFiniteSet(before) /\ IsFiniteSet(after)
        <4>1. IsFiniteSet(DOMAIN table')
          <5>1. PICK m \in Nat : DOMAIN table' = 1..m
            BY DEF ReviewTypes
          <5>2. IsFiniteSet(1..m)
            BY <5>1, FS_Interval
          <5>3. QED BY <5>1, <5>2
        <4>2. after \subseteq DOMAIN table'
          BY DEF buildAlertReviewWhere
        <4>3. QED BY <4>1, <4>2, FS_Subset, ResultsScored
      <3>3. Results = before /\ Results' = after
        BY <2>4 DEF Results
      <3>4. ASSUME NEW a \in before
            PROVE  /\ Cardinality(Ahead(Results, q.sort, a)) <= Cardinality(Ahead(Results, browse.query.sort, a)')
                   /\ Cardinality(Ahead(Results, q.sort, a)) \in Nat
                   /\ Cardinality(Ahead(Results, browse.query.sort, a)') \in Nat
        <4> DEFINE B == Ahead(Results, q.sort, a)
                   A == Ahead(Results, browse.query.sort, a)'
        <4>1. A = {b \in after \ {a} : alertReviewOrderBy(q.sort, b, a)'}
          BY <2>4, <3>3 DEF Ahead
        <4>2. ASSUME NEW b \in before PROVE alertReviewOrderBy(q.sort, b, a)' <=> alertReviewOrderBy(q.sort, b, a)
          BY <2>4, <3>2, <3>4, <4>2 DEF alertReviewOrderBy
        <4>3. B = {b \in before \ {a} : alertReviewOrderBy(q.sort, b, a)}
          BY <3>3 DEF Ahead
        <4>4. B \subseteq A /\ A \subseteq after /\ B \subseteq before
          BY <3>1, <4>1, <4>2, <4>3
        <4> HIDE DEF A, B
        <4>5. IsFiniteSet(A) /\ Cardinality(A) \in Nat /\ Cardinality(B) \in Nat /\ Cardinality(B) <= Cardinality(A)
          BY <3>2, <4>4, FS_Subset, FS_CardinalityType
        <4>6. QED BY <4>5 DEF A, B
      <3>5. Complete
        BY <2>3, <3>1
      <3>6. ASSUME NEW n \in Nat, Behind(n), browse.wanted \subseteq before PROVE Behind(n)'
        <4> SUFFICES ASSUME NEW a \in browse.wanted \ browse.shown
                     PROVE  Cardinality(Ahead(Results, browse.query.sort, a)') >= n
          BY <2>4 DEF Behind
        <4>1. a \in before /\ Cardinality(Ahead(Results, q.sort, a)) >= n
          BY <3>6 DEF Behind
        <4>2. QED BY <3>4, <4>1
      <3>7. (q.page - 1) * q.perPage \in Nat /\ q.page * q.perPage \in Nat
        BY <2>3 DEF QueryOK
      <3> HIDE DEF before, after
      <3>8. QED BY <2>4, <3>1, <3>3, <3>5, <3>6, <3>7 DEF Complete
    <2>7. QED BY <2>3, <2>4, <2>5, <2>6 DEF WalkInv
  <1>3. QED BY <1>1, <1>2

\* Statements that leave the alerts alone.
LEMMA ParsedQuery == ASSUME NEW url \in Queries
                     PROVE  LET q == alertReviewDefaults(parseAlertsListQuery(url)) IN QueryOK(q)
  <1> DEFINE p == parseAlertsListQuery(url)
  <1>1. ASSUME NEW raw \in {url.minScore, url.page, url.perPage}, NEW fallback \in Nat \ {0}, NEW max \in {0, 100},
               fallback <= 100
        PROVE  parseIntDefault(raw, fallback, 1, max) \in Nat \ {0}
    <2>1. DOMAIN raw = {"i"} => raw.i \in Int
      BY ReviewConstants
    <2>2. QED BY <1>1, <2>1 DEF parseIntDefault
  <1>2. p.page \in Nat \ {0} /\ p.perPage \in Nat \ {0} /\ p.sort \in SortKeys
    BY <1>1 DEF parseAlertsListQuery, parseSort, SortKeys
  <1>3. DOMAIN p = {"watch", "type", "status", "sort", "minScore", "page", "perPage"}
    BY DEF parseAlertsListQuery
  <1>4. QED BY <1>2, <1>3 DEF alertReviewDefaults, QueryOK

\* The first page is counted: nothing is in front of its first row.
LEMMA ListPageKeeps == ReviewTypes /\ ListPage => WalkInv'
  <1> SUFFICES ASSUME ReviewTypes, ListPage PROVE WalkInv'
    OBVIOUS
  <1>1. PICK url \in Queries :
          LET q == alertReviewDefaults(parseAlertsListQuery(url))
              rows == buildAlertReviewWhere(table, q)
          IN  browse' = [at |-> "list", query |-> q, total |-> Cardinality(rows), shown |-> {},
                         wanted |-> IF q.page = 1 THEN rows ELSE {}, disturbed |-> FALSE]
    BY DEF ListPage
  <1>2. PICK q : q = alertReviewDefaults(parseAlertsListQuery(url))
    OBVIOUS
  <1> DEFINE rows == buildAlertReviewWhere(table, q)
  <1>3. QueryOK(q)
    BY <1>2, ParsedQuery
  <1>4. table' = table
    BY DEF ListPage
  <1>5. /\ browse'.at = "list" /\ browse'.query = q /\ browse'.total = Cardinality(rows) /\ browse'.shown = {}
        /\ browse'.wanted = (IF q.page = 1 THEN rows ELSE {}) /\ browse'.disturbed = FALSE
        /\ DOMAIN browse' = {"at", "query", "total", "shown", "wanted", "disturbed"}
    BY <1>1, <1>2
  <1>6. Results' = rows
    BY <1>4, <1>5 DEF Results, buildAlertReviewWhere
  <1>7. Behind((q.page - 1) * q.perPage)'
    <2> SUFFICES ASSUME NEW a \in browse'.wanted
                 PROVE  Cardinality(Ahead(Results, browse.query.sort, a)') >= (q.page - 1) * q.perPage
      BY <1>5 DEF Behind
    <2>1. q.page - 1 = 0 /\ 0 * q.perPage = 0
      BY <1>3, <1>5 DEF QueryOK
    <2>2. IsFiniteSet(rows)
      BY ResultsScored
    <2>3. Ahead(Results, browse.query.sort, a)' \subseteq rows
      BY <1>6 DEF Ahead
    <2>4. Cardinality(Ahead(Results, browse.query.sort, a)') \in Nat
      BY <2>2, <2>3, FS_Subset, FS_CardinalityType
    <2>5. QED BY <2>1, <2>4
  <1>8. Complete'
    BY <1>3, <1>5, <1>6, <1>7 DEF Complete
  <1>9. QED BY <1>3, <1>5, <1>8 DEF WalkInv

\* The next page: as many rows are in front as the pages before it hold.
LEMMA PageLinkKeeps == ReviewTypes /\ WalkInv /\ PageLink => WalkInv'
  <1> SUFFICES ASSUME ReviewTypes, WalkInv, PageLink PROVE WalkInv'
    OBVIOUS
  <1> DEFINE q == browse.query
             q1 == [q EXCEPT !.page = @ + 1]
             n == Cardinality(Results)
  <1>1. /\ browse.disturbed \in BOOLEAN /\ QueryOK(q) /\ (~browse.disturbed => Complete) /\ browse.at = "page"
        /\ DOMAIN browse = {"at", "query", "total", "shown", "wanted", "disturbed"}
    BY DEF WalkInv, PageLink
  <1>2. browse' = [browse EXCEPT !.at = "list", !.query.page = @ + 1, !.total = n] /\ table' = table
    BY DEF PageLink, Results
  <1>3. /\ browse'.at = "list" /\ browse'.query = q1 /\ browse'.total = n /\ browse'.shown = browse.shown
        /\ browse'.wanted = browse.wanted /\ browse'.disturbed = browse.disturbed /\ DOMAIN browse' = DOMAIN browse
    <2> HIDE DEF n
    <2>1. QED BY <1>1, <1>2, Zenon
  <1>4. /\ DOMAIN q1 = DOMAIN q /\ q1.page = q.page + 1 /\ q1.perPage = q.perPage /\ q1.sort = q.sort
        /\ q1.status = q.status /\ q1.minScore = q.minScore /\ q1.type = q.type /\ q1.watch = q.watch
    BY <1>1 DEF QueryOK
  <1>5. QueryOK(q1)
    BY <1>1, <1>4 DEF QueryOK
  <1>6. Results' = Results
    BY <1>2, <1>3, <1>4 DEF Results, buildAlertReviewWhere
  <1>7. ASSUME NEW a PROVE Ahead(Results, browse.query.sort, a)' = Ahead(Results, q.sort, a)
    BY <1>2, <1>3, <1>4, <1>6 DEF Ahead, alertReviewOrderBy
  <1>8. PICK shown : shown = q.page * q.perPage
    OBVIOUS
  <1>9. ASSUME Complete PROVE Complete'
    <2>1. Behind(shown)
      BY <1>1, <1>8, <1>9 DEF Complete
    <2>2. Behind(shown)'
      BY <1>3, <1>7, <2>1 DEF Behind
    <2>3. (browse'.query.page - 1) * browse'.query.perPage = shown
      BY <1>1, <1>3, <1>4, <1>8 DEF QueryOK
    <2>4. QED BY <1>3, <1>6, <1>9, <2>2, <2>3 DEF Complete
  <1>10. QED BY <1>1, <1>3, <1>5, <1>9 DEF WalkInv

\* A page is shown: a row that is still left comes after it, and after the
\* last page there is none.
LEMMA ListAlertsKeeps == ReviewTypes /\ WalkInv /\ ListAlertsForReview => WalkInv'
  <1> SUFFICES ASSUME ReviewTypes, WalkInv, ListAlertsForReview PROVE WalkInv'
    OBVIOUS
  <1> DEFINE q == browse.query
             last == ~(q.page < totalPages(browse.total, q.perPage))
  <1>1. /\ browse.disturbed \in BOOLEAN /\ QueryOK(q) /\ (~browse.disturbed => Complete) /\ browse.at = "list"
        /\ DOMAIN browse = {"at", "query", "total", "shown", "wanted", "disturbed"}
    BY DEF WalkInv, ListAlertsForReview
  <1>2. PICK s \in Sorted(Results, q.sort) :
          browse' = [browse EXCEPT !.at = IF q.page < totalPages(browse.total, q.perPage) THEN "page" ELSE "done",
                                   !.shown = @ \cup ToSet(Page(s, q))]
    BY DEF ListAlertsForReview, Results
  <1>3. table' = table
    BY DEF ListAlertsForReview
  <1>4. PICK at, page : at = (IF last THEN "done" ELSE "page") /\ page = browse.shown \cup ToSet(Page(s, q))
    OBVIOUS
  <1>5. browse' = [browse EXCEPT !.at = at, !.shown = page]
    BY <1>2, <1>4
  <1>6. /\ browse'.at = at /\ browse'.query = browse.query /\ browse'.total = browse.total /\ browse'.shown = page
        /\ browse'.wanted = browse.wanted /\ browse'.disturbed = browse.disturbed /\ DOMAIN browse' = DOMAIN browse
    BY <1>1, <1>5, Zenon
  <1>7. Results' = Results
    BY <1>3, <1>6 DEF Results, buildAlertReviewWhere
  <1>8. ASSUME NEW a PROVE Ahead(Results, browse.query.sort, a)' = Ahead(Results, q.sort, a)
    BY <1>3, <1>6, <1>7 DEF Ahead, alertReviewOrderBy
  <1>9. ASSUME Complete PROVE Complete'
    <2>1. PICK before : before = (q.page - 1) * q.perPage
      OBVIOUS
    <2>2. PICK after : after = q.page * q.perPage
      OBVIOUS
    <2>3. before \in Nat /\ after \in Nat
      BY <1>1, <2>1, <2>2 DEF QueryOK
    <2>4. browse.wanted \subseteq Results /\ browse.total = Cardinality(Results) /\ Behind(before)
      BY <1>1, <1>9, <2>1 DEF Complete
    <2>5. /\ s \in Seq(Results) /\ Len(s) = Cardinality(Results) /\ Len(s) \in Nat
          /\ \A a \in Results : \E k \in 1..Len(s) : s[k] = a /\ Cardinality(Ahead(Results, q.sort, a)) = k - 1
      <3>1. IsFiniteSet(Results) /\ Scored(Results) /\ q.sort \in SortKeys /\ Cardinality(Results) \in Nat
        BY <1>1, ResultsScored DEF Results, QueryOK
      <3>2. QED BY <1>2, <3>1, PlaceInOrder
    <2>6. ASSUME NEW a \in browse.wanted \ page
          PROVE  Cardinality(Ahead(Results, q.sort, a)) >= after /\ after < Len(s)
      <3>1. PICK k \in 1..Len(s) : s[k] = a /\ Cardinality(Ahead(Results, q.sort, a)) = k - 1
        BY <2>4, <2>5, <2>6
      <3>2. before < k
        <4>1. a \in browse.wanted \ browse.shown
          BY <1>4, <2>6
        <4>2. Cardinality(Ahead(Results, q.sort, a)) >= before
          BY <2>4, <4>1 DEF Behind
        <4>3. QED BY <2>3, <3>1, <4>2
      <3>3. ~(k <= after)
        <4>1. SUFFICES ASSUME k <= after PROVE FALSE
          OBVIOUS
        <4>2. s[k] \in ToSet(Page(s, q))
          BY <1>1, <2>1, <2>2, <2>5, <3>2, <4>1, OnPage DEF QueryOK
        <4>3. QED BY <1>4, <2>6, <3>1, <4>2
      <3>4. QED BY <2>3, <2>5, <3>1, <3>3
    <2>7. CASE last
      <3>1. browse.total <= after
        BY <1>1, <2>2, <2>4, <2>5, <2>7, LastPage DEF QueryOK
      <3>2. browse.wanted \subseteq page
        BY <2>3, <2>4, <2>5, <2>6, <3>1
      <3>3. QED BY <1>4, <1>6, <1>7, <2>4, <2>7, <3>2 DEF Complete
    <2>8. CASE ~last
      <3>1. Behind(after)'
        BY <1>6, <1>8, <2>6 DEF Behind
      <3>2. browse'.query.page * browse'.query.perPage = after
        BY <1>6, <2>2
      <3>3. QED BY <1>4, <1>6, <1>7, <2>4, <2>8, <3>1, <3>2 DEF Complete
    <2>9. QED BY <2>7, <2>8
  <1>10. at \in {"list", "page", "done"}
    BY <1>4
  <1>11. QED BY <1>1, <1>6, <1>9, <1>10 DEF WalkInv

LEMMA WalkStep == ReviewInv /\ ReviewInv' /\ WalkInv /\ [NextReview]_reviewVars => WalkInv'
  <1> SUFFICES ASSUME ReviewInv, ReviewInv', WalkInv, [NextReview]_reviewVars PROVE WalkInv'
    OBVIOUS
  <1>1. ReviewTypes /\ ReviewTypes'
    BY DEF ReviewInv
  <1>2. ASSUME UNCHANGED <<table, browse>> PROVE WalkInv'
    <2>1. Results' = Results
      BY <1>2 DEF Results, buildAlertReviewWhere
    <2>2. ASSUME NEW a PROVE Ahead(Results, browse.query.sort, a)' = Ahead(Results, browse.query.sort, a)
      BY <1>2, <2>1 DEF Ahead, alertReviewOrderBy
    <2>3. ASSUME NEW n, Behind(n) PROVE Behind(n)'
      BY <1>2, <2>2, <2>3 DEF Behind
    <2>4. PICK before, after : /\ before = (browse.query.page - 1) * browse.query.perPage
                              /\ after = browse.query.page * browse.query.perPage
      OBVIOUS
    <2>5. ASSUME Complete PROVE Complete'
      <3>1. (browse.at = "list" => Behind(before)') /\ (browse.at = "page" => Behind(after)')
        BY <2>3, <2>4, <2>5 DEF Complete
      <3>2. QED BY <1>2, <2>1, <2>4, <2>5, <3>1 DEF Complete
    <2>6. browse' = browse
      BY <1>2
    <2>7. QED BY <2>5, <2>6 DEF WalkInv, QueryOK
  <1>3. CASE UNCHANGED reviewVars \/ RequestsDie \/ \E o \in Operators : scoreOperatorDismissValue(o)
    BY <1>2, <1>3 DEF reviewVars, RequestsDie, scoreOperatorDismissValue
  <1>4. CASE CreateAlert
    <2>1. PICK a, row : table' = [x \in DOMAIN table \cup {a} |-> IF x = a THEN row ELSE table[x]]
                        /\ a = Cardinality(DOMAIN table) + 1 /\ browse' = Disturbed
      BY <1>4 DEF CreateAlert
    <2>2. PICK n \in Nat : DOMAIN table = 1..n
      BY <1>1 DEF ReviewTypes
    <2>3. Cardinality(1..n) = n
      BY <2>2, FS_Interval
    <2>4. a \notin DOMAIN table
      BY <2>1, <2>2, <2>3
    <2>5. DOMAIN table \subseteq DOMAIN table' /\ \A x \in DOMAIN table : table'[x] = table[x]
      BY <2>1, <2>4
    <2>6. QED BY <1>1, <2>1, <2>5, WalkGoesOn
  <1>5. CASE MarkAlertNotified
    <2>1. PICK a \in DOMAIN table : table' = [table EXCEPT ![a].notified = TRUE] /\ browse' = Disturbed
      BY <1>5 DEF MarkAlertNotified
    <2>2. table[a] \in Row /\ TRUE \in BOOLEAN
      BY <1>1 DEF ReviewTypes
    <2>3. [table[a] EXCEPT !.notified = TRUE].kind = table[a].kind
      BY <2>2, RowUpdates
    <2>4. DOMAIN table' = DOMAIN table /\ \A x \in DOMAIN table : table'[x].kind = table[x].kind
      BY <2>1, <2>3
    <2>5. QED BY <1>1, <2>1, <2>4, WalkGoesOn
  <1>6. ASSUME NEW o \in Operators, NEW ids \in SUBSET DOMAIN table, NEW on \in BOOLEAN, SetDismissed(o, ids, on)
        PROVE  WalkInv'
    <2>1. PICK moved : /\ table' = [a \in DOMAIN table |->
                                      IF a \in moved THEN [table[a] EXCEPT !.dismissed = on] ELSE table[a]]
                       /\ browse' = Disturbed
      BY <1>6 DEF SetDismissed
    <2>2. ASSUME NEW a \in DOMAIN table PROVE table'[a].kind = table[a].kind
      <3>1. table[a] \in Row
        BY <1>1 DEF ReviewTypes
      <3>2. [table[a] EXCEPT !.dismissed = on].kind = table[a].kind
        BY <3>1, RowUpdates
      <3>3. table'[a] = (IF a \in moved THEN [table[a] EXCEPT !.dismissed = on] ELSE table[a])
        BY <2>1
      <3>4. QED BY <3>2, <3>3
    <2>3. DOMAIN table' = DOMAIN table
      BY <2>1
    <2>4. QED BY <1>1, <2>1, <2>2, <2>3, WalkGoesOn
  <1>7. ASSUME NEW o \in Operators, DismissAlerts(o) \/ RestoreAlerts(o) PROVE WalkInv'
    <2>1. CASE DismissAlerts(o)
      BY <1>6, <2>1 DEF DismissAlerts
    <2>2. CASE RestoreAlerts(o)
      <3>1. PICK a \in DOMAIN table : SetDismissed(o, {a}, FALSE)
        BY <2>2 DEF RestoreAlerts
      <3>2. {a} \in SUBSET DOMAIN table
        OBVIOUS
      <3>3. QED BY <1>6, <3>1, <3>2
    <2>3. QED BY <1>7, <2>1, <2>2
  <1>8. QED BY <1>1, <1>3, <1>4, <1>5, <1>7, ListPageKeeps, PageLinkKeeps, ListAlertsKeeps DEF NextReview

\* A walk that nothing disturbs has shown, at its n-th page, every row that was
\* wanted and has fewer than n pages of rows in front of it.
THEOREM WalkInvariant == SpecReview => []WalkInv
  <1>1. InitReview => WalkInv
    BY DEF InitReview, NoWalk, WalkInv
  <1>2. QED BY <1>1, WalkStep, ReviewInvariant, PTL DEF SpecReview

\* Whoever follows the pages of an undisturbed review list to the end has seen
\* every alert the first page counted, for every query and page size, although
\* alerts arrive meanwhile: ListAlertsForReview has a total order.
THEOREM NothingIsSkipped == SpecReview => []NoneSkipped
  <1>1. WalkInv => NoneSkipped
    BY DEF WalkInv, Complete, NoneSkipped
  <1>2. QED BY <1>1, WalkInvariant, PTL

-----------------------------------------------------------------------------
(* The watches. An update puts back a whole watch it read earlier, as a      *)
(* request that leaves zero values out. SerialEditsKept holds because a      *)
(* watch survives being encoded and decoded, and because the request of an   *)
(* update nobody overlapped is still the encoding of what its flags ask of   *)
(* the row as it is now.                                                     *)

Fields == Scalars \cup {"filters"}

IsFilters(wf) == wf = [g \in DOMAIN NoFilters |-> wf[g]]

IsWatch(w) == w = [f \in Fields |-> w[f]] /\ IsFilters(w.filters)

IsEdit(u) ==
  /\ u.busy \in BOOLEAN
  /\ u.busy => /\ u = [busy |-> u.busy, id |-> u.id, flags |-> u.flags, overlapped |-> u.overlapped, body |-> u.body]
               /\ u.flags \in Edits
               /\ u.overlapped \in BOOLEAN

\* The request of an edit that nobody overlapped.
Current(u) ==
  u.busy /\ ~u.overlapped =>
    /\ u.id \in DOMAIN watches
    /\ IsWatch(Asked(watches[u.id], u.flags))
    /\ u.body = watchRequest(Asked(watches[u.id], u.flags))

WatchInv ==
  /\ watches = [id \in DOMAIN watches |-> watches[id]]
  /\ editing = [c \in Clients |-> editing[c]]
  /\ exit = [c \in Clients |-> exit[c]]
  /\ \A id \in DOMAIN watches : IsWatch(watches[id])
  /\ \A c \in Clients : IsEdit(editing[c]) /\ Current(editing[c])

LEMMA FiltersApart == "filters" \notin Scalars /\ "filters" \in Fields /\ "enabled" \in Fields
  BY DEF Scalars, Zero, Fields

\* What is left out of a request is what its reader puts in its place.
LEMMA FiltersRoundTrip ==
    ASSUME NEW wf, IsFilters(wf)
    PROVE  DecodeFilters(EncodeFilters(wf)) = wf
  BY DEF IsFilters, DecodeFilters, EncodeFilters

LEMMA DecodeIsWatch ==
    ASSUME NEW json, NEW stored
    PROVE  IsWatch(Decode(json, stored))
  <1> DEFINE w == Decode(json, stored)
  <1>1. w = [f \in Fields |-> w[f]] /\ w.filters = DecodeFilters(json["filters"])
    BY FiltersApart DEF Decode, Fields
  <1>2. IsFilters(DecodeFilters(json["filters"]))
    BY DEF IsFilters, DecodeFilters
  <1> HIDE DEF w
  <1>3. IsWatch(w)
    BY <1>1, <1>2 DEF IsWatch
  <1>4. QED BY <1>3 DEF w

LEMMA WatchRoundTrip ==
    ASSUME NEW w, IsWatch(w), NEW stored
    PROVE  Decode(watchRequest(w), stored) = w
  <1> DEFINE j == watchRequest(w)
             S == {g \in Scalars : w[g] # Zero[g]}
  <1>1. /\ DOMAIN j = S \cup {"filters"} /\ j["filters"] = EncodeFilters(w.filters)
        /\ \A f \in S : j[f] = w[f]
    BY FiltersApart DEF watchRequest
  <1>2. DecodeFilters(j["filters"]) = w.filters /\ w.filters = w["filters"]
    BY <1>1, FiltersRoundTrip, FiltersApart DEF IsWatch
  <1>3. \A f \in Scalars : f \notin S => w[f] = Zero[f]
    OBVIOUS
  <1> HIDE DEF j
  <1>4. ASSUME NEW f \in Fields PROVE Decode(j, stored)[f] = w[f]
    <2>1. CASE f = "filters"
      BY <1>2, <2>1, FiltersApart DEF Decode, Fields
    <2>2. CASE f # "filters" /\ f \in S
      BY <1>1, <2>2 DEF Decode, Fields
    <2>3. CASE f # "filters" /\ f \notin S
      BY <1>1, <1>3, <2>3 DEF Decode, Fields
    <2>4. QED BY <2>1, <2>2, <2>3
  <1>5. Decode(j, stored) = [f \in Fields |-> Decode(j, stored)[f]]
    BY DEF Decode, Fields
  <1>6. Decode(j, stored) = w
    BY <1>4, <1>5 DEF IsWatch
  <1>7. QED BY <1>6 DEF j

LEMMA FilterUpdates ==
    ASSUME NEW wf, IsFilters(wf), NEW e, applyFilterUpdates(wf, e) # None
    PROVE  IsFilters(applyFilterUpdates(wf, e))
  <1>1. IsFilters(NoFilters)
    BY DEF IsFilters, NoFilters
  <1>2. ASSUME NEW args, ParseFilters(args) # None PROVE IsFilters(ParseFilters(args))
    BY <1>2 DEF ParseFilters, IsFilters
  <1>3. ASSUME NEW v PROVE IsFilters([wf EXCEPT !.attribute_filters = v])
    BY DEF IsFilters
  <1> HIDE DEF IsFilters
  <1>4. QED BY <1>1, <1>2, <1>3 DEF applyFilterUpdates

\* What GetWatch sends is what the flags ask, of a watch as it is stored.
LEMMA AskedIsSent ==
    ASSUME NEW w, IsWatch(w), NEW e \in Edits, applyFilterUpdates(w.filters, e) # None
    PROVE  /\ [applyScalarFlags(e, w) EXCEPT !.filters = applyFilterUpdates(w.filters, e)] = Asked(w, e)
           /\ IsWatch(Asked(w, e))
  <1> DEFINE F == applyFilterUpdates(w.filters, e)
             a == applyScalarFlags(e, w)
  <1>1. DOMAIN w = Fields /\ "filters" \notin DOMAIN e.changed /\ "filters" \in Fields
    BY WatchConstants, FiltersApart DEF WatchConstants, IsWatch
  <1>2. IsFilters(F)
    BY FilterUpdates DEF IsWatch
  <1> HIDE DEF F
  <1>3. a = [f \in Fields |-> IF f \in DOMAIN e.changed THEN e.changed[f] ELSE w[f]]
    BY <1>1 DEF applyScalarFlags
  <1>4. Asked(w, e) = [f \in Fields |-> IF f \in DOMAIN e.changed THEN e.changed[f]
                                        ELSE IF f = "filters" THEN F ELSE w[f]]
    BY <1>1 DEF Asked, F
  <1>5. Asked(w, e).filters = F /\ Asked(w, e) = [f \in Fields |-> Asked(w, e)[f]]
    BY <1>1, <1>4
  <1>6. [a EXCEPT !.filters = F] = [f \in Fields |-> IF f = "filters" THEN F ELSE a[f]]
    BY <1>1, <1>3
  <1>7. [a EXCEPT !.filters = F] = Asked(w, e)
    BY <1>1, <1>3, <1>4, <1>6
  <1>8. IsWatch(Asked(w, e))
    BY <1>2, <1>5 DEF IsWatch
  <1>9. QED BY <1>7, <1>8 DEF F

LEMMA IdleEdit == IsEdit(Idle) /\ ~Idle.busy
  BY DEF Idle, IsEdit

LEMMA EditFields ==
    ASSUME NEW b, NEW i, NEW e, NEW o, NEW y, NEW t \in BOOLEAN
    PROVE  [[busy |-> b, id |-> i, flags |-> e, overlapped |-> o, body |-> y] EXCEPT !.overlapped = t]
             = [busy |-> b, id |-> i, flags |-> e, overlapped |-> t, body |-> y]
  OBVIOUS

\* A write to row id: whoever is about to put that row back is overlapped.
LEMMA OverlapEdit ==
    ASSUME WatchInv, NEW id, NEW c \in Clients
    PROVE  /\ IsEdit(Overlapping(id)[c])
           /\ Overlapping(id)[c].busy = editing[c].busy
           /\ Overlapping(id)[c].busy /\ ~Overlapping(id)[c].overlapped =>
                Overlapping(id)[c] = editing[c] /\ editing[c].id # id
  <1> DEFINE u == editing[c]
  <1>1. IsEdit(u)
    BY DEF WatchInv
  <1>2. CASE u.busy /\ u.id = id
    <2>1. /\ u = [busy |-> u.busy, id |-> u.id, flags |-> u.flags, overlapped |-> u.overlapped, body |-> u.body]
          /\ u.flags \in Edits /\ u.busy = TRUE
      BY <1>1, <1>2 DEF IsEdit
    <2>2. PICK t \in BOOLEAN : t = TRUE
      OBVIOUS
    <2> DEFINE v == [busy |-> u.busy, id |-> u.id, flags |-> u.flags, overlapped |-> t, body |-> u.body]
    <2>3. [u EXCEPT !.overlapped = t] = v
      BY <2>1, EditFields
    <2>4. [u EXCEPT !.overlapped = TRUE] = [u EXCEPT !.overlapped = t]
      BY <2>1, <2>2
    <2>5. Overlapping(id)[c] = [u EXCEPT !.overlapped = TRUE]
      BY <1>2 DEF Overlapping
    <2>6. v.busy = u.busy /\ v.overlapped = t /\ v.flags = u.flags /\ v.id = u.id /\ v.body = u.body
      OBVIOUS
    <2>7. IsEdit(v)
      BY <2>1, <2>6 DEF IsEdit
    <2> HIDE DEF u, v
    <2>8. Overlapping(id)[c] = v
      BY <2>3, <2>4, <2>5
    <2>9. QED BY <2>1, <2>2, <2>6, <2>7, <2>8 DEF u
  <1>3. CASE ~(u.busy /\ u.id = id)
    <2>1. Overlapping(id)[c] = u
      BY <1>3 DEF Overlapping
    <2>2. QED BY <1>1, <1>3, <2>1
  <1>4. QED BY <1>2, <1>3

\* The other rows, and what edits of them have in hand, stay.
LEMMA WriteKeeps ==
    ASSUME WatchInv, NEW id,
           watches' = [x \in DOMAIN watches' |-> watches'[x]],
           \A x \in DOMAIN watches : x # id => x \in DOMAIN watches' /\ watches'[x] = watches[x],
           \A x \in DOMAIN watches' : IsWatch(watches'[x]),
           editing' = [c \in Clients |-> editing'[c]],
           exit' = [c \in Clients |-> exit'[c]],
           \A c \in Clients : editing'[c] = Overlapping(id)[c] \/ editing'[c] = Idle
    PROVE  WatchInv'
  <1>1. ASSUME NEW c \in Clients PROVE IsEdit(editing'[c]) /\ Current(editing[c])'
    <2>1. CASE editing'[c] = Idle
      BY <2>1, IdleEdit DEF Current
    <2>2. CASE editing'[c] = Overlapping(id)[c]
      <3>1. IsEdit(editing'[c])
        BY <2>2, OverlapEdit
      <3>2. ASSUME editing'[c].busy, ~editing'[c].overlapped
            PROVE  /\ editing'[c].id \in DOMAIN watches'
                   /\ IsWatch(Asked(watches'[editing'[c].id], editing'[c].flags))
                   /\ editing'[c].body = watchRequest(Asked(watches'[editing'[c].id], editing'[c].flags))
        <4>1. editing'[c] = editing[c] /\ editing[c].id # id
          BY <2>2, <3>2, OverlapEdit
        <4>2. Current(editing[c])
          BY DEF WatchInv
        <4>3. /\ editing[c].id \in DOMAIN watches
              /\ IsWatch(Asked(watches[editing[c].id], editing[c].flags))
              /\ editing[c].body = watchRequest(Asked(watches[editing[c].id], editing[c].flags))
          BY <3>2, <4>1, <4>2 DEF Current
        <4>4. editing[c].id \in DOMAIN watches' /\ watches'[editing[c].id] = watches[editing[c].id]
          BY <4>1, <4>3
        <4>5. QED BY <4>1, <4>3, <4>4
      <3>3. QED BY <3>1, <3>2 DEF Current
    <2>3. QED BY <2>1, <2>2
  <1>2. QED BY <1>1 DEF WatchInv

\* A step that changes no row.
LEMMA RowsKept ==
    ASSUME WatchInv,
           watches' = [x \in DOMAIN watches' |-> watches'[x]],
           \A x \in DOMAIN watches : x \in DOMAIN watches' /\ watches'[x] = watches[x],
           \A x \in DOMAIN watches' : IsWatch(watches'[x]),
           editing' = [c \in Clients |-> editing'[c]],
           exit' = [c \in Clients |-> exit'[c]],
           \A c \in Clients : IsEdit(editing'[c]) /\ Current(editing'[c])
    PROVE  WatchInv'
  <1>1. ASSUME NEW c \in Clients PROVE Current(editing[c])'
    <2>1. Current(editing'[c])
      OBVIOUS
    <2>2. QED BY <2>1 DEF Current
  <1>2. QED BY <1>1 DEF WatchInv

LEMMA EditsOf ==
    ASSUME WatchInv, NEW c \in Clients
    PROVE  IsEdit(editing[c]) /\ Current(editing[c])
  BY DEF WatchInv

LEMMA InitWatchInv == InitWatch => WatchInv
  <1> SUFFICES ASSUME InitWatch PROVE WatchInv
    OBVIOUS
  <1>1. DOMAIN watches = {} /\ watches = [id \in DOMAIN watches |-> watches[id]]
    BY DEF InitWatch
  <1>2. /\ editing = [c \in Clients |-> editing[c]] /\ exit = [c \in Clients |-> exit[c]]
        /\ \A c \in Clients : editing[c] = Idle
    BY DEF InitWatch
  <1>3. IsEdit(Idle) /\ Current(Idle)
    BY IdleEdit DEF Current
  <1>4. QED BY <1>1, <1>2, <1>3 DEF WatchInv

LEMMA CreateWatchKeeps ==
    ASSUME WatchInv, NEW c \in Clients, CreateWatch(c)
    PROVE  WatchInv'
  <1>0. PICK id \in WatchIds \ (DOMAIN watches \cup deleted) : \E v :
          /\ watches' = watches \/ watches' = Put(watches, id, Decode(watchRequest(v), v))
          /\ exit' = [exit EXCEPT ![c] = "ok"] \/ exit' = [exit EXCEPT ![c] = "error"]
          /\ editing' = editing
    BY DEF CreateWatch
  <1>1. PICK v :
          /\ watches' = watches \/ watches' = Put(watches, id, Decode(watchRequest(v), v))
          /\ exit' = [exit EXCEPT ![c] = "ok"] \/ exit' = [exit EXCEPT ![c] = "error"]
          /\ editing' = editing
    BY <1>0
  <1>2. exit' = [d \in Clients |-> exit'[d]] /\ editing' = [d \in Clients |-> editing'[d]]
    BY <1>1 DEF WatchInv
  <1>3. \A d \in Clients : IsEdit(editing'[d]) /\ Current(editing'[d])
    BY <1>1, EditsOf
  <1>4. CASE watches' = watches
    <2>1. /\ watches' = [x \in DOMAIN watches' |-> watches'[x]]
          /\ \A x \in DOMAIN watches : x \in DOMAIN watches' /\ watches'[x] = watches[x]
          /\ \A x \in DOMAIN watches' : IsWatch(watches'[x])
      BY <1>4 DEF WatchInv
    <2>2. QED BY <1>2, <1>3, <2>1, RowsKept
  <1>5. CASE watches' = Put(watches, id, Decode(watchRequest(v), v))
    <2> DEFINE w == Decode(watchRequest(v), v)
    <2>1. IsWatch(w)
      BY DecodeIsWatch
    <2> HIDE DEF w
    <2>2. watches' = Put(watches, id, w)
      BY <1>5 DEF w
    <2>3. watches' = [x \in DOMAIN watches' |-> watches'[x]]
      BY <2>2 DEF Put
    <2>4. \A x \in DOMAIN watches : x \in DOMAIN watches' /\ watches'[x] = watches[x]
      BY <1>1, <2>2 DEF Put
    <2>5. \A x \in DOMAIN watches' : IsWatch(watches'[x])
      BY <2>1, <2>2 DEF Put, WatchInv
    <2>6. QED BY <1>2, <1>3, <2>3, <2>4, <2>5, RowsKept
  <1>6. QED BY <1>1, <1>4, <1>5

\* One column of a row.
LEMMA EnabledIsWatch ==
    ASSUME NEW w, IsWatch(w), NEW on
    PROVE  IsWatch([w EXCEPT !.enabled = on])
  <1>1. w = [f \in Fields |-> w[f]] /\ IsFilters(w.filters)
    BY DEF IsWatch
  <1>2. [w EXCEPT !.enabled = on].filters = w.filters
    BY <1>1, FiltersApart
  <1>3. [w EXCEPT !.enabled = on] = [f \in Fields |-> [w EXCEPT !.enabled = on][f]]
    BY <1>1, FiltersApart
  <1>4. QED BY <1>1, <1>2, <1>3 DEF IsWatch

LEMMA SetEnabledKeeps ==
    ASSUME WatchInv, NEW c \in Clients, SetWatchEnabled(c)
    PROVE  WatchInv'
  <1>1. PICK id \in DOMAIN watches \cup deleted, on \in BOOLEAN :
          /\ watches' = IF id \in DOMAIN watches THEN [watches EXCEPT ![id].enabled = on] ELSE watches
          /\ editing' = Overlapping(id)
    BY DEF SetWatchEnabled
  <1>2. exit' = [d \in Clients |-> exit'[d]]
    BY DEF SetWatchEnabled, WatchInv
  <1>3. /\ editing' = [d \in Clients |-> editing'[d]]
        /\ \A d \in Clients : editing'[d] = Overlapping(id)[d] \/ editing'[d] = Idle
    BY <1>1 DEF Overlapping
  <1>4. /\ watches' = [x \in DOMAIN watches' |-> watches'[x]] /\ DOMAIN watches' = DOMAIN watches
        /\ \A x \in DOMAIN watches : x # id => x \in DOMAIN watches' /\ watches'[x] = watches[x]
        /\ \A x \in DOMAIN watches : IsWatch(watches'[x])
    <2>1. CASE id \in DOMAIN watches
      <3> DEFINE w == [watches[id] EXCEPT !.enabled = on]
      <3>1. watches' = [watches EXCEPT ![id] = w]
        BY <1>1, <2>1
      <3>2. IsWatch(w)
        BY <2>1, EnabledIsWatch DEF WatchInv
      <3> HIDE DEF w
      <3>3. watches = [x \in DOMAIN watches |-> watches[x]] /\ \A x \in DOMAIN watches : IsWatch(watches[x])
        BY DEF WatchInv
      <3>4. QED BY <2>1, <3>1, <3>2, <3>3
    <2>2. CASE id \notin DOMAIN watches
      BY <1>1, <2>2 DEF WatchInv
    <2>3. QED BY <2>1, <2>2
  <1>5. QED BY <1>2, <1>3, <1>4, WriteKeeps

LEMMA DeleteKeeps ==
    ASSUME WatchInv, NEW c \in Clients, DeleteWatch(c)
    PROVE  WatchInv'
  <1>1. PICK id \in DOMAIN watches \cup deleted :
          /\ watches' = [x \in DOMAIN watches \ {id} |-> watches[x]]
          /\ editing' = Overlapping(id)
    BY DEF DeleteWatch
  <1>2. exit' = [d \in Clients |-> exit'[d]]
    BY DEF DeleteWatch, WatchInv
  <1>3. /\ editing' = [d \in Clients |-> editing'[d]]
        /\ \A d \in Clients : editing'[d] = Overlapping(id)[d] \/ editing'[d] = Idle
    BY <1>1 DEF Overlapping
  <1>4. /\ watches' = [x \in DOMAIN watches' |-> watches'[x]]
        /\ \A x \in DOMAIN watches : x # id => x \in DOMAIN watches' /\ watches'[x] = watches[x]
        /\ \A x \in DOMAIN watches' : IsWatch(watches'[x])
    BY <1>1 DEF WatchInv
  <1>5. QED BY <1>2, <1>3, <1>4, WriteKeeps

LEMMA GetWatchKeeps ==
    ASSUME WatchInv, NEW c \in Clients, GetWatch(c)
    PROVE  WatchInv'
  <1>1. UNCHANGED watches
    BY DEF GetWatch
  <1>2. /\ watches' = [x \in DOMAIN watches' |-> watches'[x]]
        /\ \A x \in DOMAIN watches : x \in DOMAIN watches' /\ watches'[x] = watches[x]
        /\ \A x \in DOMAIN watches' : IsWatch(watches'[x])
    BY <1>1 DEF WatchInv
  <1>3. CASE exit' = [exit EXCEPT ![c] = "error"] /\ UNCHANGED editing
    <2>1. exit' = [d \in Clients |-> exit'[d]] /\ editing' = [d \in Clients |-> editing'[d]]
      BY <1>3 DEF WatchInv
    <2>2. \A d \in Clients : IsEdit(editing'[d]) /\ Current(editing'[d])
      BY <1>3, EditsOf
    <2>3. QED BY <1>2, <2>1, <2>2, RowsKept
  <1>4. CASE ~(exit' = [exit EXCEPT ![c] = "error"] /\ UNCHANGED editing)
    <2>1. PICK id \in DOMAIN watches, e \in Edits :
            LET current == Decode(watchRequest(watches[id]), watches[id])
                filters == applyFilterUpdates(current.filters, e)
            IN  /\ filters # None
                /\ editing' = [editing EXCEPT ![c] =
                     [busy |-> TRUE, id |-> id, flags |-> e, overlapped |-> FALSE,
                      body |-> watchRequest([applyScalarFlags(e, current) EXCEPT !.filters = filters])]]
                /\ UNCHANGED exit
      BY <1>4 DEF GetWatch
    <2> DEFINE w == watches[id]
               a == Asked(w, e)
               u == [busy |-> TRUE, id |-> id, flags |-> e, overlapped |-> FALSE, body |-> watchRequest(a)]
    <2>2. IsWatch(w) /\ Decode(watchRequest(w), w) = w
      BY WatchRoundTrip DEF WatchInv
    <2>3. applyFilterUpdates(w.filters, e) # None
      BY <2>1, <2>2
    <2>4. [applyScalarFlags(e, w) EXCEPT !.filters = applyFilterUpdates(w.filters, e)] = a /\ IsWatch(a)
      BY <2>2, <2>3, AskedIsSent
    <2>5. editing' = [editing EXCEPT ![c] =
                     [busy |-> TRUE, id |-> id, flags |-> e, overlapped |-> FALSE,
                      body |-> watchRequest([applyScalarFlags(e, w) EXCEPT !.filters = applyFilterUpdates(w.filters, e)])]]
      BY <2>1, <2>2
    <2>6. editing' = [editing EXCEPT ![c] = u]
      BY <2>4, <2>5
    <2>7. u.busy = TRUE /\ u.id = id /\ u.flags = e /\ u.overlapped = FALSE /\ u.body = watchRequest(a)
      OBVIOUS
    <2>8. IsEdit(u)
      BY <2>7 DEF IsEdit
    <2> HIDE DEF u
    <2>9. Current(u)
      BY <2>4, <2>7 DEF Current
    <2>10. editing = [d \in Clients |-> editing[d]] /\ exit = [d \in Clients |-> exit[d]]
      BY DEF WatchInv
    <2>11. exit' = [d \in Clients |-> exit'[d]] /\ editing' = [d \in Clients |-> editing'[d]]
      BY <2>1, <2>6, <2>10
    <2>12. \A d \in Clients : editing'[d] = IF d = c THEN u ELSE editing[d]
      BY <2>6, <2>10
    <2>13. \A d \in Clients : IsEdit(editing'[d]) /\ Current(editing'[d])
      BY <2>8, <2>9, <2>12, EditsOf
    <2>14. QED BY <1>2, <2>11, <2>13, RowsKept
  <1>5. QED BY <1>3, <1>4

LEMMA UpdateFailsKeeps ==
    ASSUME WatchInv, NEW c \in Clients, UpdateFails(c)
    PROVE  WatchInv'
  <1>1. /\ watches' = [x \in DOMAIN watches' |-> watches'[x]]
        /\ \A x \in DOMAIN watches : x \in DOMAIN watches' /\ watches'[x] = watches[x]
        /\ \A x \in DOMAIN watches' : IsWatch(watches'[x])
    BY DEF WatchInv, UpdateFails
  <1>2. editing = [d \in Clients |-> editing[d]] /\ exit = [d \in Clients |-> exit[d]]
    BY DEF WatchInv
  <1>3. /\ exit' = [d \in Clients |-> exit'[d]] /\ editing' = [d \in Clients |-> editing'[d]]
        /\ \A d \in Clients : editing'[d] = IF d = c THEN Idle ELSE editing[d]
    BY <1>2 DEF UpdateFails
  <1>4. IsEdit(Idle) /\ Current(Idle)
    BY IdleEdit DEF Current
  <1>5. \A d \in Clients : IsEdit(editing'[d]) /\ Current(editing'[d])
    BY <1>3, <1>4, EditsOf
  <1>6. QED BY <1>1, <1>3, <1>5, RowsKept

LEMMA UpdateWatchKeeps ==
    ASSUME WatchInv, NEW c \in Clients, UpdateWatch(c)
    PROVE  WatchInv'
  <1> DEFINE id == editing[c].id
             found == id \in DOMAIN watches
             w == Decode(editing[c].body, IF found THEN watches[id] ELSE editing[c].body)
             ok == ~found \/ w.component_type \in ColumnTypes
  <1>1. /\ watches' = IF found /\ ok THEN [watches EXCEPT ![id] = w] ELSE watches
        /\ exit' = [exit EXCEPT ![c] = IF ok THEN "ok" ELSE "error"]
        /\ editing' = [(IF ok THEN Overlapping(id) ELSE editing) EXCEPT ![c] = Idle]
    BY DEF UpdateWatch
  <1>2. IsWatch(w)
    BY DecodeIsWatch
  <1>3. /\ editing = [d \in Clients |-> editing[d]] /\ exit = [d \in Clients |-> exit[d]]
        /\ watches = [x \in DOMAIN watches |-> watches[x]] /\ \A x \in DOMAIN watches : IsWatch(watches[x])
    BY DEF WatchInv
  <1> HIDE DEF w, ok
  <1>4. CASE ok
    <2>1. Overlapping(id) = [d \in Clients |-> Overlapping(id)[d]]
      BY DEF Overlapping
    <2>2. /\ editing' = [d \in Clients |-> editing'[d]]
          /\ \A d \in Clients : editing'[d] = Overlapping(id)[d] \/ editing'[d] = Idle
      BY <1>1, <1>4, <2>1
    <2>3. exit' = [d \in Clients |-> exit'[d]]
      BY <1>1, <1>3
    <2>4. /\ watches' = [x \in DOMAIN watches' |-> watches'[x]]
          /\ \A x \in DOMAIN watches : x # id => x \in DOMAIN watches' /\ watches'[x] = watches[x]
          /\ \A x \in DOMAIN watches' : IsWatch(watches'[x])
      BY <1>1, <1>2, <1>3, <1>4
    <2>5. QED BY <2>2, <2>3, <2>4, WriteKeeps
  <1>5. CASE ~ok
    <2>1. /\ watches' = [x \in DOMAIN watches' |-> watches'[x]]
          /\ \A x \in DOMAIN watches : x \in DOMAIN watches' /\ watches'[x] = watches[x]
          /\ \A x \in DOMAIN watches' : IsWatch(watches'[x])
      BY <1>1, <1>3, <1>5
    <2>2. /\ exit' = [d \in Clients |-> exit'[d]] /\ editing' = [d \in Clients |-> editing'[d]]
          /\ \A d \in Clients : editing'[d] = IF d = c THEN Idle ELSE editing[d]
      BY <1>1, <1>3, <1>5
    <2>3. IsEdit(Idle) /\ Current(Idle)
      BY IdleEdit DEF Current
    <2>4. \A d \in Clients : IsEdit(editing'[d]) /\ Current(editing'[d])
      BY <2>2, <2>3, EditsOf
    <2>5. QED BY <2>1, <2>2, <2>4, RowsKept
  <1>6. QED BY <1>4, <1>5

LEMMA WatchStepKeeps == WatchInv /\ [NextWatch]_watchVars => WatchInv'
  <1> SUFFICES ASSUME WatchInv, [NextWatch]_watchVars PROVE WatchInv'
    OBVIOUS
  <1>1. CASE UNCHANGED watchVars
    BY <1>1 DEF watchVars, WatchInv, Current
  <1>2. QED BY <1>1, CreateWatchKeeps, SetEnabledKeeps, DeleteKeeps, GetWatchKeeps, UpdateWatchKeeps,
               UpdateFailsKeeps DEF NextWatch

\* Every stored watch is complete, and the request of every update of spt that
\* no other write overlapped encodes what its flags ask of the row as it is.
THEOREM WatchInvariant == SpecWatch => []WatchInv
  BY InitWatchInv, WatchStepKeeps, PTL DEF SpecWatch

\* An update that is reported to have succeeded, and that no write overlapped,
\* leaves the row as its flags ask, although watchRequest omits zero values and
\* UpdateWatch writes every column.
THEOREM EditsAreKept == SpecWatch => SerialEditsKept
  <1> DEFINE Kept == \A c \in Clients :
               editing[c].busy /\ ~editing[c].overlapped /\ ~editing'[c].busy /\ exit'[c] = "ok"
                 => LET id == editing[c].id IN watches'[id] = Asked(watches[id], editing[c].flags)
  <1>1. ASSUME WatchInv, NextWatch PROVE Kept
    <2> SUFFICES ASSUME NEW c \in Clients, editing[c].busy, ~editing[c].overlapped, ~editing'[c].busy,
                        exit'[c] = "ok"
                 PROVE  watches'[editing[c].id] = Asked(watches[editing[c].id], editing[c].flags)
      OBVIOUS
    <2>1. /\ editing = [d \in Clients |-> editing[d]] /\ exit = [d \in Clients |-> exit[d]]
          /\ watches = [x \in DOMAIN watches |-> watches[x]] /\ Current(editing[c])
      BY <1>1 DEF WatchInv
    <2>2. PICK d \in Clients : \/ CreateWatch(d) \/ SetWatchEnabled(d) \/ DeleteWatch(d) \/ GetWatch(d)
                               \/ UpdateWatch(d) \/ UpdateFails(d)
      BY <1>1 DEF NextWatch
    <2>3. \A id : Overlapping(id) = [x \in Clients |-> Overlapping(id)[x]] /\ Overlapping(id)[c].busy
      <3>1. ASSUME NEW id PROVE Overlapping(id)[c].busy
        BY <1>1, OverlapEdit
      <3>2. QED BY <3>1 DEF Overlapping
    <2>4. CASE d # c
      <3>1. CASE UpdateWatch(d)
        BY <2>1, <2>3, <2>4, <3>1 DEF UpdateWatch
      <3>2. CASE UpdateFails(d)
        BY <2>1, <2>4, <3>2 DEF UpdateFails
      <3>3. CASE CreateWatch(d)
        BY <3>3 DEF CreateWatch
      <3>4. CASE GetWatch(d)
        BY <2>1, <2>4, <3>4 DEF GetWatch
      <3>5. CASE SetWatchEnabled(d) \/ DeleteWatch(d)
        BY <2>3, <3>5 DEF SetWatchEnabled, DeleteWatch
      <3>6. QED BY <2>2, <3>1, <3>2, <3>3, <3>4, <3>5
    <2>5. CASE d = c
      <3>1. UpdateWatch(c)
        <4>1. CASE UpdateFails(c)
          BY <2>1, <4>1 DEF UpdateFails
        <4>2. QED BY <2>2, <2>5, <4>1 DEF CreateWatch, SetWatchEnabled, DeleteWatch, GetWatch
      <3> DEFINE id == editing[c].id
                 a == Asked(watches[id], editing[c].flags)
                 w == Decode(editing[c].body, IF id \in DOMAIN watches THEN watches[id] ELSE editing[c].body)
                 ok == id \notin DOMAIN watches \/ w.component_type \in ColumnTypes
      <3>2. /\ watches' = IF id \in DOMAIN watches /\ ok THEN [watches EXCEPT ![id] = w] ELSE watches
            /\ exit' = [exit EXCEPT ![c] = IF ok THEN "ok" ELSE "error"]
        BY <3>1 DEF UpdateWatch
      <3>3. id \in DOMAIN watches /\ IsWatch(a) /\ editing[c].body = watchRequest(a)
        BY <2>1 DEF Current
      <3>4. w = a
        BY <3>3, WatchRoundTrip
      <3> HIDE DEF w, ok, a
      <3>5. ok
        BY <2>1, <3>2
      <3>6. watches'[id] = w
        BY <2>1, <3>2, <3>3, <3>5
      <3>7. QED BY <3>4, <3>6 DEF a
    <2>6. QED BY <2>4, <2>5
  <1>2. ASSUME WatchInv, [NextWatch]_watchVars PROVE [Kept]_watchVars
    BY <1>1, <1>2
  <1>3. QED BY <1>2, WatchInvariant, PTL DEF SpecWatch, SerialEditsKept
=============================================================================
