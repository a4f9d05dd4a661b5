----------------------------- MODULE Deployment -----------------------------
(* The life of the pods: the migrations their init containers run against    *)
(* one database, the start of the server with the parts its configuration    *)
(* allows, the work it does, and its shutdown.                               *)
EXTENDS Integers, FiniteSets

CONSTANTS
  Pods,        \* pods of the deployment, a rollout's new and old ones too
  Files,       \* migrations, numbered in the order of their names from 1
  Idempotent,  \* the migrations whose SQL succeeds when it is applied again
  Undoes,      \* <<f, g>>: f, applied after g, replaces what g made of the same object
  Configs,     \* configuration files
  MaxCrashes   \* bound on crashes and failed statements

VARIABLES
  config,    \* the configuration file of this deployment
  applied,   \* migrations that were executed on the schema
  undone,    \* those whose effect an older one, executed again, has replaced
  recorded,  \* rows of schema_migrations
  pod,       \* pod -> [at, file, parts]: where it is and what it has built
  busy,      \* pod -> what it is doing: of "job", "request", "worker"
  overdue,   \* pods whose HTTP shutdown ran into its deadline
  overlapped, \* two pods were in their migrations at one time (history)
  crashes    \* crashes so far

schema == <<applied, undone>>
deployVars == <<config, schema, recorded, pod, busy, overdue, overlapped, crashes>>

FileCount == Cardinality(Files)

ASSUME DeployConstants ==
  /\ IsFiniteSet(Files) /\ Files = 1..FileCount
  /\ \A u \in Undoes : u[1] \in Files /\ u[2] \in Files /\ u[1] < u[2]

-----------------------------------------------------------------------------
(* Load: a backend that is not named is ollama and an interval of zero is    *)
(* the default; then the database settings and the settings of the chosen    *)
(* backend are required.                                                     *)
applyDefaults(c) ==
  [c EXCEPT !.backend = IF @ = "" THEN "ollama" ELSE @,
            !.interval = IF @ = 0 THEN 15 ELSE @]

(* Variant: the endpoint is left to whoever builds the backend.              *)
ValidateNameOnly(c) == c.database /\ c.backend \in {"ollama", "openai_compat", "anthropic"}

validate(c) ==
  /\ c.database
  /\ \/ c.backend \in {"ollama", "openai_compat"} /\ c.endpoint
     \/ c.backend = "anthropic" /\ c.model

(* Langfuse that is enabled without its endpoint and keys refuses to start.  *)
initLangfuse(c) == c.langfuse # "keys missing"

buildEbayClient(c) == c.ebayKeys

buildLLMBackend(c) ==
  \/ c.backend = "anthropic"
  \/ c.backend \in {"ollama", "openai_compat"} /\ c.endpoint

(* The parts a pod has: an engine needs the store, eBay and the extractor, a *)
(* scheduler an engine and intervals cron accepts, the judge a scheduler.    *)
buildParts(c, store) ==
  LET engine == store /\ buildEbayClient(c) /\ buildLLMBackend(c)
      scheduler == engine /\ c.interval > 0
      has == [store |-> store, ebay |-> buildEbayClient(c), extractor |-> buildLLMBackend(c), engine |-> engine,
              scheduler |-> scheduler, judge |-> scheduler /\ c.judge, web |-> store /\ c.web]
  IN  {x \in DOMAIN has : has[x]}

(* Routes and the parts their handlers call.                                 *)
Uses == [readyz |-> {"store"}, quota |-> {}, listings |-> {"store"}, watches |-> {"store"},
         rescore |-> {"engine"}, baselines |-> {"store"}, judge |-> {}, jobs |-> {"store"},
         search |-> {"ebay"}, extract |-> {"extractor"}, ingest |-> {"engine"}, reextract |-> {"engine"},
         alerts |-> {"store"}]

(* quota answers without a limiter and judge without a worker; rescore is    *)
(* registered with the routes of the store.                                  *)
registerRoutes(parts) ==
  {"readyz", "quota"}
    \cup (IF "store" \in parts THEN {"listings", "watches", "rescore", "baselines", "judge", "jobs"} ELSE {})
    \cup (IF "ebay" \in parts THEN {"search"} ELSE {})
    \cup (IF "extractor" \in parts THEN {"extract"} ELSE {})
    \cup (IF "engine" \in parts THEN {"ingest", "reextract"} ELSE {})
    \cup (IF "web" \in parts THEN {"alerts"} ELSE {})

-----------------------------------------------------------------------------
Down == [at |-> "down", file |-> 1, parts |-> {}]

Goes(p, at) == pod' = [pod EXCEPT ![p].at = at]

InMigrations(p) == pod[p].at \in {"check", "apply", "record"}

InitDeploy ==
  /\ config \in Configs
  /\ applied = {} /\ undone = {} /\ recorded = {} /\ overdue = {} /\ overlapped = FALSE /\ crashes = 0
  /\ pod = [p \in Pods |-> Down]
  /\ busy = [p \in Pods |-> {}]

(* The init container starts and loads the configuration.                    *)
StartMigrate(p) ==
  /\ pod[p].at = "down"
  /\ Goes(p, IF validate(applyDefaults(config)) THEN "check" ELSE "refused")
  /\ overlapped' = (overlapped \/ \E q \in Pods \ {p} : InMigrations(q))
  /\ UNCHANGED <<config, schema, recorded, busy, overdue, crashes>>

(* Variant: what is recorded is applied again.                               *)
CheckNothing(p) ==
  /\ pod[p].at = "check"
  /\ Goes(p, IF pod[p].file > FileCount THEN "observe" ELSE "apply")
  /\ UNCHANGED <<config, schema, recorded, busy, overdue, overlapped, crashes>>

(* RunMigrations, one statement at a time: is the file recorded?             *)
CheckMigration(p) ==
  /\ pod[p].at = "check"
  /\ CASE pod[p].file > FileCount -> Goes(p, "observe")
       [] pod[p].file \in recorded -> pod' = [pod EXCEPT ![p].file = @ + 1]
       [] OTHER -> Goes(p, "apply")
  /\ UNCHANGED <<config, schema, recorded, busy, overdue, overlapped, crashes>>

(* Variant: a failed file is logged and the next one is tried.               *)
ApplyOrSkip(p) ==
  /\ pod[p].at = "apply"
  /\ LET f == pod[p].file IN
     \/ applied' = applied \cup {f} /\ Goes(p, "record")
     \/ pod' = [pod EXCEPT ![p].at = "check", ![p].file = f + 1] /\ UNCHANGED applied
  /\ UNCHANGED <<config, undone, recorded, busy, overdue, overlapped, crashes>>

(* The files that are applied and lose their effect when f is executed: 008  *)
(* to 007, 011 to 010.                                                       *)
Undone(f) == {g \in applied : <<f, g>> \in Undoes}

(* The file is executed as one transaction. Executed again it fails, unless  *)
(* its statements tolerate that; then it puts its own version of a function  *)
(* or a constraint in the place of a newer one, or fails on rows that only   *)
(* the newer constraint admits. A failed container is started again.         *)
ApplyMigration(p) ==
  /\ pod[p].at = "apply"
  /\ LET f == pod[p].file IN
     \/ /\ f \in applied => f \in Idempotent
        /\ applied' = applied \cup {f}
        /\ undone' = (undone \ {f}) \cup Undone(f)
        /\ Goes(p, "record")
     \/ /\ f \in applied /\ (f \in Idempotent => Undone(f) # {})
        /\ pod' = [pod EXCEPT ![p] = Down]
        /\ UNCHANGED schema
  /\ UNCHANGED <<config, recorded, busy, overdue, overlapped, crashes>>

(* Recording is a statement of its own; its primary key refuses a version    *)
(* another pod has recorded meanwhile.                                       *)
RecordMigration(p) ==
  /\ pod[p].at = "record"
  /\ LET f == pod[p].file IN
     IF f \in recorded
     THEN pod' = [pod EXCEPT ![p] = Down] /\ UNCHANGED recorded
     ELSE recorded' = recorded \cup {f} /\ pod' = [pod EXCEPT ![p].at = "check", ![p].file = f + 1]
  /\ UNCHANGED <<config, schema, busy, overdue, overlapped, crashes>>

-----------------------------------------------------------------------------
(* startServer: tracing and Langfuse first; either may refuse to start.      *)
InitObservability(p) ==
  /\ pod[p].at = "observe"
  /\ Goes(p, IF initLangfuse(config) THEN "connect" ELSE "refused")
  /\ UNCHANGED <<config, schema, recorded, busy, overdue, overlapped, crashes>>

(* Without a database the server starts all the same, with fewer parts. The  *)
(* workers, the routes, the scheduler and the listener are started in turn;  *)
(* nothing between them can fail.                                            *)
StartServer(p) ==
  /\ pod[p].at = "connect"
  /\ \E store \in BOOLEAN :
       pod' = [pod EXCEPT ![p].at = "serve", ![p].parts = buildParts(applyDefaults(config), store)]
  /\ UNCHANGED <<config, schema, recorded, busy, overdue, overlapped, crashes>>

(* Work begins: a cron entry fires until the scheduler is stopped, a request *)
(* arrives until the listener is closed, a worker claims a job until its     *)
(* context is cancelled, which is the first thing a shutdown does.           *)
Begins(p) ==
  /\ \/ "scheduler" \in pod[p].parts /\ pod[p].at \in {"serve", "signalled"}
          /\ busy' = [busy EXCEPT ![p] = @ \cup {"job"}]
     \/ pod[p].at \in {"serve", "signalled", "stopping"} /\ busy' = [busy EXCEPT ![p] = @ \cup {"request"}]
     \/ "engine" \in pod[p].parts /\ pod[p].at = "serve" /\ busy' = [busy EXCEPT ![p] = @ \cup {"worker"}]
  /\ UNCHANGED <<config, schema, recorded, pod, overdue, overlapped, crashes>>

Ends(p, w) ==
  /\ w \in busy[p]
  /\ busy' = [busy EXCEPT ![p] = @ \ {w}]
  /\ UNCHANGED <<config, schema, recorded, pod, overdue, overlapped, crashes>>

(* SIGTERM; the workers' context is cancelled and nobody waits for them.     *)
Signal(p) ==
  /\ pod[p].at = "serve"
  /\ Goes(p, "signalled")
  /\ UNCHANGED <<config, schema, recorded, busy, overdue, overlapped, crashes>>

(* cron.Stop: no entry fires any more.                                       *)
StopScheduler(p) ==
  /\ pod[p].at = "signalled"
  /\ Goes(p, "stopping")
  /\ UNCHANGED <<config, schema, recorded, busy, overdue, overlapped, crashes>>

(* Variant: the context that Stop returns is not waited on.                  *)
CloseAtOnce(p) ==
  /\ pod[p].at = "stopping"
  /\ Goes(p, "draining")
  /\ UNCHANGED <<config, schema, recorded, busy, overdue, overlapped, crashes>>

(* The running jobs are waited for, without a deadline, before the listener  *)
(* is closed.                                                                *)
CloseListener(p) ==
  /\ pod[p].at = "stopping" /\ "job" \notin busy[p]
  /\ Goes(p, "draining")
  /\ UNCHANGED <<config, schema, recorded, busy, overdue, overlapped, crashes>>

(* The requests are waited for, ten seconds at most; then the deferred calls *)
(* close the pool first.                                                     *)
ClosePool(p) ==
  /\ pod[p].at = "draining"
  /\ overdue' = IF "request" \in busy[p] THEN overdue \cup {p} ELSE overdue
  /\ Goes(p, "closed")
  /\ UNCHANGED <<config, schema, recorded, busy, overlapped, crashes>>

(* Langfuse is flushed, the tracer shut down, and the process ends with      *)
(* whatever still runs in it.                                                *)
Exit(p) ==
  /\ pod[p].at = "closed"
  /\ Goes(p, "exited") /\ busy' = [busy EXCEPT ![p] = {}]
  /\ UNCHANGED <<config, schema, recorded, overdue, overlapped, crashes>>

(* A crash, or a statement of the migrations that fails; the pod is started  *)
(* again.                                                                    *)
Crash(p) ==
  /\ pod[p].at \notin {"down", "refused", "exited"} /\ crashes < MaxCrashes
  /\ crashes' = crashes + 1
  /\ pod' = [pod EXCEPT ![p] = Down] /\ busy' = [busy EXCEPT ![p] = {}]
  /\ UNCHANGED <<config, schema, recorded, overdue, overlapped>>

MigrateStep(p) == StartMigrate(p) \/ CheckMigration(p) \/ ApplyMigration(p) \/ RecordMigration(p)

ServeStep(p) ==
  \/ InitObservability(p) \/ StartServer(p) \/ StopScheduler(p) \/ CloseListener(p) \/ ClosePool(p) \/ Exit(p)

NextDeploy ==
  \E p \in Pods :
    \/ MigrateStep(p)
    \/ ServeStep(p)
    \/ Begins(p)
    \/ \E w \in {"job", "request", "worker"} : Ends(p, w)
    \/ Signal(p)
    \/ Crash(p)

SpecDeploy ==
  /\ InitDeploy /\ [][NextDeploy]_deployVars
  /\ \A p \in Pods : WF_deployVars(MigrateStep(p))

-----------------------------------------------------------------------------
Serving(p) == pod[p].at \in {"connect", "serve", "signalled", "stopping", "draining", "closed"}

(* Whatever the pods race and wherever they crash, the record grows file by  *)
(* file, the files executed are at most one ahead of it, and a pod that      *)
(* serves does so after all of them. And the schema is what the files in     *)
(* order make of it as long as no two pods migrated at one time: a crash     *)
(* between a file and its record repeats that file and undoes nothing. When  *)
(* two did, a late file may have undone a newer one, with everything on      *)
(* record.                                                                   *)
SchemaBeforeServe ==
  /\ \E k \in 0..FileCount : recorded = 1..k /\ applied \in {1..k, 1..(k + 1)}
  /\ (\E p \in Pods : Serving(p)) => applied = Files
  /\ ~overlapped => undone = {}

(* A pod gets past its migrations, or refuses its configuration, unless a    *)
(* crash left a file that cannot be applied twice applied and not recorded:  *)
(* then no pod ever does.                                                    *)
MigrationCompletes ==
  LET stuck == \E f \in applied \ recorded :
                 f \notin Idempotent /\ \A p \in Pods : ~(pod[p].at = "record" /\ pod[p].file = f)
  IN  \A p \in Pods : <>(pod[p].at \notin {"down", "check", "apply", "record"} \/ stuck)

(* A scheduled job never meets a closed pool or a stopped Langfuse client,   *)
(* and a request only after the ten seconds it was given.                    *)
PoolOutlivesJobs ==
  \A p \in Pods : pod[p].at = "closed" => "job" \notin busy[p] /\ ("request" \in busy[p] => p \in overdue)

(* A pod that serves has an extractor: what validate accepts, the builders   *)
(* can build. And every route it registers has the parts it uses, but for    *)
(* /readyz without a database and rescore without an engine.                 *)
RoutesHaveParts ==
  \A p \in Pods : pod[p].at = "serve" =>
    /\ "extractor" \in pod[p].parts
    /\ \A r \in registerRoutes(pod[p].parts) \ {"readyz", "rescore"} : Uses[r] \subseteq pod[p].parts

=============================================================================
