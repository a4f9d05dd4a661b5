---------------------------- MODULE MCOperations ----------------------------
(* What operators do with the tracker: deploy it, administer the watches and *)
(* review the alerts. The three share no state and are run one beside the    *)
(* other.                                                                    *)
EXTENDS Deployment, WatchAdmin, AlertReview

(* A configuration that runs everything, and what may be wrong with one.     *)
Full == [database |-> TRUE, backend |-> "anthropic", model |-> TRUE, endpoint |-> FALSE, ebayKeys |-> TRUE,
         langfuse |-> "on", interval |-> 0, judge |-> TRUE, web |-> TRUE]

MCConfigs ==
  {Full, [Full EXCEPT !.ebayKeys = FALSE, !.web = FALSE], [Full EXCEPT !.interval = -5],
   [Full EXCEPT !.langfuse = "keys missing"], [Full EXCEPT !.database = FALSE],
   [Full EXCEPT !.backend = "", !.endpoint = TRUE, !.judge = FALSE], [Full EXCEPT !.backend = "openai_compat"],
   [Full EXCEPT !.backend = "gpt"]}

\* As 007 and 008, which cannot be repeated, and as 010 and 011.
MCUndoes == {<<1, 2>>, <<1, 3>>}

-----------------------------------------------------------------------------
Arg(attr, key, op, value) == [attr |-> attr, key |-> key, op |-> op, value |-> value]

Capacity(op) == Arg(TRUE, "capacity_gb", op, [n |-> 32])

MCNewWatches ==
  {[scalars |-> [name |-> "n", search_query |-> "q", category_id |-> "", component_type |-> t,
                 score_threshold |-> 75, enabled |-> TRUE], filter |-> f] :
     t \in {"ram", ""},
     f \in {<<>>, <<Arg(FALSE, "price_max", "", [n |-> 0]), Capacity("min")>>,
            <<Arg(FALSE, "colour", "", [s |-> "red"])>>}}

Flags(changed, filter, add, clear) == [changed |-> changed, filter |-> filter, add |-> add, clear |-> clear]

MCEdits ==
  {Flags([score_threshold |-> 0], <<>>, <<>>, FALSE),
   Flags([enabled |-> FALSE, name |-> ""], <<>>, <<>>, FALSE),
   Flags([component_type |-> "gpu"], <<>>, <<>>, FALSE),
   Flags([component_type |-> ""], <<>>, <<>>, FALSE),
   Flags([category_id |-> "c"], <<Arg(FALSE, "seller_top_rated_only", "", [s |-> "true"]),
                                  Arg(FALSE, "conditions", "", [s |-> "new"])>>, <<>>, FALSE),
   Flags(<<>>, <<>>, <<Capacity("eq"), Arg(TRUE, "ddr_gen", "", [s |-> "ddr4"])>>, FALSE),
   Flags(<<>>, <<>>, <<Arg(TRUE, "ddr_gen", "max", [s |-> "ddr4"])>>, FALSE),
   Flags([search_query |-> "r"], <<>>, <<>>, TRUE),
   Flags(<<>>, <<Capacity("")>>, <<>>, TRUE)}

-----------------------------------------------------------------------------
\* One evaluation may raise an alert for each of two watches.
MCKinds ==
  {[score |-> 80, watch |-> "w1", rank |-> 2, type |-> "ram", trace |-> "t1"],
   [score |-> 60, watch |-> "w2", rank |-> 1, type |-> "cpu", trace |-> "t1"]}

Raw(text) == [text |-> text]

Url(status, sort, min, watch, page) ==
  [status |-> status, sort |-> sort, minScore |-> min, watch |-> watch, type |-> "", page |-> page,
   perPage |-> [i |-> 1]]

MCQueries ==
  {Url("", "newest", Raw("high"), "", Raw("")), Url("all", "watch", [i |-> 0], "", [i |-> -3]),
   [Url("dismissed", "created", [i |-> 50], "w1", Raw("")) EXCEPT !.perPage = [i |-> 500], !.type = "ram"]}

-----------------------------------------------------------------------------
VARIABLE part

mcVars == <<deployVars, watchVars, reviewVars, part>>

Deploying == part = "deploy" /\ NextDeploy /\ UNCHANGED <<watchVars, reviewVars, part>>

Administering == part = "watches" /\ NextWatch /\ UNCHANGED <<deployVars, reviewVars, part>>

Reviewing == part = "review" /\ NextReview /\ UNCHANGED <<deployVars, watchVars, part>>

Migrating(p) == part = "deploy" /\ MigrateStep(p) /\ UNCHANGED <<watchVars, reviewVars, part>>

MCInit ==
  /\ InitDeploy /\ InitWatch /\ InitReview
  /\ part \in {"deploy", "watches", "review"}
  /\ part # "deploy" => config = Full

MCNext == Deploying \/ Administering \/ Reviewing

MCSpec == MCInit /\ [][MCNext]_mcVars /\ \A p \in Pods : WF_mcVars(Migrating(p))

(* MigrationCompletes is about the pods that are deployed.                   *)
PodsMigrate == part = "deploy" => MigrationCompletes

=============================================================================
