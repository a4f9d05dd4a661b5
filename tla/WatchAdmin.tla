----------------------------- MODULE WatchAdmin -----------------------------
(* Administration of watches: the spt commands, the API client, the handlers *)
(* and the rows they write. create, enable, disable and delete are one       *)
(* request each. update reads the watch, changes what its flags name and     *)
(* puts the whole watch back; the two requests are separate steps, between   *)
(* which other clients may write.                                            *)
EXTENDS Integers, Sequences, SequencesExt

CONSTANTS
  Clients,      \* running spt processes
  WatchIds,     \* ids the database may hand out
  NewWatches,   \* what `spt watches create` is called with
  Edits,        \* flags `spt watches update` is called with
  MaxCommands   \* bound on the commands that are started

VARIABLES
  watches,   \* the table: id -> row
  deleted,   \* ids of deleted rows (history)
  editing,   \* client -> the update it is between its two requests of, or Idle
  exit,      \* client -> how its last command ended
  commands   \* commands started so far

watchVars == <<watches, deleted, editing, exit, commands>>

Idle == [busy |-> FALSE]

-----------------------------------------------------------------------------
(* Filters. attr:capacity_gb=min:32 is the argument                          *)
(* [attr |-> TRUE, key |-> "capacity_gb", op |-> "min", value |-> [n |-> 32]];*)
(* a value that is not a number is [s |-> its text].                         *)
None == [none |-> TRUE]

IsNumber(v) == DOMAIN v = {"n"}

(* eq: keeps the text even of a number; min: and max: need one.              *)
parseAttributeFilter(op, v) ==
  CASE op \in {"min", "max"} -> IF IsNumber(v) THEN [op |-> op, value |-> v] ELSE None
    [] op = "eq" -> [op |-> "eq", value |-> [s |-> v]]
    [] OTHER -> [op |-> "eq", value |-> v]

(* The pointer fields tell absent from zero; a wrong value or an unknown key *)
(* fails the command. price_max stands for the four bounds.                  *)
parseStandardFilter(wf, key, v) ==
  CASE key = "price_max" /\ IsNumber(v) -> [wf EXCEPT !.price_max = v]
    [] key = "seller_top_rated_only" /\ v \in {[s |-> "true"], [s |-> "false"]} ->
         [wf EXCEPT !.seller_top_rated_only = v = [s |-> "true"]]
    [] key = "conditions" -> [wf EXCEPT !.conditions = Append(@, v)]
    [] OTHER -> None

NoFilters == [price_max |-> None, seller_top_rated_only |-> FALSE, conditions |-> <<>>,
              attribute_filters |-> <<>>]

Put(f, k, v) == [x \in DOMAIN f \cup {k} |-> IF x = k THEN v ELSE f[x]]

ParseFilter(wf, arg) ==
  CASE wf = None -> None
    [] ~arg.attr -> parseStandardFilter(wf, arg.key, arg.value)
    [] OTHER -> LET af == parseAttributeFilter(arg.op, arg.value) IN
                IF af = None THEN None ELSE [wf EXCEPT !.attribute_filters = Put(@, arg.key, af)]

(* A WatchFilters has every field.                                           *)
ParseFilters(args) ==
  LET wf == FoldLeft(ParseFilter, NoFilters, args)
  IN  IF wf = None THEN None ELSE [f \in DOMAIN NoFilters |-> wf[f]]

(* At most one of the three flags; --add-filter only adds attributes.        *)
applyFilterUpdates(current, e) ==
  LET given == (IF e.clear THEN 1 ELSE 0) + (IF e.filter # <<>> THEN 1 ELSE 0)
                 + (IF e.add # <<>> THEN 1 ELSE 0)
      added == ParseFilters(e.add)
  IN  CASE given > 1 -> None
        [] e.clear -> NoFilters
        [] e.filter # <<>> -> ParseFilters(e.filter)
        [] e.add # <<>> ->
             IF added = None THEN None
             ELSE [current EXCEPT !.attribute_filters =
                     [k \in DOMAIN @ \cup DOMAIN added.attribute_filters |->
                        IF k \in DOMAIN added.attribute_filters THEN added.attribute_filters[k] ELSE @[k]]]
        [] OTHER -> current

-----------------------------------------------------------------------------
(* What travels. A request leaves out the scalars that are zero and, in the  *)
(* filters, what is nil, false or empty; whoever decodes it takes the zero   *)
(* value for a field that is not there.                                      *)
Zero == [name |-> "", search_query |-> "", category_id |-> "", component_type |-> "",
         score_threshold |-> 0, enabled |-> FALSE]

Scalars == DOMAIN Zero

(* There is a flag for every scalar.                                         *)
ASSUME WatchConstants == \A e \in Edits : DOMAIN e.changed \subseteq Scalars

EncodeFilters(wf) ==
  [f \in {g \in DOMAIN wf : wf[g] # NoFilters[g]} |-> wf[f]]

DecodeFilters(json) ==
  [f \in DOMAIN NoFilters |-> IF f \in DOMAIN json THEN json[f] ELSE NoFilters[f]]

watchRequest(w) ==
  [f \in {g \in Scalars : w[g] # Zero[g]} \cup {"filters"} |->
     IF f = "filters" THEN EncodeFilters(w.filters) ELSE w[f]]

(* Variant: a field that is not in the body keeps its stored value.          *)
DecodePatch(json, stored) ==
  [f \in Scalars \cup {"filters"} |->
     IF f = "filters" THEN DecodeFilters(json["filters"])
     ELSE IF f \in DOMAIN json THEN json[f] ELSE stored[f]]

(* The body as the handler's Watch; stored is the row it will replace.       *)
Decode(json, stored) ==
  [f \in Scalars \cup {"filters"} |->
     IF f = "filters" THEN DecodeFilters(json["filters"])
     ELSE IF f \in DOMAIN json THEN json[f] ELSE Zero[f]]

-----------------------------------------------------------------------------
(* The type check of the command knows fewer types than the column's CHECK.  *)
validComponentTypes == {"ram", "drive", "server", "cpu", "nic", "other"}

ColumnTypes == validComponentTypes \cup {"gpu", "workstation", "desktop"}

(* Only the flags that were passed are copied, zero values too.              *)
applyScalarFlags(e, w) ==
  [f \in DOMAIN w |-> IF f \in DOMAIN e.changed THEN e.changed[f] ELSE w[f]]

(* A write to a watch overlaps every update of it that has read it.          *)
Overlapping(id) ==
  [c \in Clients |-> IF editing[c].busy /\ editing[c].id = id
                     THEN [editing[c] EXCEPT !.overlapped = TRUE] ELSE editing[c]]

Started == commands < MaxCommands /\ commands' = commands + 1

InitWatch ==
  /\ watches = <<>> /\ deleted = {}
  /\ editing = [c \in Clients |-> Idle]
  /\ exit = [c \in Clients |-> "none"]
  /\ commands = 0

(* create: name and query are required, the filters must parse, and the      *)
(* column's CHECK has the last word on the type.                             *)
CreateWatch(c) ==
  /\ ~editing[c].busy /\ Started
  /\ \E new \in NewWatches, id \in WatchIds \ (DOMAIN watches \cup deleted) :
       LET wf == ParseFilters(new.filter)
           w == Put(new.scalars, "filters", wf)
           ok == new.scalars.name # "" /\ new.scalars.search_query # "" /\ wf # None
                   /\ new.scalars.component_type \in ColumnTypes
       IN  /\ watches' = IF ok THEN Put(watches, id, Decode(watchRequest(w), w)) ELSE watches
           /\ exit' = [exit EXCEPT ![c] = IF ok THEN "ok" ELSE "error"]
  /\ UNCHANGED <<deleted, editing>>

(* enable and disable: one UPDATE of one column; it reports success whether  *)
(* or not there is such a row.                                               *)
SetWatchEnabled(c) ==
  /\ ~editing[c].busy /\ Started
  /\ \E id \in DOMAIN watches \cup deleted, on \in BOOLEAN :
       /\ watches' = IF id \in DOMAIN watches THEN [watches EXCEPT ![id].enabled = on] ELSE watches
       /\ editing' = Overlapping(id)
  /\ exit' = [exit EXCEPT ![c] = "ok"]
  /\ UNCHANGED deleted

DeleteWatch(c) ==
  /\ ~editing[c].busy /\ Started
  /\ \E id \in DOMAIN watches \cup deleted :
       /\ watches' = [x \in DOMAIN watches \ {id} |-> watches[x]]
       /\ deleted' = deleted \cup {id}
       /\ editing' = Overlapping(id)
  /\ exit' = [exit EXCEPT ![c] = "ok"]

(* update, up to its PUT: the type is checked before anything is asked of    *)
(* the server, a watch that is not there is an error, and so are filters     *)
(* that do not parse.                                                        *)
GetWatch(c) ==
  /\ ~editing[c].busy /\ Started
  /\ \E id \in DOMAIN watches \cup deleted, e \in Edits :
       LET typed == "component_type" \in DOMAIN e.changed
                      => e.changed["component_type"] \in validComponentTypes \cup {""}
           current == Decode(watchRequest(watches[id]), watches[id])
           filters == applyFilterUpdates(current.filters, e)
       IN  IF typed /\ id \in DOMAIN watches /\ filters # None
           THEN /\ editing' = [editing EXCEPT ![c] =
                     [busy |-> TRUE, id |-> id, flags |-> e, overlapped |-> FALSE,
                      body |-> watchRequest([applyScalarFlags(e, current) EXCEPT !.filters = filters])]]
                /\ UNCHANGED exit
           ELSE exit' = [exit EXCEPT ![c] = "error"] /\ UNCHANGED editing
  /\ UNCHANGED <<watches, deleted>>

(* UPDATE ... WHERE id: every column of the body, or no row at all; the      *)
(* client is told of success in both cases.                                  *)
UpdateWatch(c) ==
  /\ editing[c].busy
  /\ LET id == editing[c].id
         found == id \in DOMAIN watches
         w == Decode(editing[c].body, IF found THEN watches[id] ELSE editing[c].body)
         ok == ~found \/ w.component_type \in ColumnTypes
     IN  /\ watches' = IF found /\ ok THEN [watches EXCEPT ![id] = w] ELSE watches
         /\ exit' = [exit EXCEPT ![c] = IF ok THEN "ok" ELSE "error"]
         /\ editing' = [(IF ok THEN Overlapping(id) ELSE editing) EXCEPT ![c] = Idle]
  /\ UNCHANGED <<deleted, commands>>

(* The server is down or answers with an error: nothing was written.         *)
UpdateFails(c) ==
  /\ editing[c].busy
  /\ editing' = [editing EXCEPT ![c] = Idle]
  /\ exit' = [exit EXCEPT ![c] = "error"]
  /\ UNCHANGED <<watches, deleted, commands>>

NextWatch ==
  \E c \in Clients :
    \/ CreateWatch(c)
    \/ SetWatchEnabled(c)
    \/ DeleteWatch(c)
    \/ GetWatch(c)
    \/ UpdateWatch(c)
    \/ UpdateFails(c)

SpecWatch == InitWatch /\ [][NextWatch]_watchVars

-----------------------------------------------------------------------------
(* What the flags ask of a watch.                                            *)
Asked(w, e) ==
  [f \in DOMAIN w |->
     IF f \in DOMAIN e.changed THEN e.changed[f]
     ELSE IF f = "filters" THEN applyFilterUpdates(w.filters, e) ELSE w[f]]

(* "Only flags explicitly passed are changed; everything else is preserved": *)
(* an update that no other write overlapped leaves the row exactly as the    *)
(* flags ask, zero thresholds, disabled watches and empty filters included,  *)
(* although the request it sends cannot carry them.                          *)
SerialEditsKept ==
  [][\A c \in Clients :
       editing[c].busy /\ ~editing[c].overlapped /\ ~editing'[c].busy /\ exit'[c] = "ok"
         => LET id == editing[c].id IN watches'[id] = Asked(watches[id], editing[c].flags)]_watchVars

=============================================================================
