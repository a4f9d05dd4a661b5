----------------------------- MODULE AlertReview -----------------------------
(* The alert review pages: an operator walks the pages of a filtered and     *)
(* sorted list while alerts arrive, are notified, dismissed and restored;    *)
(* dismissing and restoring also label the alert's trace in Langfuse.        *)
EXTENDS Integers, Sequences, FiniteSets, SequencesExt

CONSTANTS
  Alerts,     \* alerts that may be raised; a later one has a larger id
  Kinds,      \* what an alert may be: records with score, watch, type, trace
  Queries,    \* the URLs the operator opens: raw query parameters
  Operators,  \* concurrent requests to dismiss or restore
  MaxClicks   \* bound on dismissals and restorations

(* Scores and names are ordered, and what parses as a number is an integer.  *)
ASSUME ReviewConstants ==
  /\ \A k \in Kinds : k.score \in Int /\ k.rank \in Int
  /\ \A url \in Queries : \A raw \in {url.minScore, url.page, url.perPage} :
       DOMAIN raw = {"i"} => raw.i \in Int

VARIABLES
  table,    \* raised alerts: id -> row
  browse,   \* the operator's walk over the pages
  click,    \* operator -> the label its request still has to post
  label,    \* trace -> the operator_dismissed score it got last
  raced,    \* traces for which two requests overlapped (history)
  missed,   \* traces whose last score never got to Langfuse (history)
  clicks    \* dismissals and restorations so far

reviewVars == <<table, browse, click, label, raced, missed, clicks>>

\* The trace of the evaluation that raised an alert; there may be none. The
\* alerts that one evaluation raises for several watches share it.
NoTrace == ""

Traces == {k.trace : k \in Kinds} \ {NoTrace}

AlertsOf(t) == {a \in DOMAIN table : table[a].kind.trace = t}

-----------------------------------------------------------------------------
(* Query parameters: a number is [i |-> n], one that is absent or not a      *)
(* number is [text |-> it].                                                  *)
parseIntDefault(raw, fallback, min, max) ==
  CASE DOMAIN raw # {"i"} -> fallback
    [] raw.i < min -> min
    [] max > 0 /\ raw.i > max -> max
    [] OTHER -> raw.i

Statuses == {"active", "dismissed", "notified", "undismissed", "all"}

parseStatus(raw) == IF raw \in Statuses THEN raw ELSE "active"

parseSort(raw) == IF raw \in {"score", "created", "watch"} THEN raw ELSE "score"

(* What the URL leaves out gets its default here; alertReviewDefaults finds  *)
(* nothing left to correct.                                                  *)
parseAlertsListQuery(url) ==
  [watch |-> url.watch, type |-> url.type, status |-> parseStatus(url.status), sort |-> parseSort(url.sort),
   minScore |-> parseIntDefault(url.minScore, 75, 0, 100),
   page |-> parseIntDefault(url.page, 1, 1, 0),
   perPage |-> parseIntDefault(url.perPage, 25, 1, 100)]

alertReviewDefaults(q) ==
  [q EXCEPT !.page = IF @ < 1 THEN 1 ELSE @,
            !.perPage = IF @ < 1 THEN 25 ELSE IF @ > 100 THEN 100 ELSE @]

(* The WHERE clause. An alert that was dismissed and not sent is "active".   *)
buildAlertReviewWhere(t, q) ==
  {a \in DOMAIN t :
     LET r == t[a] IN
     /\ CASE q.status = "active" -> ~r.notified
          [] q.status = "dismissed" -> r.dismissed
          [] q.status = "notified" -> r.notified
          [] q.status = "undismissed" -> ~r.dismissed
          [] q.status = "all" -> TRUE
     /\ q.minScore > 0 => r.kind.score >= q.minScore
     /\ q.type # "" => r.kind.type = q.type
     /\ q.watch # "" => r.kind.watch = q.watch}

(* Variant: ties are left to the database.                                   *)
OrderWithoutId(sort, a, b) ==
  CASE sort = "created" -> a >= b
    [] sort = "watch" -> table[a].kind.rank <= table[b].kind.rank
    [] sort = "score" -> table[a].kind.score >= table[b].kind.score

(* The ORDER BY clauses: row a may come before row b. Each ends with the id, *)
(* which is also the order of creation.                                      *)
alertReviewOrderBy(sort, a, b) ==
  LET s == table[a].kind.score
      t == table[b].kind.score
      v == table[a].kind.rank
      w == table[b].kind.rank
  IN  CASE sort = "created" -> a >= b
        [] sort = "watch" -> v < w \/ (v = w /\ (s > t \/ (s = t /\ a >= b)))
        [] sort = "score" -> s > t \/ (s = t /\ a >= b)

(* The orders in which a database may return a set of rows.                  *)
Sorted(rows, sort) ==
  {s \in SetToSeqs(rows) : \A i, j \in 1..Len(s) : i < j => alertReviewOrderBy(sort, s[i], s[j])}

(* LIMIT perPage OFFSET (page - 1) * perPage.                                *)
Page(s, q) == SubSeq(s, (q.page - 1) * q.perPage + 1, IF q.page * q.perPage < Len(s) THEN q.page * q.perPage ELSE Len(s))

totalPages(total, perPage) == IF total = 0 THEN 1 ELSE (total + perPage - 1) \div perPage

-----------------------------------------------------------------------------
NoWalk == [at |-> "none"]

NoLabel == -1

NoClick == [traces |-> {}, value |-> 0]

InitReview ==
  /\ table = <<>> /\ browse = NoWalk /\ clicks = 0
  /\ click = [o \in Operators |-> NoClick]
  /\ label = [t \in Traces |-> NoLabel]
  /\ raced = {} /\ missed = {}

(* A change of the table disturbs a walk when rows leave its result, or when *)
(* the result changes between the two statements of one request.             *)
Disturbed ==
  IF browse.at = "none" THEN browse
  ELSE LET before == buildAlertReviewWhere(table, browse.query)
           after == buildAlertReviewWhere(table', browse.query)
       IN  [browse EXCEPT !.disturbed = @ \/ before \ after # {} \/ (browse.at = "list" /\ before # after)]

(* The engine raises the next alert; its score never changes.                *)
CreateAlert ==
  \E k \in Kinds :
    LET a == Cardinality(DOMAIN table) + 1 IN
    /\ a \in Alerts
    /\ table' = [x \in DOMAIN table \cup {a} |->
                   IF x = a THEN [kind |-> k, notified |-> FALSE, dismissed |-> FALSE] ELSE table[x]]
    /\ browse' = Disturbed
    /\ UNCHANGED <<click, label, raced, missed, clicks>>

(* The engine notifies: outside this module, any pending alert at any time.  *)
MarkAlertNotified ==
  \E a \in DOMAIN table :
    /\ ~table[a].notified
    /\ table' = [table EXCEPT ![a].notified = TRUE]
    /\ browse' = Disturbed
    /\ UNCHANGED <<click, label, raced, missed, clicks>>

(* The first page is opened: the URL is parsed and the count is read.        *)
ListPage ==
  /\ browse.at \in {"none", "done"}
  /\ \E url \in Queries :
       LET q == alertReviewDefaults(parseAlertsListQuery(url))
           rows == buildAlertReviewWhere(table, q)
       IN  browse' = [at |-> "list", query |-> q, total |-> Cardinality(rows), shown |-> {},
                      wanted |-> IF q.page = 1 THEN rows ELSE {}, disturbed |-> FALSE]
  /\ UNCHANGED <<table, click, label, raced, missed, clicks>>

(* The list statement, a second statement, and the page it fills. The pager  *)
(* offers a next page while there is one by the count that was read before.  *)
ListAlertsForReview ==
  /\ browse.at = "list"
  /\ \E s \in Sorted(buildAlertReviewWhere(table, browse.query), browse.query.sort) :
       browse' = [browse EXCEPT !.at = IF browse.query.page < totalPages(browse.total, browse.query.perPage)
                                       THEN "page" ELSE "done",
                                !.shown = @ \cup ToSet(Page(s, browse.query))]
  /\ UNCHANGED <<table, click, label, raced, missed, clicks>>

(* The operator asks for the next page: a new request and a new count.       *)
PageLink ==
  /\ browse.at = "page"
  /\ browse' = [browse EXCEPT !.at = "list", !.query.page = @ + 1,
                              !.total = Cardinality(buildAlertReviewWhere(table, browse.query))]
  /\ UNCHANGED <<table, click, label, raced, missed, clicks>>

(* Dismiss and Restore change the rows that are not in that state yet; the   *)
(* traces of those, where there is one, are labelled next. A statement whose *)
(* answer is lost has changed the rows, and the request ends with an error.  *)
SetDismissed(o, ids, on) ==
  LET moved == {a \in ids : table[a].dismissed # on}
      traces == {table[a].kind.trace : a \in moved} \ {NoTrace}
  IN
  /\ click[o] = NoClick /\ clicks < MaxClicks /\ clicks' = clicks + 1
  /\ table' = [a \in DOMAIN table |-> IF a \in moved THEN [table[a] EXCEPT !.dismissed = on] ELSE table[a]]
  /\ browse' = Disturbed
  /\ \/ /\ click' = [click EXCEPT ![o] = [traces |-> traces, value |-> IF on /\ traces # {} THEN 1 ELSE 0]]
        /\ UNCHANGED missed
     \/ missed' = missed \cup traces /\ UNCHANGED click
  /\ raced' = raced \cup UNION {traces \cap click[p].traces : p \in Operators \ {o}}
  /\ UNCHANGED label

(* DismissBulk: no ids is a bad request.                                     *)
DismissAlerts(o) == \E ids \in SUBSET DOMAIN table : ids # {} /\ SetDismissed(o, ids, TRUE)

RestoreAlerts(o) == \E a \in DOMAIN table : SetDismissed(o, {a}, FALSE)

(* The request has dealt with this trace.                                    *)
Labelled(o, t) ==
  click' = [click EXCEPT ![o] = IF click[o].traces = {t} THEN NoClick ELSE [click[o] EXCEPT !.traces = @ \ {t}]]

(* Variant: a restored alert is not labelled again.                          *)
ScoreDismissOnly(o) ==
  /\ click[o] # NoClick
  /\ \E t \in click[o].traces :
       /\ label' = [label EXCEPT ![t] = IF click[o].value = 1 THEN 1 ELSE @]
       /\ missed' = missed \ {t}
       /\ Labelled(o, t)
  /\ UNCHANGED <<table, browse, raced, clicks>>

(* The scores are posted one trace at a time, after the update, best-effort: *)
(* one that the buffer drops or Langfuse refuses is at most logged.          *)
scoreOperatorDismissValue(o) ==
  /\ click[o] # NoClick
  /\ \E t \in click[o].traces :
       /\ \/ label' = [label EXCEPT ![t] = click[o].value] /\ missed' = missed \ {t}
          \/ missed' = missed \cup {t} /\ UNCHANGED label
       /\ Labelled(o, t)
  /\ UNCHANGED <<table, browse, raced, clicks>>

(* The server ends between the update of the rows and the last score: the    *)
(* requests in hand are gone, and nothing remembers what they had to post.   *)
RequestsDie ==
  /\ \E o \in Operators : click[o] # NoClick
  /\ click' = [o \in Operators |-> NoClick]
  /\ missed' = missed \cup UNION {click[o].traces : o \in Operators}
  /\ UNCHANGED <<table, browse, label, raced, clicks>>

NextReview ==
  \/ CreateAlert
  \/ MarkAlertNotified
  \/ ListPage
  \/ ListAlertsForReview
  \/ PageLink
  \/ RequestsDie
  \/ \E o \in Operators : DismissAlerts(o) \/ RestoreAlerts(o) \/ scoreOperatorDismissValue(o)

SpecReview == InitReview /\ [][NextReview]_reviewVars

-----------------------------------------------------------------------------
(* A walk over all pages shows every alert its first page counted, provided  *)
(* no row left the result and none moved between a request's count and its   *)
(* list: alerts that arrive in between shift rows to later pages, where they *)
(* are seen twice, but never past the reader, because the order is total.    *)
NoneSkipped ==
  browse.at = "done" /\ ~browse.disturbed => browse.wanted \subseteq browse.shown

(* The label that a trace got last is the state of an alert of that trace,   *)
(* and so of the only one it has, as long as requests for the trace did not  *)
(* overlap and the last score was not lost with an answer, in the buffer or  *)
(* in a crash: the label the judge is graded against tells a dismissed alert *)
(* from a restored one. A later decision makes up for a score that was lost. *)
(* It says no more of alerts that share a trace: dismissing one labels the   *)
(* evaluation of all.                                                        *)
LabelTruthful ==
  \A t \in Traces \ (raced \cup missed) :
    AlertsOf(t) # {} /\ (\A o \in Operators : t \notin click[o].traces)
      => \E a \in AlertsOf(t) : (label[t] = 1) = table[a].dismissed

=============================================================================
